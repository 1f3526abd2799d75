---------------------------- MODULE WebhookTracks ----------------------------
(***************************************************************************)
(* The required tracks of one provider webhook                             *)
(* (packages/billing/src/webhook-tracks.ts), from its delivery to a 200.   *)
(*                                                                         *)
(* Each applicable track is a durable row that one executor at a time      *)
(* claims under a token and a lease.  Executors are the HTTP requests of   *)
(* the provider's deliveries and the worker's retry jobs; an hourly timer  *)
(* takes back expired claims and re-represents due rows in the queue; an   *)
(* operator retries or reviews what was parked.  A job is identified by    *)
(* event, track and generation, and BullMQ keeps ended jobs, so that a     *)
(* second add of the same identity is silently dropped.                    *)
(***************************************************************************)
EXTENDS Integers, FiniteSets

CONSTANTS
    Events,         \* kinds of event of the instance
    Request,        \* deliveries the web application handles at a time
    Worker,         \* concurrency of the retry worker
    MaxAttempts,    \* WEBHOOK_TRACK_MAX_ATTEMPTS (5)
    MaxRecoveries,  \* MAX_OPERATOR_RECOVERIES (3)
    ReviewApplies,  \* does PostgreSQL accept the disposition's UPDATE?
    Mishaps,        \* "crash", "query", "handoff", "stall", "lease", "clock"
    MaxMishaps      \* bound: how many of them happen

Track     == {"billing", "license", "affiliate"}
Executor  == Request \cup Worker
NoOne     == "no one"
NoJob     == <<"none", 0>>
Kind      == {"local_purchase_paid", "subscription_paid", "subscription_renewed",
              "refund_completed", "entitlement_transitioned"}
Product   == {"subscription", "local", "minute_pack"}

ASSUME WebhookAssumption ==
    /\ Events \subseteq [kind : Kind, product : Product]
    /\ Request \cap Worker = {} /\ NoOne \notin Executor
    /\ MaxAttempts \in Nat \ {0} /\ MaxRecoveries \in Nat /\ MaxMishaps \in Nat
    /\ Mishaps \subseteq {"crash", "query", "handoff", "stall", "lease", "clock"}
    /\ ReviewApplies \in BOOLEAN

VARIABLES
    event,          \* the normalized event
    receipt,        \* the WebhookEvent row, and what the provider was told
    row,            \* the WebhookEventTrack rows
    job,            \* retry jobs in Redis, by track and generation
    proc,           \* what each executor is doing
    timer,          \* what the hourly sweep has read of a due row
    runs,           \* handler runs begun, and failures recorded, of each track
    mishaps         \* faults so far
vars == <<event, receipt, row, job, proc, timer, runs, mishaps>>

-----------------------------------------------------------------------------
(* Applicability, and what may be replayed *)

CommissionRelevant(e) ==
    IF e.kind = "refund_completed"
    THEN e.product # "minute_pack"
    ELSE /\ e.product \in {"subscription", "local"}
         /\ e.kind \in {"subscription_paid", "subscription_renewed", "local_purchase_paid"}

Applicable(e) ==
    {t \in Track :
        \/ t = "billing"
        \/ t = "license" /\ e.kind = "local_purchase_paid" /\ e.product = "local"
        \/ t = "affiliate" /\ CommissionRelevant(e)}

ReplaySafe(t, e) ==
    /\ t = "billing" /\ e.product = "minute_pack"
    /\ e.kind \in {"local_purchase_paid", "refund_completed"}

(* Tracks are taken in the order billing, license, affiliate. *)
First(S) ==
    IF "billing" \in S THEN "billing" ELSE IF "license" \in S THEN "license" ELSE "affiliate"

-----------------------------------------------------------------------------
(* Rows, jobs and executors *)

Status == {"absent", "pending", "processing", "failed",
           "succeeded", "dead_letter", "reviewed"}

Receipts == [state : {"absent", "new", "old"}, processed : BOOLEAN, acked : BOOLEAN]
Rows  == [status : Status, attempts : 0..MaxAttempts, gen : Nat, owner : Executor \cup {NoOne},
          lease : {"none", "live", "lapsed"}, due : {"none", "later", "now"},
          recoveries : 0..MaxRecoveries]
Steps  == {"idle", "ensure", "claim", "run", "schedule", "sync"}
Claims == [track : Track, gen : Nat, attempts : 0..MaxAttempts]
Procs  == [pc : Steps, job : (Track \X Nat) \cup {NoJob}, locked : BOOLEAN,
          todo : SUBSET Track, claim : Claims, failures : SUBSET Track, dead : BOOLEAN]

NoRow   == [status |-> "absent", attempts |-> 0, gen |-> 0, owner |-> NoOne,
            lease |-> "none", due |-> "none", recoveries |-> 0]
Pending == [NoRow EXCEPT !.status = "pending", !.due = "now"]
NoClaim == [track |-> "billing", gen |-> 0, attempts |-> 0]
Idle    == [pc |-> "idle", job |-> NoJob, locked |-> FALSE, todo |-> {}, claim |-> NoClaim,
            failures |-> {}, dead |-> FALSE]
Resting == [due |-> FALSE, track |-> "billing", gen |-> 0]

Init ==
    /\ event \in Events
    /\ receipt = [state |-> "absent", processed |-> FALSE, acked |-> FALSE]
    /\ row = [t \in Track |-> NoRow]
    /\ job = [i \in {} |-> "waiting"]
    /\ proc = [p \in Executor |-> Idle]
    /\ timer = Resting
    /\ runs = [t \in Track |-> [begun |-> 0, threw |-> 0]]
    /\ mishaps = 0

Unresolved   == {t \in Track : row[t].status \notin {"absent", "succeeded", "reviewed"}}
Materialized == {t \in Track : row[t].status # "absent"}
AllSatisfied == Materialized # {} /\ Unresolved = {}

(* The row waits for an attempt: it is scheduled, unclaimed, within its budget. *)
Scheduled(t) ==
    /\ row[t].status \in {"pending", "failed"} /\ row[t].due # "none"
    /\ row[t].owner = NoOne /\ row[t].attempts < MaxAttempts
DueNow(t) == Scheduled(t) /\ row[t].due = "now"

(* The claim of `p' is still the row's: token, generation and unexpired lease. *)
Owns(p, t) ==
    /\ row[t].status = "processing" /\ row[t].gen = proc[p].claim.gen
    /\ row[t].owner = p /\ row[t].lease = "live"

NextGen(r)    == [r EXCEPT !.gen = @ + 1]
Taken(r, p)   == [r EXCEPT !.attempts = @ + 1, !.status = "processing", !.owner = p,
                           !.lease = "live", !.due = "none"]
Closed(r, s)  == [r EXCEPT !.status = s, !.owner = NoOne, !.lease = "none", !.due = "none"]
Again(r, due) == [r EXCEPT !.gen = @ + 1, !.status = "failed", !.owner = NoOne,
                           !.lease = "none", !.due = due]
Recovered(r)  == [Again(r, "now") EXCEPT !.attempts = 0, !.recoveries = r.recoveries + 1]

(* An add of an identity that exists changes nothing, also after its job has   *)
(* completed or failed ("ended").                                              *)
Added(jobs, id) == [i \in DOMAIN jobs \cup {id} |-> IF i \in DOMAIN jobs THEN jobs[i] ELSE "waiting"]
Ended(id)      == id \in DOMAIN job /\ job[id] = "ended"
JobEnds(p, s)  == IF proc[p].locked THEN [job EXCEPT ![proc[p].job] = s] ELSE job

Step(p, from) == proc[p].pc = from
Goes(p, to)   == proc' = [proc EXCEPT ![p] = [@ EXCEPT !.pc = to]]
Mishap(kind)  == kind \in Mishaps /\ mishaps < MaxMishaps /\ mishaps' = mishaps + 1
Adds(id)      == \/ job' = Added(job, id) /\ UNCHANGED mishaps
                 \/ Mishap("handoff") /\ UNCHANGED job

(* The executor is done: a request answers, a job completes or fails. *)
Finish(p, s) ==
    /\ proc' = [proc EXCEPT ![p] = Idle]
    /\ job' = JobEnds(p, s)

-----------------------------------------------------------------------------
(* The provider's delivery *)

Ages ==
    /\ receipt.state = "new"
    /\ receipt' = [receipt EXCEPT !.state = "old"]
    /\ UNCHANGED <<event, row, job, proc, timer, runs, mishaps>>

(* A processed event is acknowledged, a young unprocessed one gets a 503. *)
Receive(p) ==
    /\ p \in Request /\ Step(p, "idle")
    /\ IF receipt.processed
       THEN receipt' = [receipt EXCEPT !.acked = TRUE] /\ UNCHANGED proc
       ELSE /\ receipt.state # "new"
            /\ receipt' = [receipt EXCEPT !.state = IF @ = "absent" THEN "new" ELSE @]
            /\ Goes(p, "ensure")
    /\ UNCHANGED <<event, row, job, timer, runs, mishaps>>

(* Mutant: a redelivery starts the rows again. *)
SlipEnsureRows(p) ==
    /\ Step(p, "ensure")
    /\ row' = [t \in Track |-> IF t \in Applicable(event) THEN Pending ELSE row[t]]
    /\ proc' = [proc EXCEPT ![p] = [@ EXCEPT !.pc = "claim", !.todo = Applicable(event)]]
    /\ UNCHANGED <<event, receipt, job, timer, runs, mishaps>>

(* createMany with skipDuplicates: rows that exist keep their state. *)
EnsureRows(p) ==
    /\ Step(p, "ensure")
    /\ row' = [t \in Track |->
                  IF t \in Applicable(event) /\ row[t].status = "absent" THEN Pending ELSE row[t]]
    /\ proc' = [proc EXCEPT ![p] = [@ EXCEPT !.pc = "claim", !.todo = Applicable(event)]]
    /\ UNCHANGED <<event, receipt, job, timer, runs, mishaps>>

-----------------------------------------------------------------------------
(* Claiming and running a track *)

Claimable(p, t) ==
    /\ DueNow(t)
    /\ p \in Worker => row[t].gen = proc[p].job[2]

(* Mutant: the attempt is counted in the claim but not in the row. *)
SlipClaim(p) ==
    /\ Step(p, "claim") /\ proc[p].todo # {}
    /\ LET t == First(proc[p].todo) IN
          /\ Claimable(p, t)
          /\ row' = [row EXCEPT ![t] = [Taken(row[t], p) EXCEPT !.attempts = row[t].attempts]]
          /\ runs' = [runs EXCEPT ![t].begun = @ + 1]
          /\ proc' = [proc EXCEPT ![p] =
                [@ EXCEPT !.pc = "run", !.todo = proc[p].todo \ {t},
                          !.claim = [track |-> t, gen |-> row[t].gen,
                                     attempts |-> row[t].attempts + 1]]]
    /\ UNCHANGED <<event, receipt, job, timer, mishaps>>

Claim(p) ==
    /\ Step(p, "claim") /\ proc[p].todo # {}
    /\ LET t == First(proc[p].todo) IN
          /\ Claimable(p, t)
          /\ row' = [row EXCEPT ![t] = Taken(@, p)]
          /\ runs' = [runs EXCEPT ![t].begun = @ + 1]
          /\ proc' = [proc EXCEPT ![p] =
                [@ EXCEPT !.pc = "run", !.todo = proc[p].todo \ {t},
                          !.claim = [track |-> t, gen |-> row[t].gen,
                                     attempts |-> row[t].attempts + 1]]]
    /\ UNCHANGED <<event, receipt, job, timer, mishaps>>

(* Busy, missing or terminal: a request goes on to the next track; a job ends, *)
(* after deriving `processed' again if its track has succeeded.                *)
Skip(p) ==
    /\ Step(p, "claim") /\ proc[p].todo # {}
    /\ LET t == First(proc[p].todo) IN
          /\ ~ Claimable(p, t)
          /\ \/ p \in Request /\ proc' = [proc EXCEPT ![p] = [@ EXCEPT !.todo = proc[p].todo \ {t}]] /\ UNCHANGED job
             \/ p \in Worker /\ row[t].status = "succeeded" /\ Goes(p, "sync") /\ UNCHANGED job
             \/ p \in Worker /\ row[t].status # "succeeded" /\ Finish(p, "ended")
    /\ UNCHANGED <<event, receipt, row, timer, runs, mishaps>>

(* The handler is code of other modules: it returns or throws, at any time,    *)
(* and its outcome is recorded while the claim is still the executor's.        *)

(* Where an executor goes after a track: a request to the next one. *)
AfterTrack(p, worker) ==
    proc' = [proc EXCEPT ![p] = [@ EXCEPT !.pc = IF p \in Request THEN "claim" ELSE worker,
                                          !.claim = NoClaim]]

MarkSucceeded(p) ==
    /\ Step(p, "run") /\ Owns(p, proc[p].claim.track)
    /\ row' = [row EXCEPT ![proc[p].claim.track] = Closed(@, "succeeded")]
    /\ AfterTrack(p, "sync")
    /\ UNCHANGED <<event, receipt, job, timer, runs, mishaps>>

(* The next generation is durable before any handoff to Redis. *)
MarkFailed(p) ==
    /\ Step(p, "run") /\ Owns(p, proc[p].claim.track)
    /\ LET t    == proc[p].claim.track
           dead == proc[p].claim.attempts >= MaxAttempts
       IN  /\ row' = [row EXCEPT ![t] = IF dead THEN Closed(@, "dead_letter")
                                        ELSE Again(@, "later")]
           /\ runs' = [runs EXCEPT ![t].threw = @ + 1]
           /\ IF dead /\ p \in Worker
              THEN Finish(p, "ended")
              ELSE /\ proc' = [proc EXCEPT ![p] =
                         [@ EXCEPT !.pc = IF p \in Request THEN "claim" ELSE "schedule",
                                   !.claim = NoClaim, !.dead = proc[p].dead \/ dead,
                                   !.failures = proc[p].failures \cup (IF dead THEN {} ELSE {t})]]
                   /\ UNCHANGED job
    /\ UNCHANGED <<event, receipt, timer, mishaps>>

(* The claim was lost while the handler ran: its outcome is dropped ("busy"). *)
MarkLost(p) ==
    /\ Step(p, "run") /\ ~ Owns(p, proc[p].claim.track)
    /\ \/ p \in Request /\ AfterTrack(p, "claim") /\ UNCHANGED job
       \/ p \in Worker /\ Finish(p, "ended")
    /\ UNCHANGED <<event, receipt, row, timer, runs, mishaps>>

-----------------------------------------------------------------------------
(* Deriving `processed', answering, and handing retries to the queue *)

(* Mutant: tracks that this delivery skipped are not looked at. *)
SlipResolved(p) == proc[p].failures = {} /\ ~ proc[p].dead

Resolved(p) == proc[p].failures = {} /\ ~ proc[p].dead /\ Unresolved = {}

(* A resolved track stays resolved: the read, the derived flag and the 200 are *)
(* one step.                                                                   *)
Acknowledge(p) ==
    /\ p \in Request /\ Step(p, "claim") /\ proc[p].todo = {}
    /\ Resolved(p)
    /\ receipt' = [receipt EXCEPT !.processed = @ \/ AllSatisfied, !.acked = TRUE]
    /\ Finish(p, "ended")
    /\ UNCHANGED <<event, row, timer, runs, mishaps>>

Refuse(p) ==
    /\ p \in Request /\ Step(p, "claim") /\ proc[p].todo = {}
    /\ ~ Resolved(p)
    /\ IF proc[p].failures = {}
       THEN Finish(p, "ended")
       ELSE proc' = [proc EXCEPT ![p] = [@ EXCEPT !.pc = "schedule", !.dead = FALSE]] /\ UNCHANGED job
    /\ UNCHANGED <<event, receipt, row, timer, runs, mishaps>>

Sync(p) ==
    /\ Step(p, "sync")
    /\ receipt' = [receipt EXCEPT !.processed = @ \/ AllSatisfied]
    /\ Finish(p, "ended")
    /\ UNCHANGED <<event, row, timer, runs, mishaps>>

(* A failed track goes to the queue under the generation that its row has now, *)
(* if it is still scheduled; an error of the add is logged and swallowed.      *)
Handoff(p) ==
    /\ Step(p, "schedule")
    /\ LET t    == First(proc[p].failures)
           rest == proc[p].failures \ {t}
           ends == IF rest = {} THEN JobEnds(p, "ended") ELSE job
       IN  /\ \/ Scheduled(t) /\ UNCHANGED mishaps /\ job' = Added(ends, <<t, row[t].gen>>)
              \/ Scheduled(t) /\ Mishap("handoff") /\ job' = ends
              \/ ~ Scheduled(t) /\ UNCHANGED mishaps /\ job' = ends
           /\ proc' = [proc EXCEPT ![p] = IF rest = {} THEN Idle ELSE [@ EXCEPT !.failures = rest]]
    /\ UNCHANGED <<event, receipt, row, timer, runs>>

-----------------------------------------------------------------------------
(* The retry queue, and what goes wrong around an executor *)

(* The delay of a job ends when its row is due; clocks that disagree hand it   *)
(* over early.                                                                 *)
Deliver(p, id) ==
    /\ p \in Worker /\ Step(p, "idle")
    /\ id \in DOMAIN job /\ job[id] = "waiting"
    /\ IF row[id[1]].gen = id[2] /\ row[id[1]].due = "later" THEN Mishap("clock") ELSE UNCHANGED mishaps
    /\ job' = [job EXCEPT ![id] = "active"]
    /\ proc' = [proc EXCEPT ![p] = [Idle EXCEPT !.pc = "claim", !.job = id, !.locked = TRUE,
                                                !.todo = {id[1]}]]
    /\ UNCHANGED <<event, receipt, row, timer, runs>>

(* A query fails, the receipt write after the handler included: the request    *)
(* answers 500, the job fails (attempts: 1), a claim stays as it is.           *)
QueryFails(p) ==
    /\ proc[p].pc \in {"ensure", "claim", "run", "sync"} /\ Mishap("query")
    /\ Finish(p, "ended")
    /\ UNCHANGED <<event, receipt, row, timer, runs>>

(* The process dies; BullMQ hands the stalled job over again, or fails it when *)
(* it has stalled before.                                                      *)
Crash(p) ==
    /\ ~ Step(p, "idle") /\ Mishap("crash")
    /\ \E s \in {"waiting", "ended"} : Finish(p, s)
    /\ UNCHANGED <<event, receipt, row, timer, runs>>

(* The worker is too slow to renew its job lock: the job is handed over again  *)
(* while it goes on.                                                           *)
JobStalls(p) ==
    /\ p \in Worker /\ proc[p].locked /\ Mishap("stall")
    /\ job' = [job EXCEPT ![proc[p].job] = "waiting"]
    /\ proc' = [proc EXCEPT ![p] = [@ EXCEPT !.locked = FALSE]]
    /\ UNCHANGED <<event, receipt, row, timer, runs>>

(* The token is a fresh UUID of the claim in the executor's memory. *)
Held(t) ==
    \E p \in Executor :
        /\ Step(p, "run")
        /\ proc[p].claim.track = t /\ row[t].owner = p /\ row[t].gen = proc[p].claim.gen

(* 120 s pass without a renewal: the holder is gone, or too slow. *)
LeaseLapses(t) ==
    /\ row[t].status = "processing" /\ row[t].lease = "live"
    /\ IF Held(t) THEN Mishap("lease") ELSE UNCHANGED mishaps
    /\ row' = [row EXCEPT ![t] = [@ EXCEPT !.lease = "lapsed"]]
    /\ UNCHANGED <<event, receipt, job, proc, timer, runs>>

ComesDue(t) ==
    /\ row[t].due = "later"
    /\ row' = [row EXCEPT ![t] = [@ EXCEPT !.due = "now"]]
    /\ UNCHANGED <<event, receipt, job, proc, timer, runs, mishaps>>

-----------------------------------------------------------------------------
(* The hourly sweep *)

(* Mutants: every track is taken for replay safe, or the budget is not read. *)
SlipReplays(t) == row[t].attempts < MaxAttempts
SwapReplays(t) == ReplaySafe(t, event)

Replays(t) == ReplaySafe(t, event) /\ row[t].attempts < MaxAttempts

(* The update repeats everything the sweep has read of the row. *)
RecoverExpired(t) ==
    /\ row[t].status = "processing" /\ row[t].lease = "lapsed"
    /\ row' = [row EXCEPT ![t] = IF Replays(t) THEN Again(@, "now") ELSE Closed(@, "dead_letter")]
    /\ UNCHANGED <<event, receipt, job, proc, timer, runs, mishaps>>

SweepReads(t) ==
    /\ timer = Resting /\ DueNow(t)
    /\ timer' = [due |-> TRUE, track |-> t, gen |-> row[t].gen]
    /\ UNCHANGED <<event, receipt, row, job, proc, runs, mishaps>>

(* An ended job of this generation would swallow the add: the row goes on to   *)
(* the next one first, unless it has moved meanwhile.  The add may be lost.    *)
SweepAdds ==
    LET t    == timer.track
        id   == <<t, timer.gen>>
        next == <<t, timer.gen + 1>>
    IN  /\ timer.due
        /\ \/ ~ Ended(id) /\ UNCHANGED row /\ Adds(id)
           \/ /\ Ended(id) /\ DueNow(t) /\ row[t].gen = timer.gen
              /\ row' = [row EXCEPT ![t] = NextGen(@)]
              /\ Adds(next)
           \/ Ended(id) /\ ~ (DueNow(t) /\ row[t].gen = timer.gen) /\ UNCHANGED <<row, job, mishaps>>
        /\ timer' = Resting
        /\ UNCHANGED <<event, receipt, proc, runs>>

-----------------------------------------------------------------------------
(* The operator *)

(* Mutant: one recovery too many. *)
SlipOperatorRetry(t) ==
    /\ row[t].status = "dead_letter" /\ t = "billing" /\ row[t].attempts >= 1
    /\ ReplaySafe(t, event) /\ row[t].recoveries <= MaxRecoveries
    /\ row' = [row EXCEPT ![t] = Recovered(@)]
    /\ job' \in {job, Added(job, <<t, row[t].gen + 1>>)}
    /\ UNCHANGED <<event, receipt, proc, timer, runs, mishaps>>

(* A replay-safe dead letter gets a fresh budget; the add after the commit may *)
(* be lost, the row is due anyway.                                             *)
OperatorRetry(t) ==
    /\ row[t].status = "dead_letter" /\ t = "billing" /\ row[t].attempts >= 1
    /\ ReplaySafe(t, event) /\ row[t].recoveries < MaxRecoveries
    /\ row' = [row EXCEPT ![t] = Recovered(@)]
    /\ job' \in {job, Added(job, <<t, row[t].gen + 1>>)}
    /\ UNCHANGED <<event, receipt, proc, timer, runs, mishaps>>

(* A dead letter that must not be replayed is closed by its evidence.  As the  *)
(* statement is written, it sets completedAt without quotes: PostgreSQL folds  *)
(* that to a column the table does not have and the transaction rolls back     *)
(* (ReviewApplies FALSE).  With the column quoted it is the step below.        *)
OperatorReview(t) ==
    /\ ReviewApplies
    /\ row[t].status = "dead_letter" /\ ~ ReplaySafe(t, event)
    /\ row' = [row EXCEPT ![t] = NextGen(Closed(@, "reviewed"))]
    /\ receipt' = [receipt EXCEPT !.processed = @ \/ Unresolved = {t}]
    /\ UNCHANGED <<event, job, proc, timer, runs, mishaps>>

-----------------------------------------------------------------------------
Runs(p) ==
    \/ EnsureRows(p) \/ Claim(p) \/ Skip(p)
    \/ MarkSucceeded(p) \/ MarkFailed(p) \/ MarkLost(p)
    \/ Acknowledge(p) \/ Refuse(p) \/ Sync(p) \/ Handoff(p)
Faults(p)  == QueryFails(p) \/ Crash(p) \/ JobStalls(p)
Delivers(p) == \E id \in DOMAIN job : Deliver(p, id)
Clock(t)   == LeaseLapses(t) \/ ComesDue(t)
SweepsRow(t) == RecoverExpired(t) \/ SweepReads(t)
Operator(t)  == OperatorRetry(t) \/ OperatorReview(t)

Next ==
    \/ Ages \/ SweepAdds
    \/ \E p \in Executor : Receive(p) \/ Runs(p) \/ Faults(p) \/ Delivers(p)
    \/ \E t \in Track : Clock(t) \/ SweepsRow(t) \/ Operator(t)

(* Handlers end, the worker takes jobs, the timer runs and time passes; the    *)
(* provider may deliver once and never again, and no operator need ever come.  *)
Fairness ==
    /\ \A p \in Executor : WF_vars(Runs(p) \/ Delivers(p))
    /\ \A t \in Track :
          /\ WF_vars((~ Held(t) /\ LeaseLapses(t)) \/ ComesDue(t) \/ RecoverExpired(t))
          /\ SF_vars(SweepReads(t))
    /\ WF_vars(SweepAdds)

Spec == Init /\ [][Next]_vars /\ Fairness
=============================================================================

----------------------------- MODULE LoopClosure -----------------------------
(***************************************************************************)
(* What follows the merge of the pull request of FixPullRequests: GitHub's *)
(* webhook records the merge and publishes one retest of the finding       *)
(* (apps/web/src/app/api/webhooks/github/route.ts, packages/db/src/        *)
(* fix-pr-merge-service.ts).  What it cannot finish for a known reason it  *)
(* leaves to a durable closure, which the worker's sweep retries           *)
(* (packages/db/src/loop-closure-service.ts, apps/worker/src/jobs/         *)
(* loop-closure-sweep.job.ts).                                             *)
(***************************************************************************)
EXTENDS FixPullRequests, FiniteSets

CONSTANTS
    Handler,        \* webhook requests and sweeps under way at a time
    MaxAttempts,    \* LOOP_CLOSURE_MAX_ATTEMPTS
    MaxBusy         \* bound: requests and webhook requests that are let in at once

ASSUME LoopAssumption == MaxAttempts \in Nat \ {0} /\ MaxBusy \in Nat

VARIABLES
    hook,           \* GitHub's delivery of the merge, and its WebhookEvent row
    closure,        \* the LoopClosure row
    retest,         \* the automatic retest: its scan, its queue job
    rival,          \* another retest of the finding
    gone,           \* history: the finding, its target or the owner was found gone
    task            \* what each webhook request or sweep is doing
loopVars == <<hook, closure, retest, rival, gone, task>>
vars     == <<fixVars, mishaps, loopVars>>

Hooks    == [inbox : Nat, marker : BOOLEAN]
Closures == [status : {"none", "pending", "completed", "failed"}, attempts : Nat, due : BOOLEAN]
Retests  == [scan : {"none", "QUEUED", "ENDED", "FAILED"}, job : BOOLEAN, count : Nat]
Rivals   == {"none", "pending", "ended"}
\* "tries" is the claimed attempt of a sweep; a webhook request has none.
Tasks    == [pc : {"idle", "received", "merged", "worker", "retest", "enqueue", "close",
                   "defer", "unmark", "claim", "retry"},
             tries : Nat]

Rest == [pc |-> "idle", tries |-> 0]

Init ==
    /\ FixInit
    /\ hook = [inbox |-> 0, marker |-> FALSE]
    /\ closure = [status |-> "none", attempts |-> 0, due |-> FALSE]
    /\ retest = [scan |-> "none", job |-> FALSE, count |-> 0]
    /\ rival = "none" /\ gone = FALSE
    /\ task = [h \in Handler |-> Rest]

Is(h, pc)   == task[h].pc = pc
Does(h, pc) == task' = [task EXCEPT ![h].pc = pc]
Ends(h)     == task' = [task EXCEPT ![h] = Rest]
Webhook(h)  == task[h].tries = 0

Spare == Cardinality({p \in Request : ~ At(p, "idle")})
         + Cardinality({h \in Handler : ~ Is(h, "idle")}) < MaxBusy

(* How a step fails: a sweep retries whatever it met; a webhook request defers *)
(* what classifyLoopClosureError knows, and gives up its marker for the rest.  *)
Deferrable(h) == Does(h, IF Webhook(h) THEN "defer" ELSE "retry")
Unexpected(h) == Does(h, IF Webhook(h) THEN "unmark" ELSE "retry")

(* Nothing to publish: the request is done, a sweep's closure is complete. *)
Nothing(h) == IF Webhook(h) THEN Ends(h) ELSE Does(h, "close")

-----------------------------------------------------------------------------
(* The merge and its delivery *)

Merge ==
    /\ remote.pr = "open" /\ remote' = [remote EXCEPT !.pr = "merged"]
    /\ hook' = [hook EXCEPT !.inbox = @ + 1]
    /\ Calm /\ UNCHANGED <<approval, record, starts, work, closure, retest, rival, gone, task>>

(* GitHub delivers again, at the latest when somebody asks it to. *)
Redeliver ==
    /\ remote.pr = "merged" /\ Mishap("again")
    /\ hook' = [hook EXCEPT !.inbox = @ + 1]
    /\ UNCHANGED <<fixVars, closure, retest, rival, gone, task>>

(* A delivery whose marker is there is a duplicate. *)
Receive(h) ==
    /\ Is(h, "idle") /\ Spare /\ hook.inbox > 0
    /\ hook' = [hook EXCEPT !.inbox = @ - 1]
    /\ \/ ~ hook.marker /\ Does(h, "received")
       \/ hook.marker /\ UNCHANGED task
    /\ Calm /\ UNCHANGED <<fixVars, closure, retest, rival, gone>>

(* The unique insert; the loser of a race is a duplicate too. *)
Mark(h) ==
    /\ Is(h, "received")
    /\ \/ ~ hook.marker /\ Calm /\ hook' = [hook EXCEPT !.marker = TRUE] /\ Does(h, "merged")
       \/ hook.marker /\ Calm /\ UNCHANGED hook /\ Ends(h)
       \/ Mishap("query") /\ UNCHANGED hook /\ Ends(h)
    /\ UNCHANGED <<fixVars, closure, retest, rival, gone>>

-----------------------------------------------------------------------------
(* handleFixPrMergedAndReevaluate, then the enqueue of its outcome *)

SlipRecognised(h) ==     \* a merge that is already recorded is nothing to act on
    \/ record.status = "open"
    \/ Webhook(h) /\ record.status \in {"opening", "recovery"}

(* Only a webhook has the identity that recovers an uncertain execution, and   *)
(* only one whose approval has been claimed.                                   *)
Recognised(h) ==
    \/ record.status \in {"open", "merged"}
    \/ /\ Webhook(h) /\ record.status \in {"opening", "recovery"}
       /\ record.by # NoApproval /\ approval[record.by].status \in Claimed
AsMerged == [record EXCEPT !.status = "merged"]

(* The finding or its proposal, its scan or target, or the workspace's last    *)
(* owner is gone: no merge is recorded and no retest made, which for a sweep   *)
(* completes the closure.  Nobody retests what is gone.                        *)
FoundGone(h) == gone' = TRUE /\ Calm /\ Nothing(h)

RecordMerge(h) ==
    /\ Is(h, "merged")
    /\ \/ /\ UNCHANGED gone
          /\ \/ Recognised(h) /\ Calm /\ record' = AsMerged /\ Does(h, "worker")
             \/ ~ Recognised(h) /\ Calm /\ UNCHANGED record /\ Nothing(h)
             \/ /\ Mishap("query") /\ Unexpected(h)
                /\ UNCHANGED record \/ (Recognised(h) /\ record' = AsMerged)
       \/ Recognised(h) /\ FoundGone(h) /\ UNCHANGED record
    /\ UNCHANGED <<approval, remote, starts, work, hook, closure, retest, rival>>

AssertWorker(h) ==
    /\ Is(h, "worker")
    /\ \/ Calm /\ Does(h, "retest")
       \/ Mishap("worker") /\ Deferrable(h)
    /\ UNCHANGED <<fixVars, hook, closure, retest, rival, gone>>

SlipHasPrior == retest.scan = "QUEUED"       \* an ended retest does not count
HasPrior   == retest.scan # "none"
Admissible == ~ HasPrior /\ rival # "pending"

(* One transaction under the owner's and the branch's advisory locks.  The     *)
(* entitlement check and the workspace cap refuse with reasons that can be     *)
(* deferred; UserScanAlreadyActiveError is not one of them.                    *)
CreateRetest(h) ==
    /\ Is(h, "retest")
    /\ \/ /\ UNCHANGED gone
          /\ \/ /\ Calm /\ retest.scan = "QUEUED" /\ Does(h, "enqueue") /\ UNCHANGED retest
             \/ /\ Calm /\ HasPrior /\ retest.scan # "QUEUED" /\ Nothing(h) /\ UNCHANGED retest
             \/ /\ Calm /\ ~ HasPrior /\ rival = "pending" /\ Nothing(h) /\ UNCHANGED retest
             \/ /\ Calm /\ Admissible /\ Unexpected(h) /\ UNCHANGED retest  \* the owner reviews
             \/ /\ Calm /\ Admissible /\ Does(h, "enqueue")
                /\ retest' = [scan |-> "QUEUED", job |-> FALSE, count |-> retest.count + 1]
             \/ /\ Admissible \/ retest.scan = "QUEUED"
                /\ Mishap("refused") /\ Deferrable(h) /\ UNCHANGED retest
             \/ Mishap("query") /\ Unexpected(h) /\ UNCHANGED retest
       \/ /\ Admissible \/ retest.scan = "QUEUED"
          /\ FoundGone(h) /\ UNCHANGED retest
    /\ UNCHANGED <<fixVars, hook, closure, rival>>

(* enqueueScan: not submitted is an error, an unanswered add is taken for done. *)
Published == IF retest.scan = "QUEUED" THEN [retest EXCEPT !.job = TRUE] ELSE retest

Enqueue(h) ==
    /\ Is(h, "enqueue")
    /\ \/ Calm /\ retest' = Published /\ Does(h, "close")
       \/ Mishap("queue") /\ UNCHANGED retest /\ Deferrable(h)
       \/ Mishap("uncertain") /\ retest' \in {retest, Published} /\ Does(h, "close")
    /\ UNCHANGED <<fixVars, hook, closure, rival, gone>>

CloseLoop(h) ==
    /\ Is(h, "close")
    /\ \/ /\ Calm /\ Ends(h)
          /\ closure' = IF closure.status = "pending"
                        THEN [closure EXCEPT !.status = "completed"] ELSE closure
       \/ /\ Mishap("query") /\ UNCHANGED closure
          /\ IF Webhook(h) THEN Ends(h) ELSE Does(h, "retry")
    /\ UNCHANGED <<fixVars, hook, retest, rival, gone>>

-----------------------------------------------------------------------------
(* What a webhook request leaves behind, and the sweep *)

(* recordDeferredLoopClosure: a finished closure is never reopened. *)
Deferred ==
    CASE closure.status = "none"    -> [status |-> "pending", attempts |-> 1, due |-> FALSE]
      [] closure.status = "pending" -> [closure EXCEPT !.due = FALSE]
      [] OTHER                      -> closure

Defer(h) ==
    /\ Is(h, "defer")
    /\ \/ Calm /\ closure' = Deferred /\ Ends(h)
       \/ Mishap("query") /\ UNCHANGED closure /\ Does(h, "unmark")
    /\ UNCHANGED <<fixVars, hook, retest, rival, gone>>

Unmark(h) ==
    /\ Is(h, "unmark") /\ Ends(h)
    /\ \/ Calm /\ hook' = [hook EXCEPT !.marker = FALSE]
       \/ Mishap("query") /\ UNCHANGED hook
    /\ UNCHANGED <<fixVars, closure, retest, rival, gone>>

(* claimDueLoopClosures: a read, then a compare-and-set that counts the        *)
(* attempt and takes the lease.                                                *)
Due == closure.status = "pending" /\ closure.due

SweepRead(h) ==
    /\ Is(h, "idle") /\ Due
    /\ task' = [task EXCEPT ![h] = [pc |-> "claim", tries |-> closure.attempts + 1]]
    /\ Calm /\ UNCHANGED <<fixVars, hook, closure, retest, rival, gone>>

SweepClaim(h) ==
    /\ Is(h, "claim")
    /\ \/ /\ Due /\ task[h].tries = closure.attempts + 1 /\ Calm
          /\ closure' = [closure EXCEPT !.attempts = @ + 1, !.due = FALSE]
          /\ Does(h, "merged")
       \/ /\ ~ (Due /\ task[h].tries = closure.attempts + 1) /\ Calm
          /\ UNCHANGED closure /\ Ends(h)
       \/ Mishap("query") /\ UNCHANGED closure /\ Ends(h)
    /\ UNCHANGED <<fixVars, hook, retest, rival, gone>>

(* The last attempt fails the closure for good and notifies the workspace. *)
Exhausted(h) == task[h].tries >= MaxAttempts

Retry(h) ==
    /\ Is(h, "retry") /\ Ends(h)
    /\ \/ /\ Exhausted(h) /\ Calm
          /\ closure' = IF closure.status = "pending"
                        THEN [closure EXCEPT !.status = "failed"] ELSE closure
       \/ ~ Exhausted(h) /\ Calm /\ closure' = Deferred
       \/ Mishap("query") /\ UNCHANGED closure
    /\ UNCHANGED <<fixVars, hook, retest, rival, gone>>

(* The backoff, or the lease of a sweep that died, runs out. *)
ComesDue ==
    /\ closure.status = "pending" /\ ~ closure.due
    /\ closure' = [closure EXCEPT !.due = TRUE]
    /\ Calm /\ UNCHANGED <<fixVars, hook, retest, rival, gone, task>>

-----------------------------------------------------------------------------
(* The rest of the product *)

RunRetest ==
    /\ retest.job
    /\ retest' = [retest EXCEPT !.scan = "ENDED", !.job = FALSE]
    /\ Calm /\ UNCHANGED <<fixVars, hook, closure, rival, gone, task>>

(* The reconciler of ScanLifecycle fails a queued scan that has no job after   *)
(* a grace of minutes, longer than an enqueue under way.                       *)
Reconcile ==
    /\ retest.scan = "QUEUED" /\ ~ retest.job /\ \A h \in Handler : ~ Is(h, "enqueue")
    /\ retest' = [retest EXCEPT !.scan = "FAILED"]
    /\ Calm /\ UNCHANGED <<fixVars, hook, closure, rival, gone, task>>

RivalComes ==
    /\ rival = "none" /\ remote.pr = "merged" /\ ~ HasPrior /\ ~ gone /\ rival' = "pending"
    /\ Calm /\ UNCHANGED <<fixVars, hook, closure, retest, gone, task>>

RivalEnds ==
    /\ rival = "pending" /\ rival' = "ended"
    /\ Calm /\ UNCHANGED <<fixVars, hook, closure, retest, gone, task>>

LoopCrash(h) ==
    /\ ~ Is(h, "idle") /\ Mishap("crash") /\ Ends(h)
    /\ UNCHANGED <<fixVars, hook, closure, retest, rival, gone>>

Proceeds(h) ==
    \/ Mark(h) \/ RecordMerge(h) \/ AssertWorker(h) \/ CreateRetest(h) \/ Enqueue(h)
    \/ CloseLoop(h) \/ Defer(h) \/ Unmark(h) \/ SweepClaim(h) \/ Retry(h)

LoopNext ==
    \/ Merge \/ Redeliver \/ ComesDue \/ RunRetest \/ Reconcile \/ RivalComes \/ RivalEnds
    \/ \E h \in Handler : Receive(h) \/ SweepRead(h) \/ Proceeds(h) \/ LoopCrash(h)

FixNext ==
    \/ \E p \in Request : (Spare /\ Starts(p)) \/ Handles(p) \/ Crash(p)
    \/ \E a \in Approval : Decides(a)
    \/ BaseMoves \/ CloseOrReopen

Next == (FixNext /\ UNCHANGED loopVars) \/ LoopNext

Spec == Init /\ [][Next]_vars

(* Webhook requests and sweeps run, GitHub delivers once, the sweep and the    *)
(* scan worker keep their timers.  Nothing is asked of the rival requests, and *)
(* nobody has to ask, approve, merge, redeliver or leave.                      *)
Fairness ==
    /\ \A h \in Handler : WF_vars(Proceeds(h))
    /\ WF_vars(\E h \in Handler : Receive(h))
    /\ WF_vars(\E h \in Handler : SweepRead(h))
    /\ WF_vars(ComesDue) /\ WF_vars(RunRetest) /\ WF_vars(Reconcile)

FairSpec == Spec /\ Fairness
=============================================================================

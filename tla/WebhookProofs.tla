---------------------------- MODULE WebhookProofs ----------------------------
(***************************************************************************)
(* The safety of WebhookTracks, for every set of events, requests and      *)
(* workers, every budget and any number of mishaps, and the refinement of  *)
(* the ledger.                                                             *)
(***************************************************************************)
EXTENDS WebhookSafety, TLAPS

(* The rows of an event are created together, before anything is claimed. *)
RowsTogether ==
    /\ Materialized = {} \/ Materialized = Applicable(event)
    /\ \A p \in Request : proc[p].pc \notin {"idle", "ensure"} => Materialized # {}

(* Of a track that is not replay safe every run but the one under way, or the  *)
(* last one, is recorded as failed.                                            *)
RunsRecorded ==
    \A t \in Track :
        ~ ReplaySafe(t, event) =>
            /\ row[t].status \in {"absent", "pending", "failed"} => runs[t].begun <= runs[t].threw
            /\ runs[t].begun <= runs[t].threw + 1

(* A run is counted in the row; a recovery archives at most MaxAttempts. *)
RunsCounted ==
    \A t \in Track :
        /\ row[t].status = "absent" => runs[t].begun = 0
        /\ runs[t].begun <= MaxAttempts * row[t].recoveries + row[t].attempts

WebhookInv == RowsTogether /\ RunsRecorded /\ RunsCounted /\ AckMeansResolved

-----------------------------------------------------------------------------
LEMMA ApplicableTracks ==
    Applicable(event) \subseteq Track /\ "billing" \in Applicable(event)
BY DEF Applicable, Track

LEMMA FirstIsIn == ASSUME NEW S \in SUBSET Track, S # {} PROVE First(S) \in S
BY DEF First, Track

LEMMA InitType == Init => TypeOK
BY WebhookAssumption
   DEF Init, TypeOK, Rows, Procs, Claims, Steps, Receipts, NoRow, Idle, NoClaim, NoJob, Resting, Status, Track, Executor

LEMMA JobEndsType ==
    ASSUME TypeOK, NEW p \in Executor, NEW s \in {"waiting", "ended"}
    PROVE  /\ DOMAIN JobEnds(p, s) = DOMAIN job
           /\ \A i \in DOMAIN JobEnds(p, s) : JobEnds(p, s)[i] \in {"waiting", "active", "ended"}
BY DEF JobEnds, TypeOK

LEMMA FinishType ==
    ASSUME TypeOK, NEW p \in Executor, NEW s \in {"waiting", "ended"}, Finish(p, s)
    PROVE  /\ proc' \in [Executor -> Procs]
           /\ DOMAIN job' \subseteq Track \X Nat
           /\ \A i \in DOMAIN job' : job'[i] \in {"waiting", "active", "ended"}
BY JobEndsType, WebhookAssumption DEF Finish, TypeOK, Procs, Claims, Steps, Idle, NoClaim, Track

LEMMA AddedType ==
    ASSUME NEW jobs, NEW t \in Track, NEW g \in Nat,
           DOMAIN jobs \subseteq Track \X Nat,
           \A i \in DOMAIN jobs : jobs[i] \in {"waiting", "active", "ended"}
    PROVE  /\ DOMAIN Added(jobs, <<t, g>>) \subseteq Track \X Nat
           /\ \A i \in DOMAIN Added(jobs, <<t, g>>) :
                 Added(jobs, <<t, g>>)[i] \in {"waiting", "active", "ended"}
BY DEF Added

LEMMA RowFields ==
    ASSUME NEW r \in Rows
    PROVE  /\ r.attempts \in 0..MaxAttempts /\ r.gen \in Nat /\ r.gen + 1 \in Nat
           /\ r.recoveries \in 0..MaxRecoveries
BY DEF Rows

(* What the updates make of a row is a row. *)
LEMMA RowUpdates ==
    ASSUME NEW r \in Rows
    PROVE  /\ \A s \in Status : Closed(r, s) \in Rows
           /\ \A d \in {"later", "now"} : Again(r, d) \in Rows
           /\ NextGen(r) \in Rows
           /\ r.recoveries < MaxRecoveries => Recovered(r) \in Rows
           /\ \A p \in Executor : r.attempts < MaxAttempts => Taken(r, p) \in Rows
<1> USE WebhookAssumption
<1>1. \A s \in Status : Closed(r, s) \in Rows
  BY RowFields DEF Rows, Closed, Status
<1>2. \A d \in {"later", "now"} : Again(r, d) \in Rows
  BY RowFields DEF Rows, Again, Status
<1>3. NextGen(r) \in Rows
  BY RowFields DEF Rows, NextGen
<1>4. ASSUME r.recoveries < MaxRecoveries PROVE Recovered(r) \in Rows
  <2> DEFINE k == r.recoveries + 1
             s == Again(r, "now")
  <2>1. k \in 0..MaxRecoveries /\ s \in Rows /\ 0 \in 0..MaxAttempts
    BY <1>2, <1>4, RowFields
  <2> HIDE DEF k, s
  <2>2. [s EXCEPT !.attempts = 0, !.recoveries = k] \in Rows
    BY <2>1 DEF Rows
  <2> QED BY <2>2 DEF Recovered, k, s
<1>5. ASSUME NEW p \in Executor, r.attempts < MaxAttempts PROVE Taken(r, p) \in Rows
  <2> DEFINE k == r.attempts + 1
  <2>1. k \in 0..MaxAttempts
    BY <1>5, RowFields
  <2> HIDE DEF k
  <2>2. [r EXCEPT !.attempts = k, !.status = "processing", !.owner = p,
                  !.lease = "live", !.due = "none"] \in Rows
    BY <2>1 DEF Rows, Status
  <2> QED BY <2>2 DEF Taken, k
<1> QED BY <1>1, <1>2, <1>3, <1>4, <1>5

LEMMA RowWritten ==
    ASSUME TypeOK, NEW t \in Track, NEW r \in Rows, row' = [row EXCEPT ![t] = r]
    PROVE  row' \in [Track -> Rows]
BY DEF TypeOK

LEMMA Written ==
    ASSUME TypeOK, NEW p \in Executor, NEW r \in Procs, proc' = [proc EXCEPT ![p] = r]
    PROVE  proc' \in [Executor -> Procs]
BY DEF TypeOK

LEMMA ProcUpdates ==
    ASSUME NEW r \in Procs, NEW to \in Steps, NEW S \in SUBSET Track, NEW c \in Claims,
           NEW b \in BOOLEAN
    PROVE  /\ [r EXCEPT !.pc = to] \in Procs
           /\ [r EXCEPT !.todo = S] \in Procs
           /\ [r EXCEPT !.failures = S] \in Procs
           /\ [r EXCEPT !.locked = b] \in Procs
           /\ [r EXCEPT !.pc = to, !.todo = S] \in Procs
           /\ [r EXCEPT !.pc = to, !.todo = S, !.claim = c] \in Procs
           /\ [r EXCEPT !.pc = to, !.claim = c] \in Procs
           /\ [r EXCEPT !.pc = to, !.dead = b] \in Procs
           /\ [r EXCEPT !.pc = to, !.claim = c, !.dead = b, !.failures = S] \in Procs
<1>1. [r EXCEPT !.pc = to] \in Procs BY DEF Procs
<1>2. [r EXCEPT !.todo = S] \in Procs BY DEF Procs
<1>3. [r EXCEPT !.failures = S] \in Procs BY DEF Procs
<1>4. [r EXCEPT !.locked = b] \in Procs BY DEF Procs
<1>5. [r EXCEPT !.pc = to, !.todo = S] \in Procs BY DEF Procs
<1>6. [r EXCEPT !.pc = to, !.todo = S, !.claim = c] \in Procs BY DEF Procs
<1>7. [r EXCEPT !.pc = to, !.claim = c] \in Procs BY DEF Procs
<1>8. [r EXCEPT !.pc = to, !.dead = b] \in Procs BY DEF Procs
<1>9. [r EXCEPT !.pc = to, !.claim = c, !.dead = b, !.failures = S] \in Procs BY DEF Procs
<1> QED BY <1>1, <1>2, <1>3, <1>4, <1>5, <1>6, <1>7, <1>8, <1>9

LEMMA NoClaimType == NoClaim \in Claims
BY WebhookAssumption DEF NoClaim, Claims, Track

LEMMA GoesType ==
    ASSUME TypeOK, NEW p \in Executor, NEW to \in Steps, Goes(p, to)
    PROVE  proc' \in [Executor -> Procs]
<1>1. proc[p] \in Procs BY DEF TypeOK
<1>2. [proc[p] EXCEPT !.pc = to] \in Procs BY <1>1 DEF Procs
<1> QED BY <1>2, Written DEF Goes

LEMMA AfterTrackType ==
    ASSUME TypeOK, NEW p \in Executor, NEW to \in Steps, AfterTrack(p, to)
    PROVE  proc' \in [Executor -> Procs]
<1> DEFINE at == IF p \in Request THEN "claim" ELSE to
<1>1. proc[p] \in Procs /\ at \in Steps BY DEF TypeOK, Steps
<1> HIDE DEF at
<1>2. [proc[p] EXCEPT !.pc = at, !.claim = NoClaim] \in Procs
  BY <1>1, NoClaimType DEF Procs
<1> QED BY <1>2, Written DEF AfterTrack, at

LEMMA TypeStep == TypeOK /\ [Next]_vars => TypeOK'
<1> SUFFICES ASSUME TypeOK, [Next]_vars PROVE TypeOK'
  OBVIOUS
<1> USE WebhookAssumption
<1>0. /\ \A t \in Track : row[t] \in Rows
      /\ \A p \in Executor : proc[p] \in Procs
  BY DEF TypeOK
<1>1. CASE Ages
  BY <1>1 DEF Ages, TypeOK, Receipts
<1>2. CASE SweepAdds
  <2> DEFINE t == timer.track
             id == <<t, timer.gen>>
             next == <<t, timer.gen + 1>>
  <2>1. t \in Track /\ timer.gen \in Nat /\ timer.gen + 1 \in Nat
    BY DEF TypeOK
  <2>2. NextGen(row[t]) \in Rows
    BY <1>0, <2>1, RowUpdates
  <2>3. row' \in [Track -> Rows]
    <3>1. CASE row' = row
      BY <3>1 DEF TypeOK
    <3>2. CASE row' = [row EXCEPT ![t] = NextGen(@)]
      BY <2>1, <2>2, <3>2, RowWritten
    <3> QED BY <1>2, <3>1, <3>2 DEF SweepAdds
  <2>4. job' \in {job, Added(job, id), Added(job, next)}
    BY <1>2 DEF SweepAdds, Adds
  <2>5. /\ DOMAIN job' \subseteq Track \X Nat
        /\ \A i \in DOMAIN job' : job'[i] \in {"waiting", "active", "ended"}
    <3> HIDE DEF t
    <3>1. /\ DOMAIN Added(job, id) \subseteq Track \X Nat
          /\ \A i \in DOMAIN Added(job, id) : Added(job, id)[i] \in {"waiting", "active", "ended"}
      BY <2>1, AddedType DEF TypeOK
    <3>2. /\ DOMAIN Added(job, next) \subseteq Track \X Nat
          /\ \A i \in DOMAIN Added(job, next) : Added(job, next)[i] \in {"waiting", "active", "ended"}
      BY <2>1, AddedType DEF TypeOK
    <3> QED BY <2>4, <3>1, <3>2 DEF TypeOK
  <2>6. mishaps' \in 0..MaxMishaps
    BY <1>2 DEF SweepAdds, Adds, Mishap, TypeOK
  <2> QED
    BY <1>2, <2>3, <2>5, <2>6 DEF SweepAdds, TypeOK, Resting, Track
<1>3. ASSUME NEW p \in Executor, Receive(p) PROVE TypeOK'
  <2>1. receipt' \in Receipts
    <3> DEFINE to == IF receipt.state = "absent" THEN "new" ELSE receipt.state
    <3>1. receipt \in Receipts /\ to \in {"absent", "new", "old"}
      BY DEF TypeOK, Receipts
    <3>2. receipt' = [receipt EXCEPT !.acked = TRUE] \/ receipt' = [receipt EXCEPT !.state = to]
      BY <1>3 DEF Receive
    <3> HIDE DEF to
    <3> QED BY <3>1, <3>2 DEF Receipts
  <2>2. proc' \in [Executor -> Procs]
    <3>1. CASE proc' = proc
      BY <3>1 DEF TypeOK
    <3>2. CASE Goes(p, "ensure")
      BY <3>2, GoesType DEF Steps
    <3> QED BY <1>3, <3>1, <3>2 DEF Receive
  <2> QED
    BY <1>3, <2>1, <2>2 DEF Receive, TypeOK
<1>4. ASSUME NEW p \in Executor, EnsureRows(p) PROVE TypeOK'
  <2>1. NoRow \in Rows
    BY DEF NoRow, Rows, Status
  <2>2. Pending \in Rows
    BY <2>1 DEF Pending, Rows, Status
  <2>3. row' \in [Track -> Rows]
    BY <1>4, <2>2 DEF EnsureRows, TypeOK
  <2>4. [proc[p] EXCEPT !.pc = "claim", !.todo = Applicable(event)] \in Procs
    BY <1>0, ApplicableTracks, ProcUpdates, NoClaimType DEF Steps
  <2>5. proc' \in [Executor -> Procs]
    BY <1>4, <2>4, Written DEF EnsureRows
  <2> QED
    BY <1>4, <2>3, <2>5 DEF EnsureRows, TypeOK
<1>5. ASSUME NEW p \in Executor, Claim(p) PROVE TypeOK'
  <2> DEFINE t == First(proc[p].todo)
             c == [track |-> t, gen |-> row[t].gen, attempts |-> row[t].attempts + 1]
             rest == proc[p].todo \ {t}
  <2>1. t \in Track /\ proc[p].todo \in SUBSET Track
    BY <1>0 DEF First, Track, Procs
  <2>2. /\ row[t] \in Rows /\ row[t].gen \in Nat
        /\ row[t].attempts + 1 \in 0..MaxAttempts
    BY <1>0, <1>5, <2>1, RowFields DEF Claim, Claimable, DueNow, Scheduled
  <2>3. Taken(row[t], p) \in Rows
    BY <1>5, <2>2, RowUpdates DEF Claim, Claimable, DueNow, Scheduled
  <2>4. row' \in [Track -> Rows]
    BY <1>5, <2>1, <2>3, RowWritten DEF Claim
  <2>5. c \in Claims /\ rest \in SUBSET Track
    BY <2>1, <2>2 DEF Claims
  <2> HIDE DEF c, rest
  <2>6. [proc[p] EXCEPT !.pc = "run", !.todo = rest, !.claim = c] \in Procs
    BY <1>0, <2>5, ProcUpdates DEF Steps
  <2>7. proc' \in [Executor -> Procs]
    <3> DEFINE r == [proc[p] EXCEPT !.pc = "run", !.todo = rest, !.claim = c]
    <3>1. proc' = [proc EXCEPT ![p] = r]
      BY <1>5 DEF Claim, c, rest
    <3>2. r \in Procs
      BY <2>6
    <3> HIDE DEF r
    <3> QED BY <3>1, <3>2, Written
  <2>8. runs' \in [Track -> [begun : Nat, threw : Nat]]
    BY <1>5, <2>1 DEF Claim, TypeOK
  <2> QED
    BY <1>5, <2>4, <2>7, <2>8 DEF Claim, TypeOK
<1>6. ASSUME NEW p \in Executor, Skip(p) PROVE TypeOK'
  <2> DEFINE rest == proc[p].todo \ {First(proc[p].todo)}
  <2>1. CASE Finish(p, "ended")
    BY <1>6, <2>1, FinishType DEF Skip, TypeOK
  <2>2. CASE Goes(p, "sync") /\ UNCHANGED job
    BY <1>6, <2>2, GoesType DEF Skip, TypeOK, Steps
  <2>3. CASE proc' = [proc EXCEPT ![p] = [@ EXCEPT !.todo = rest]] /\ UNCHANGED job
    <3>1. rest \in SUBSET Track
      BY <1>0 DEF Procs
    <3> HIDE DEF rest
    <3>2. [proc[p] EXCEPT !.todo = rest] \in Procs
      BY <1>0, <3>1 DEF Procs
    <3>3. proc' \in [Executor -> Procs]
      BY <2>3, <3>2, Written
    <3> QED BY <1>6, <2>3, <3>3 DEF Skip, TypeOK
  <2>4. \/ Finish(p, "ended")
        \/ Goes(p, "sync") /\ UNCHANGED job
        \/ proc' = [proc EXCEPT ![p] = [@ EXCEPT !.todo = rest]] /\ UNCHANGED job
    BY <1>6 DEF Skip
  <2> QED
    BY <2>1, <2>2, <2>3, <2>4
<1>7. ASSUME NEW p \in Executor, MarkSucceeded(p) PROVE TypeOK'
  <2> DEFINE t == proc[p].claim.track
  <2>1. t \in Track
    BY <1>0 DEF Procs, Claims
  <2>2. Closed(row[t], "succeeded") \in Rows
    BY <1>0, <2>1, RowUpdates DEF Status
  <2>3. row' \in [Track -> Rows]
    BY <1>7, <2>1, <2>2, RowWritten DEF MarkSucceeded
  <2>4. proc' \in [Executor -> Procs]
    BY <1>7, AfterTrackType DEF MarkSucceeded, Steps
  <2> QED
    BY <1>7, <2>3, <2>4 DEF MarkSucceeded, TypeOK
<1>8. ASSUME NEW p \in Executor, MarkFailed(p) PROVE TypeOK'
  <2> DEFINE t == proc[p].claim.track
             dead == proc[p].claim.attempts >= MaxAttempts
             at == IF p \in Request THEN "claim" ELSE "schedule"
             gone == proc[p].dead \/ dead
             fs == proc[p].failures \cup (IF dead THEN {} ELSE {t})
  <2>1. t \in Track
    BY <1>0 DEF Procs, Claims
  <2>2. /\ Closed(row[t], "dead_letter") \in Rows
        /\ Again(row[t], "later") \in Rows
    BY <1>0, <2>1, RowUpdates DEF Status
  <2>3. row' \in [Track -> Rows]
    BY <1>8, <2>1, <2>2, RowWritten DEF MarkFailed
  <2>4. runs' \in [Track -> [begun : Nat, threw : Nat]]
    BY <1>8, <2>1 DEF MarkFailed, TypeOK
  <2>5. CASE Finish(p, "ended")
    BY <1>8, <2>3, <2>4, <2>5, FinishType DEF MarkFailed, TypeOK
  <2>6. CASE ~ (dead /\ p \in Worker)
    <3>1. at \in Steps /\ gone \in BOOLEAN /\ fs \in SUBSET Track
      BY <1>0, <2>1 DEF Procs, Steps
    <3>2. /\ proc' = [proc EXCEPT ![p] = [@ EXCEPT !.pc = at, !.claim = NoClaim,
                                            !.dead = gone, !.failures = fs]]
          /\ UNCHANGED job
      BY <1>8, <2>6 DEF MarkFailed
    <3> HIDE DEF at, gone, fs
    <3>3. [proc[p] EXCEPT !.pc = at, !.claim = NoClaim, !.dead = gone, !.failures = fs] \in Procs
      BY <1>0, <3>1, ProcUpdates, NoClaimType
    <3>4. proc' \in [Executor -> Procs]
      BY <3>2, <3>3, Written
    <3> QED
      BY <1>8, <2>3, <2>4, <3>2, <3>4 DEF MarkFailed, TypeOK
  <2> QED
    BY <1>8, <2>5, <2>6 DEF MarkFailed
<1>9. ASSUME NEW p \in Executor, MarkLost(p) PROVE TypeOK'
  <2>1. CASE Finish(p, "ended")
    BY <1>9, <2>1, FinishType DEF MarkLost, TypeOK
  <2>2. CASE AfterTrack(p, "claim") /\ UNCHANGED job
    BY <1>9, <2>2, AfterTrackType DEF MarkLost, TypeOK, Steps
  <2> QED
    BY <1>9, <2>1, <2>2 DEF MarkLost
<1>10. ASSUME NEW p \in Executor, Acknowledge(p) PROVE TypeOK'
  <2>1. receipt' \in Receipts
    BY <1>10 DEF Acknowledge, TypeOK, Receipts, AllSatisfied
  <2> QED
    BY <1>10, <2>1, FinishType DEF Acknowledge, TypeOK
<1>11. ASSUME NEW p \in Executor, Refuse(p) PROVE TypeOK'
  <2>1. CASE Finish(p, "ended")
    BY <1>11, <2>1, FinishType DEF Refuse, TypeOK
  <2>2. CASE UNCHANGED job /\ proc' = [proc EXCEPT ![p] = [@ EXCEPT !.pc = "schedule", !.dead = FALSE]]
    <3>1. [proc[p] EXCEPT !.pc = "schedule", !.dead = FALSE] \in Procs
      BY <1>0, ProcUpdates, NoClaimType DEF Steps
    <3>2. proc' \in [Executor -> Procs]
      BY <2>2, <3>1, Written
    <3> QED BY <1>11, <2>2, <3>2 DEF Refuse, TypeOK
  <2> QED
    BY <1>11, <2>1, <2>2 DEF Refuse
<1>12. ASSUME NEW p \in Executor, Sync(p) PROVE TypeOK'
  <2>1. receipt' \in Receipts
    BY <1>12 DEF Sync, TypeOK, Receipts, AllSatisfied
  <2> QED
    BY <1>12, <2>1, FinishType DEF Sync, TypeOK
<1>13. ASSUME NEW p \in Executor, Handoff(p) PROVE TypeOK'
  <2> DEFINE t == First(proc[p].failures)
             rest == proc[p].failures \ {t}
             ends == IF rest = {} THEN JobEnds(p, "ended") ELSE job
  <2>1. t \in Track /\ row[t].gen \in Nat /\ rest \in SUBSET Track
    BY <1>0, RowFields DEF First, Track, Procs
  <2>2. /\ DOMAIN ends \subseteq Track \X Nat
        /\ \A i \in DOMAIN ends : ends[i] \in {"waiting", "active", "ended"}
    BY JobEndsType DEF TypeOK
  <2>3. job' = ends \/ job' = Added(ends, <<t, row[t].gen>>)
    BY <1>13 DEF Handoff
  <2>4. /\ DOMAIN job' \subseteq Track \X Nat
        /\ \A i \in DOMAIN job' : job'[i] \in {"waiting", "active", "ended"}
    <3> HIDE DEF ends
    <3> QED BY <2>1, <2>2, <2>3, AddedType
  <2>5. proc' = [proc EXCEPT ![p] = IF rest = {} THEN Idle ELSE [@ EXCEPT !.failures = rest]]
    BY <1>13 DEF Handoff
  <2>6. Idle \in Procs
    BY NoClaimType DEF Procs, Idle, Steps
  <2>7. proc' \in [Executor -> Procs]
    <3> HIDE DEF rest
    <3>1. [proc[p] EXCEPT !.failures = rest] \in Procs
      BY <1>0, <2>1 DEF Procs
    <3> QED BY <2>5, <2>6, <3>1, Written
  <2>8. mishaps' \in 0..MaxMishaps
    BY <1>13 DEF Handoff, Mishap, TypeOK
  <2> QED
    BY <1>13, <2>4, <2>7, <2>8 DEF Handoff, TypeOK
<1>14. ASSUME NEW p \in Executor, NEW id \in DOMAIN job, Deliver(p, id) PROVE TypeOK'
  <2>1. id \in Track \X Nat /\ {id[1]} \in SUBSET Track
    BY DEF TypeOK
  <2>2. [Idle EXCEPT !.pc = "claim", !.job = id, !.locked = TRUE, !.todo = {id[1]}] \in Procs
    BY <2>1, NoClaimType DEF Procs, Idle, Steps
  <2>3. proc' \in [Executor -> Procs]
    BY <1>14, <2>2, Written DEF Deliver
  <2>4. /\ DOMAIN job' = DOMAIN job
        /\ \A i \in DOMAIN job' : job'[i] \in {"waiting", "active", "ended"}
    BY <1>14 DEF Deliver, TypeOK
  <2>5. mishaps' \in 0..MaxMishaps
    BY <1>14 DEF Deliver, Mishap, TypeOK
  <2> QED
    BY <1>14, <2>3, <2>4, <2>5 DEF Deliver, TypeOK
<1>15. ASSUME NEW p \in Executor, QueryFails(p) \/ Crash(p) PROVE TypeOK'
  <2>1. PICK s \in {"waiting", "ended"} : Finish(p, s)
    BY <1>15 DEF QueryFails, Crash
  <2> QED
    BY <1>15, <2>1, FinishType DEF QueryFails, Crash, Mishap, TypeOK
<1>16. ASSUME NEW p \in Executor, JobStalls(p) PROVE TypeOK'
  <2>1. [proc[p] EXCEPT !.locked = FALSE] \in Procs
    BY <1>0 DEF Procs
  <2>2. proc' \in [Executor -> Procs]
    BY <1>16, <2>1, Written DEF JobStalls
  <2> QED
    BY <1>16, <2>2 DEF JobStalls, Mishap, TypeOK
<1>17. ASSUME NEW t \in Track, Clock(t) PROVE TypeOK'
  <2>1. /\ [row[t] EXCEPT !.lease = "lapsed"] \in Rows
        /\ [row[t] EXCEPT !.due = "now"] \in Rows
    BY <1>0 DEF Rows
  <2>2. row' \in [Track -> Rows]
    BY <1>17, <2>1, RowWritten DEF Clock, LeaseLapses, ComesDue
  <2> QED
    BY <1>17, <2>2 DEF Clock, LeaseLapses, ComesDue, Mishap, TypeOK
<1>18. ASSUME NEW t \in Track, SweepsRow(t) PROVE TypeOK'
  <2>1. CASE RecoverExpired(t)
    <3>1. Again(row[t], "now") \in Rows /\ Closed(row[t], "dead_letter") \in Rows
      BY <1>0, RowUpdates DEF Status
    <3>2. row' \in [Track -> Rows]
      BY <2>1, <3>1, RowWritten DEF RecoverExpired
    <3> QED BY <2>1, <3>2 DEF RecoverExpired, TypeOK
  <2>2. CASE SweepReads(t)
    BY <1>0, <2>2, RowFields DEF SweepReads, TypeOK
  <2> QED
    BY <1>18, <2>1, <2>2 DEF SweepsRow
<1>19. ASSUME NEW t \in Track, OperatorRetry(t) PROVE TypeOK'
  <2>1. /\ row[t] \in Rows /\ row[t].gen + 1 \in Nat
    BY <1>0, RowFields
  <2>2. Recovered(row[t]) \in Rows
    BY <1>19, <2>1, RowUpdates DEF OperatorRetry
  <2>3. row' \in [Track -> Rows]
    BY <1>19, <2>2, RowWritten DEF OperatorRetry
  <2>4. /\ DOMAIN job' \subseteq Track \X Nat
        /\ \A i \in DOMAIN job' : job'[i] \in {"waiting", "active", "ended"}
    <3> DEFINE g == row[t].gen + 1
    <3>1. g \in Nat /\ job' \in {job, Added(job, <<t, g>>)}
      BY <1>19, <2>1 DEF OperatorRetry
    <3> HIDE DEF g
    <3>2. /\ DOMAIN Added(job, <<t, g>>) \subseteq Track \X Nat
          /\ \A i \in DOMAIN Added(job, <<t, g>>) :
                Added(job, <<t, g>>)[i] \in {"waiting", "active", "ended"}
      BY <3>1, AddedType DEF TypeOK
    <3> QED BY <3>1, <3>2 DEF TypeOK
  <2> QED
    BY <1>19, <2>3, <2>4 DEF OperatorRetry, TypeOK
<1>20. ASSUME NEW t \in Track, OperatorReview(t) PROVE TypeOK'
  <2> DEFINE r == Closed(row[t], "reviewed")
  <2>1. r \in Rows
    BY <1>0, RowUpdates DEF Status
  <2>2. NextGen(r) \in Rows
    BY <2>1, RowUpdates
  <2>4. row' \in [Track -> Rows]
    BY <1>20, <2>2, RowWritten DEF OperatorReview
  <2>5. receipt' \in Receipts
    BY <1>20 DEF OperatorReview, TypeOK, Receipts
  <2> QED
    BY <1>20, <2>4, <2>5 DEF OperatorReview, TypeOK
<1>21. CASE UNCHANGED vars
  BY <1>21 DEF vars, TypeOK
<1> QED
  BY <1>1, <1>2, <1>3, <1>4, <1>5, <1>6, <1>7, <1>8, <1>9, <1>10, <1>11, <1>12, <1>13, <1>14,
     <1>15, <1>16, <1>17, <1>18, <1>19, <1>20, <1>21
     DEF Next, Runs, Faults, Delivers, Operator

(* Rows, jobs, executors and budgets stay well formed. *)
THEOREM WebhookTypes == Spec => []TypeOK
BY InitType, TypeStep, PTL DEF Spec

-----------------------------------------------------------------------------
(* What a step can do to one row and to the count of its runs. *)
Same(t) ==
    /\ row'[t].status = row[t].status /\ row'[t].attempts = row[t].attempts
    /\ row'[t].recoveries = row[t].recoveries /\ runs'[t] = runs[t]
Kept(t) == row'[t].attempts = row[t].attempts /\ row'[t].recoveries = row[t].recoveries

Created(t) ==
    /\ row[t].status = "absent" /\ row'[t].status = "pending"
    /\ row'[t].attempts = 0 /\ row'[t].recoveries = 0 /\ runs'[t] = runs[t]
    /\ \E p \in Executor : EnsureRows(p)
Claimed(t) ==
    /\ row[t].status \in {"pending", "failed"} /\ row'[t].status = "processing"
    /\ row'[t].attempts = row[t].attempts + 1 /\ row'[t].recoveries = row[t].recoveries
    /\ runs'[t].begun = runs[t].begun + 1 /\ runs'[t].threw = runs[t].threw
Succeeded(t) ==
    /\ row[t].status = "processing" /\ row'[t].status = "succeeded"
    /\ Kept(t) /\ runs'[t] = runs[t]
Threw(t) ==
    /\ row[t].status = "processing" /\ row'[t].status \in {"failed", "dead_letter"}
    /\ Kept(t) /\ runs'[t].begun = runs[t].begun /\ runs'[t].threw = runs[t].threw + 1
Expired(t) ==
    /\ row[t].status = "processing"
    /\ \/ row'[t].status = "failed" /\ ReplaySafe(t, event)
       \/ row'[t].status = "dead_letter"
    /\ Kept(t) /\ runs'[t] = runs[t]
Retried(t) ==
    /\ row[t].status = "dead_letter" /\ row'[t].status = "failed" /\ ReplaySafe(t, event)
    /\ row'[t].attempts = 0 /\ row'[t].recoveries = row[t].recoveries + 1
    /\ runs'[t] = runs[t]
Reviewed(t) ==
    /\ row[t].status = "dead_letter" /\ row'[t].status = "reviewed"
    /\ Kept(t) /\ runs'[t] = runs[t]

Moves(t) ==
    \/ Same(t) \/ Created(t) \/ Claimed(t) \/ Succeeded(t)
    \/ Threw(t) \/ Expired(t) \/ Retried(t) \/ Reviewed(t)

LEMMA TakenFields ==
    ASSUME NEW r \in Rows, NEW p \in Executor
    PROVE  /\ Taken(r, p).status = "processing" /\ Taken(r, p).attempts = r.attempts + 1
           /\ Taken(r, p).recoveries = r.recoveries
<1> DEFINE k == r.attempts + 1
           s == [r EXCEPT !.attempts = k, !.status = "processing", !.owner = p,
                          !.lease = "live", !.due = "none"]
<1>1. Taken(r, p) = s
  BY DEF Taken
<1> HIDE DEF k
<1>2. s.status = "processing" /\ s.attempts = k /\ s.recoveries = r.recoveries
  BY DEF Rows
<1> QED BY <1>1, <1>2 DEF k

LEMMA SameRows ==
    ASSUME NEW t \in Track, UNCHANGED <<row, runs>>
    PROVE  Same(t)
BY DEF Same

(* A step that writes one row leaves the others. *)
LEMMA OneRow ==
    ASSUME TypeOK, NEW t \in Track, NEW u \in Track, NEW r, u # t,
           row' = [row EXCEPT ![t] = r],
           \/ UNCHANGED runs
           \/ \E k \in Nat : runs' = [runs EXCEPT ![t].begun = k]
           \/ \E k \in Nat : runs' = [runs EXCEPT ![t].threw = k]
    PROVE  Same(u)
BY DEF Same, TypeOK

LEMMA RowMoves ==
    ASSUME TypeOK, [Next]_vars, NEW u \in Track
    PROVE  Moves(u)
<1> USE WebhookAssumption
<1>0. /\ \A t \in Track : row[t] \in Rows /\ runs[t] \in [begun : Nat, threw : Nat]
      /\ \A p \in Executor : proc[p] \in Procs
  BY DEF TypeOK
<1>1. CASE UNCHANGED <<row, runs>>
  BY <1>1, SameRows DEF Moves
<1>2. CASE SweepAdds
  <2> DEFINE t == timer.track
  <2>1. t \in Track /\ UNCHANGED runs
    BY <1>2 DEF TypeOK, SweepAdds
  <2>2. CASE row' = [row EXCEPT ![t] = NextGen(@)]
    <3>1. CASE u = t
      BY <1>0, <2>1, <2>2, <3>1 DEF Moves, Same, NextGen, Rows, TypeOK
    <3>2. CASE u # t
      BY <2>1, <2>2, <3>2, OneRow DEF Moves
    <3> QED BY <3>1, <3>2
  <2> QED
    BY <1>1, <1>2, <2>1, <2>2 DEF SweepAdds
<1>3. ASSUME NEW p \in Executor, EnsureRows(p) PROVE Moves(u)
  <2>1. UNCHANGED runs /\ row' = [t \in Track |->
            IF t \in Applicable(event) /\ row[t].status = "absent" THEN Pending ELSE row[t]]
    BY <1>3 DEF EnsureRows
  <2>2. /\ Pending.status = "pending" /\ Pending.attempts = 0 /\ Pending.recoveries = 0
    BY DEF Pending, NoRow
  <2>3. CASE u \in Applicable(event) /\ row[u].status = "absent"
    BY <1>3, <2>1, <2>2, <2>3 DEF Moves, Created
  <2>4. CASE ~ (u \in Applicable(event) /\ row[u].status = "absent")
    BY <2>1, <2>4 DEF Moves, Same
  <2> QED BY <2>3, <2>4
<1>4. ASSUME NEW p \in Executor, Claim(p) PROVE Moves(u)
  <2> DEFINE t == First(proc[p].todo)
             k == runs[t].begun + 1
  <2>1. /\ t \in Track /\ k \in Nat /\ row[t].status \in {"pending", "failed"}
        /\ row' = [row EXCEPT ![t] = Taken(@, p)] /\ runs' = [runs EXCEPT ![t].begun = k]
    BY <1>0, <1>4 DEF Claim, Claimable, DueNow, Scheduled, First, Track
  <2>2. CASE u = t
    <3>1. row'[t] = Taken(row[t], p) /\ runs'[t] = [runs[t] EXCEPT !.begun = k]
      BY <2>1 DEF TypeOK
    <3>2. /\ row'[t].status = "processing" /\ row'[t].attempts = row[t].attempts + 1
          /\ row'[t].recoveries = row[t].recoveries
      BY <1>0, <2>1, <3>1, TakenFields
    <3>3. runs'[t].begun = k /\ runs'[t].threw = runs[t].threw
      BY <1>0, <2>1, <3>1
    <3> QED BY <2>1, <2>2, <3>2, <3>3 DEF Moves, Claimed
  <2>3. CASE u # t
    <3> HIDE DEF k
    <3> QED BY <2>1, <2>3, OneRow DEF Moves
  <2> QED BY <2>2, <2>3
<1>5. ASSUME NEW p \in Executor, MarkSucceeded(p) PROVE Moves(u)
  <2> DEFINE t == proc[p].claim.track
  <2>1. /\ t \in Track /\ row[t].status = "processing" /\ UNCHANGED runs
        /\ row' = [row EXCEPT ![t] = Closed(@, "succeeded")]
    BY <1>0, <1>5 DEF MarkSucceeded, Owns, Procs, Claims
  <2>2. CASE u = t
    BY <1>0, <2>1, <2>2 DEF Moves, Succeeded, Kept, Closed, Rows, TypeOK
  <2>3. CASE u # t
    BY <2>1, <2>3, OneRow DEF Moves
  <2> QED BY <2>2, <2>3
<1>6. ASSUME NEW p \in Executor, MarkFailed(p) PROVE Moves(u)
  <2> DEFINE t == proc[p].claim.track
             k == runs[t].threw + 1
  <2>1. /\ t \in Track /\ k \in Nat /\ row[t].status = "processing"
        /\ runs' = [runs EXCEPT ![t].threw = k]
    BY <1>0, <1>6 DEF MarkFailed, Owns, Procs, Claims
  <2>2. PICK r \in {Closed(row[t], "dead_letter"), Again(row[t], "later")} :
              row' = [row EXCEPT ![t] = r]
    BY <1>6 DEF MarkFailed
  <2>3. CASE u = t
    <3>1. row'[t] = r /\ runs'[t] = [runs[t] EXCEPT !.threw = k]
      BY <2>1, <2>2 DEF TypeOK
    <3>2. /\ row'[t].status \in {"failed", "dead_letter"}
          /\ row'[t].attempts = row[t].attempts /\ row'[t].recoveries = row[t].recoveries
      <4>1. CASE r = Closed(row[t], "dead_letter")
        BY <1>0, <2>1, <3>1, <4>1 DEF Closed, Rows
      <4>2. CASE r = Again(row[t], "later")
        BY <1>0, <2>1, <3>1, <4>2 DEF Again, Rows
      <4> QED BY <2>2, <4>1, <4>2
    <3>3. runs'[t].threw = k /\ runs'[t].begun = runs[t].begun
      BY <1>0, <2>1, <3>1
    <3> QED BY <2>1, <2>3, <3>2, <3>3 DEF Moves, Threw, Kept
  <2>4. CASE u # t
    <3> HIDE DEF k
    <3> QED BY <2>1, <2>2, <2>4, OneRow DEF Moves
  <2> QED BY <2>3, <2>4
<1>7. ASSUME NEW t \in Track, Clock(t) PROVE Moves(u)
  <2>1. UNCHANGED runs
    BY <1>7 DEF Clock, LeaseLapses, ComesDue
  <2>2. PICK r : /\ row' = [row EXCEPT ![t] = r]
                 /\ r.status = row[t].status /\ r.attempts = row[t].attempts
                 /\ r.recoveries = row[t].recoveries
    BY <1>0, <1>7 DEF Clock, LeaseLapses, ComesDue, Rows
  <2>3. CASE u = t
    BY <2>1, <2>2, <2>3 DEF Moves, Same, TypeOK
  <2>4. CASE u # t
    BY <2>1, <2>2, <2>4, OneRow DEF Moves
  <2> QED BY <2>3, <2>4
<1>8. ASSUME NEW t \in Track, RecoverExpired(t) PROVE Moves(u)
  <2>1. /\ row[t].status = "processing" /\ UNCHANGED runs
        /\ row' = [row EXCEPT ![t] = IF Replays(t) THEN Again(@, "now") ELSE Closed(@, "dead_letter")]
    BY <1>8 DEF RecoverExpired
  <2>2. CASE u = t
    <3>1. CASE Replays(t)
      BY <1>0, <2>1, <2>2, <3>1 DEF Moves, Expired, Kept, Again, Replays, Rows, TypeOK
    <3>2. CASE ~ Replays(t)
      BY <1>0, <2>1, <2>2, <3>2 DEF Moves, Expired, Kept, Closed, Rows, TypeOK
    <3> QED BY <3>1, <3>2
  <2>3. CASE u # t
    BY <2>1, <2>3, OneRow DEF Moves
  <2> QED BY <2>2, <2>3
<1>9. ASSUME NEW t \in Track, OperatorRetry(t) PROVE Moves(u)
  <2>1. /\ row[t].status = "dead_letter" /\ ReplaySafe(t, event) /\ UNCHANGED runs
        /\ row' = [row EXCEPT ![t] = Recovered(@)]
    BY <1>9 DEF OperatorRetry
  <2>2. CASE u = t
    BY <1>0, <2>1, <2>2 DEF Moves, Retried, Recovered, Again, Rows, TypeOK
  <2>3. CASE u # t
    BY <2>1, <2>3, OneRow DEF Moves
  <2> QED BY <2>2, <2>3
<1>10. ASSUME NEW t \in Track, OperatorReview(t) PROVE Moves(u)
  <2>1. /\ row[t].status = "dead_letter" /\ UNCHANGED runs
        /\ row' = [row EXCEPT ![t] = NextGen(Closed(@, "reviewed"))]
    BY <1>10 DEF OperatorReview
  <2>2. CASE u = t
    BY <1>0, <2>1, <2>2 DEF Moves, Reviewed, Kept, Closed, NextGen, Rows, TypeOK
  <2>3. CASE u # t
    BY <2>1, <2>3, OneRow DEF Moves
  <2> QED BY <2>2, <2>3
<1> QED
  BY <1>1, <1>2, <1>3, <1>4, <1>5, <1>6, <1>7, <1>8, <1>9, <1>10
     DEF Next, vars, Ages, Runs, Faults, Delivers, Operator, SweepsRow, Receive, Skip, MarkLost,
         Acknowledge, Refuse, Sync, Handoff, Deliver, QueryFails, Crash, JobStalls, SweepReads

-----------------------------------------------------------------------------
LEMMA InitInv == Init => WebhookInv
<1> SUFFICES ASSUME Init PROVE WebhookInv
  OBVIOUS
<1>1. \A t \in Track : /\ row[t].status = "absent" /\ row[t].attempts = 0 /\ row[t].recoveries = 0
                       /\ runs[t].begun = 0 /\ runs[t].threw = 0
  BY DEF Init, NoRow
<1>2. \A p \in Executor : proc[p].pc = "idle"
  BY DEF Init, Idle
<1>3. RowsTogether
  BY <1>1, <1>2 DEF RowsTogether, Materialized, Executor
<1>4. RunsRecorded /\ RunsCounted
  BY <1>1, WebhookAssumption DEF RunsRecorded, RunsCounted
<1>5. AckMeansResolved
  BY DEF Init, AckMeansResolved
<1> QED BY <1>3, <1>4, <1>5 DEF WebhookInv

LEMMA RunsStep ==
    ASSUME TypeOK, RunsRecorded, RunsCounted, [Next]_vars
    PROVE  RunsRecorded' /\ RunsCounted'
<1>0. /\ event' = event
      /\ \A t \in Track :
            /\ Moves(t) /\ runs[t].begun \in Nat /\ runs[t].threw \in Nat
            /\ row[t].attempts \in 0..MaxAttempts /\ row[t].recoveries \in 0..MaxRecoveries
            /\ row[t].status \in Status
  <2>1. event' = event
    BY DEF Next, vars, Runs, Faults, Delivers, Operator, Clock, SweepsRow, Ages, SweepAdds, Receive,
           EnsureRows, Claim, Skip, MarkSucceeded, MarkFailed, MarkLost, Acknowledge, Refuse, Sync,
           Handoff, Deliver, QueryFails, Crash, JobStalls, LeaseLapses, ComesDue, RecoverExpired,
           SweepReads, OperatorRetry, OperatorReview
  <2> QED BY <2>1, RowMoves DEF TypeOK, Rows
<1>1. RunsRecorded'
  <2> SUFFICES ASSUME NEW t \in Track, ~ ReplaySafe(t, event)
               PROVE  /\ row'[t].status \in {"absent", "pending", "failed"} =>
                            runs'[t].begun <= runs'[t].threw
                      /\ runs'[t].begun <= runs'[t].threw + 1
    BY <1>0 DEF RunsRecorded, ReplaySafe
  <2>1. /\ row[t].status \in {"absent", "pending", "failed"} => runs[t].begun <= runs[t].threw
        /\ runs[t].begun <= runs[t].threw + 1
    BY DEF RunsRecorded
  <2> QED
    BY <1>0, <2>1 DEF Moves, Same, Created, Claimed, Succeeded, Threw, Expired, Retried, Reviewed
<1>2. RunsCounted'
  <2> SUFFICES ASSUME NEW t \in Track
               PROVE  /\ row'[t].status = "absent" => runs'[t].begun = 0
                      /\ runs'[t].begun <= MaxAttempts * row'[t].recoveries + row'[t].attempts
    BY DEF RunsCounted
  <2>1. /\ row[t].status = "absent" => runs[t].begun = 0
        /\ runs[t].begun <= MaxAttempts * row[t].recoveries + row[t].attempts
    BY DEF RunsCounted
  <2>2. CASE Retried(t)
    <3>1. /\ row[t].attempts <= MaxAttempts
          /\ MaxAttempts * (row[t].recoveries + 1) = MaxAttempts * row[t].recoveries + MaxAttempts
      BY <1>0, WebhookAssumption
    <3> QED BY <1>0, <2>1, <2>2, <3>1, WebhookAssumption DEF Retried
  <2>3. CASE Created(t)
    BY <1>0, <2>1, <2>3, WebhookAssumption DEF Created
  <2> QED
    BY <1>0, <2>1, <2>2, <2>3, WebhookAssumption
       DEF Moves, Same, Claimed, Succeeded, Threw, Expired, Reviewed, Kept
<1> QED BY <1>1, <1>2

(* A request is past its rows only after it has made them. *)
LEMMA RequestMoves ==
    ASSUME TypeOK, [Next]_vars, ~ \E q \in Executor : EnsureRows(q), NEW p \in Request,
           proc'[p].pc \notin {"idle", "ensure"}
    PROVE  proc[p].pc \notin {"idle", "ensure"}
<1>0. p \in Executor /\ p \notin Worker /\ DOMAIN proc = Executor
  BY WebhookAssumption DEF Executor, TypeOK
<1>1. SUFFICES ASSUME proc[p].pc \in {"idle", "ensure"} PROVE FALSE
  OBVIOUS
<1>2. CASE UNCHANGED proc
  BY <1>1, <1>2
<1>3. ASSUME NEW q \in Executor, NEW r, q # p, proc' = [proc EXCEPT ![q] = r] PROVE FALSE
  BY <1>0, <1>1, <1>3
<1>5. ASSUME NEW q \in Executor, NEW s, Finish(q, s) PROVE FALSE
  <2>1. Idle.pc = "idle" /\ proc' = [proc EXCEPT ![q] = Idle]
    BY <1>5 DEF Finish, Idle
  <2>2. CASE q = p
    BY <1>0, <2>1, <2>2
  <2>3. CASE q # p
    BY <1>3, <2>1, <2>3
  <2> QED BY <2>2, <2>3
<1>6. ASSUME NEW q \in Executor, Receive(q) PROVE FALSE
  <2>1. CASE Goes(q, "ensure")
    <3> DEFINE r == [proc[q] EXCEPT !.pc = "ensure"]
    <3>1. r.pc = "ensure"
      BY DEF TypeOK, Procs
    <3>2. proc' = [proc EXCEPT ![q] = r]
      BY <2>1 DEF Goes
    <3> HIDE DEF r
    <3>3. CASE q = p
      BY <1>0, <3>1, <3>2, <3>3
    <3>4. CASE q # p
      BY <1>3, <3>2, <3>4
    <3> QED BY <3>3, <3>4
  <2> QED BY <1>2, <1>6, <2>1 DEF Receive
<1>7. ASSUME NEW q \in Executor, q # p,
             Claim(q) \/ Skip(q) \/ MarkSucceeded(q) \/ MarkFailed(q) \/ MarkLost(q)
                \/ Refuse(q) \/ Handoff(q) \/ JobStalls(q) \/ \E id \in DOMAIN job : Deliver(q, id)
      PROVE FALSE
  <2>1. \E r : proc' = [proc EXCEPT ![q] = r]
    BY <1>7 DEF Claim, Skip, MarkSucceeded, MarkFailed, MarkLost, Refuse, Handoff, JobStalls, Deliver,
                AfterTrack, Goes, Finish
  <2> QED BY <1>3, <1>7, <2>1
<1>8. ~ (Claim(p) \/ Skip(p) \/ MarkSucceeded(p) \/ MarkFailed(p) \/ MarkLost(p)
            \/ Refuse(p) \/ Handoff(p) \/ JobStalls(p) \/ \E id \in DOMAIN job : Deliver(p, id))
  BY <1>0, <1>1 DEF Claim, Skip, MarkSucceeded, MarkFailed, MarkLost, Refuse, Handoff, JobStalls,
                    Deliver, Step
<1> QED
  BY <1>2, <1>5, <1>6, <1>7, <1>8
     DEF Next, vars, Runs, Faults, Delivers, Operator, Clock, SweepsRow, Ages, SweepAdds,
         Acknowledge, Sync, QueryFails, Crash, LeaseLapses, ComesDue,
         RecoverExpired, SweepReads, OperatorRetry, OperatorReview

(* Rows appear together, and no step removes one. *)
LEMMA RowsTogetherStep ==
    ASSUME TypeOK, RowsTogether, [Next]_vars
    PROVE  RowsTogether'
<1>0. /\ event' = event /\ event \in Events
      /\ \A t \in Track : Moves(t)
  BY RowMoves DEF TypeOK, Next, vars, Runs, Faults, Delivers, Operator, Clock, SweepsRow, Ages,
         SweepAdds, Receive, EnsureRows, Claim, Skip, MarkSucceeded, MarkFailed, MarkLost, Acknowledge,
         Refuse, Sync, Handoff, Deliver, QueryFails, Crash, JobStalls, LeaseLapses, ComesDue,
         RecoverExpired, SweepReads, OperatorRetry, OperatorReview
<1>1. CASE \E p \in Executor : EnsureRows(p)
  <2>1. PICK p \in Executor : EnsureRows(p)
    BY <1>1
  <2>2. row' = [t \in Track |->
            IF t \in Applicable(event) /\ row[t].status = "absent" THEN Pending ELSE row[t]]
    BY <2>1 DEF EnsureRows
  <2>3. Pending.status = "pending"
    BY DEF Pending, NoRow
  <2>4. Materialized' = Materialized \cup Applicable(event)
    BY <2>2, <2>3, ApplicableTracks DEF Materialized
  <2>5. Applicable(event)' = Applicable(event) /\ Applicable(event) # {}
    BY <1>0, ApplicableTracks DEF Applicable, CommissionRelevant
  <2> QED BY <2>4, <2>5 DEF RowsTogether
<1>2. CASE ~ \E p \in Executor : EnsureRows(p)
  <2>1. \A t \in Track : (row'[t].status = "absent") <=> (row[t].status = "absent")
    <3>1. \A t \in Track : ~ Created(t)
      BY <1>2 DEF Created
    <3> QED BY <1>0, <3>1 DEF Moves, Same, Claimed, Succeeded, Threw, Expired, Retried, Reviewed
  <2>2. Materialized' = Materialized
    BY <2>1 DEF Materialized
  <2>3. \A p \in Request : proc'[p].pc \notin {"idle", "ensure"} => proc[p].pc \notin {"idle", "ensure"}
    BY <1>2, RequestMoves
  <2> QED BY <1>0, <2>2, <2>3 DEF RowsTogether, Applicable, CommissionRelevant
<1> QED BY <1>1, <1>2

LEMMA EventFixed == [Next]_vars => event' = event /\ Applicable(event)' = Applicable(event)
<1>1. [Next]_vars => event' = event
  BY DEF Next, vars, Runs, Faults, Delivers, Operator, Clock, SweepsRow, Ages, SweepAdds, Receive,
         EnsureRows, Claim, Skip, MarkSucceeded, MarkFailed, MarkLost, Acknowledge, Refuse, Sync,
         Handoff, Deliver, QueryFails, Crash, JobStalls, LeaseLapses, ComesDue, RecoverExpired,
         SweepReads, OperatorRetry, OperatorReview
<1> QED BY <1>1 DEF Applicable, CommissionRelevant

(* Every required track is resolved. *)
Resolves == \A t \in Applicable(event) : row[t].status \in {"succeeded", "reviewed"}

LEMMA AllResolved ==
    ASSUME TypeOK, RowsTogether, Materialized # {}, Unresolved = {}
    PROVE  Resolves
<1>1. Materialized = Applicable(event)
  BY DEF RowsTogether
<1> QED BY <1>1 DEF Resolves, Materialized, Unresolved

(* Nothing undoes a resolved track. *)
LEMMA ResolvedStays ==
    ASSUME TypeOK, Resolves, [Next]_vars
    PROVE  Resolves'
<1>1. \A t \in Applicable(event) : Moves(t)
  BY RowMoves, ApplicableTracks
<1> QED
  BY <1>1, EventFixed
     DEF Resolves, Moves, Same, Created, Claimed, Succeeded, Threw, Expired, Retried, Reviewed

(* The three places that write the receipt's flags. *)
LEMMA AckStep ==
    ASSUME TypeOK, RowsTogether, AckMeansResolved, [Next]_vars
    PROVE  AckMeansResolved'
<1>1. SUFFICES ASSUME receipt'.acked \/ receipt'.processed PROVE Resolves'
  BY EventFixed DEF AckMeansResolved, Resolves
<1>2. CASE receipt.acked \/ receipt.processed
  BY <1>2, ResolvedStays DEF AckMeansResolved, Resolves
<1>3. CASE ~ (receipt.acked \/ receipt.processed)
  <2>1. CASE UNCHANGED receipt
    BY <1>1, <1>3, <2>1
  <2>2. CASE Ages
    BY <1>1, <1>3, <2>2 DEF Ages, TypeOK, Receipts
  <2>3. ASSUME NEW p \in Executor, Receive(p) PROVE FALSE
    BY <1>1, <1>3, <2>3 DEF Receive, TypeOK, Receipts
  <2>4. ASSUME NEW p \in Executor, Acknowledge(p) PROVE Resolves
    BY <2>4, AllResolved DEF Acknowledge, Resolved, Step, RowsTogether
  <2>5. ASSUME NEW p \in Executor, Sync(p) PROVE Resolves
    <3>1. AllSatisfied
      BY <1>1, <1>3, <2>5 DEF Sync, TypeOK, Receipts
    <3> QED BY <3>1, AllResolved DEF AllSatisfied
  <2>6. ASSUME NEW t \in Track, OperatorReview(t) PROVE Resolves'
    <3>1. Unresolved = {t}
      BY <1>1, <1>3, <2>6 DEF OperatorReview, TypeOK, Receipts
    <3>2. row[t].status = "dead_letter" /\ row' = [row EXCEPT ![t] = NextGen(Closed(@, "reviewed"))]
      BY <2>6 DEF OperatorReview
    <3>3. row'[t].status = "reviewed" /\ \A u \in Track \ {t} : row'[u] = row[u]
      BY <2>6, <3>2 DEF TypeOK, Rows, NextGen, Closed
    <3>4. Applicable(event) = Materialized
      BY <3>2 DEF RowsTogether, Materialized
    <3> QED BY <3>1, <3>3, <3>4, EventFixed, ApplicableTracks DEF Resolves, Materialized, Unresolved
  <2> QED
    BY <2>1, <2>2, <2>3, <2>4, <2>5, <2>6, ResolvedStays
       DEF Next, vars, Runs, Faults, Delivers, Operator, Clock, SweepsRow, SweepAdds,
           EnsureRows, Claim, Skip, MarkSucceeded, MarkFailed, MarkLost, Refuse,
           Handoff, Deliver, QueryFails, Crash, JobStalls, LeaseLapses, ComesDue, RecoverExpired,
           SweepReads, OperatorRetry
<1> QED BY <1>2, <1>3

LEMMA Safe == Spec => [](TypeOK /\ WebhookInv)
<1>1. TypeOK /\ WebhookInv /\ [Next]_vars => TypeOK' /\ WebhookInv'
  BY TypeStep, RowsTogetherStep, RunsStep, AckStep DEF WebhookInv
<1> QED BY InitType, InitInv, <1>1, PTL DEF Spec

(* However requests, jobs, sweeps, crashes, lapsed leases and operators        *)
(* interleave, a handler that is not replay safe is run again only after a     *)
(* recorded failure.                                                           *)
THEOREM WebhookReplay == Spec => []NoBlindReplay
<1>1. WebhookInv => NoBlindReplay
  BY DEF WebhookInv, RunsRecorded, NoBlindReplay
<1> QED BY Safe, <1>1, PTL

(* The attempts of a track are bounded by its budget and its recoveries. *)
THEOREM WebhookBudget == Spec => []AttemptBudget
<1>1. TypeOK /\ WebhookInv => AttemptBudget
  <2> SUFFICES ASSUME TypeOK, RunsCounted, NEW t \in Track
               PROVE  runs[t].begun <= MaxAttempts * (1 + row[t].recoveries)
    BY DEF WebhookInv, AttemptBudget
  <2> DEFINE n == row[t].recoveries
  <2>1. /\ row[t].attempts \in 0..MaxAttempts /\ n \in Nat /\ runs[t].begun \in Nat
        /\ runs[t].begun <= MaxAttempts * n + row[t].attempts
    BY DEF TypeOK, Rows, RunsCounted
  <2>2. MaxAttempts * (1 + n) = MaxAttempts * n + MaxAttempts /\ MaxAttempts * n \in Nat
    BY <2>1, WebhookAssumption
  <2> QED BY <2>1, <2>2, WebhookAssumption
<1> QED BY Safe, <1>1, PTL

(* A 200, and the processed flag, mean that every required track is resolved. *)
THEOREM WebhookAck == Spec => []AckMeansResolved
<1>1. WebhookInv => AckMeansResolved
  BY DEF WebhookInv
<1> QED BY Safe, <1>1, PTL

-----------------------------------------------------------------------------
(* The refinement of the ledger. *)
Fate == [t \in Track |-> FateOf(row[t].status)]

LEMMA Fates ==
    /\ FateOf("absent") = "unknown" /\ FateOf("succeeded") = "done"
    /\ FateOf("dead_letter") = "parked" /\ FateOf("reviewed") = "waived"
    /\ \A s \in {"pending", "processing", "failed"} : FateOf(s) = "open"
    /\ \A s \in Status : FateOf(s) = "unknown" <=> s = "absent"
BY DEF FateOf, Status

(* Statuses unchanged, answer unchanged. *)
LEMMA LedgerStutters ==
    ASSUME \A t \in Track : row'[t].status = row[t].status, receipt'.acked = receipt.acked
    PROVE  UNCHANGED Ledger!ledger
<1>1. \A t \in Track : FateOf(row[t].status)' = FateOf(row[t].status)
  BY DEF FateOf
<1> QED BY <1>1 DEF Ledger!ledger

(* One track changes its fate. *)
LEMMA LedgerMoves ==
    ASSUME NEW t \in Track, NEW to, FateOf(row[t].status)' = to,
           \A u \in Track \ {t} : row'[u].status = row[u].status,
           receipt'.acked = receipt.acked
    PROVE  Ledger!Move(t, FateOf(row[t].status), to)
<1>1. \A u \in Track \ {t} : FateOf(row[u].status)' = FateOf(row[u].status)
  BY DEF FateOf
<1> QED BY <1>1 DEF Ledger!Move

LEMMA OneRowRefines ==
    ASSUME NEW t \in Track, Moves(t), ~ Created(t),
           \A u \in Track \ {t} : row'[u] = row[u], receipt'.acked = receipt.acked
    PROVE  [Ledger!LedgerNext]_(Ledger!ledger)
<1> DEFINE from == FateOf(row[t].status)
           to   == FateOf(row'[t].status)
<1>1. CASE Same(t)
  BY <1>1, LedgerStutters DEF Same
<1>2. Ledger!Move(t, from, to)
  <2>1. FateOf(row[t].status)' = to
    BY DEF FateOf
  <2>2. \A u \in Track \ {t} : row'[u].status = row[u].status
    OBVIOUS
  <2> HIDE DEF to
  <2> QED BY <2>1, <2>2, LedgerMoves
<1>3. CASE Claimed(t)
  <2>1. from = "open" /\ to = "open"
    BY <1>3, Fates DEF Claimed
  <2>2. \A u \in Track : FateOf(row[u].status)' = FateOf(row[u].status)
    BY <2>1 DEF FateOf
  <2> QED BY <2>2 DEF Ledger!ledger
<1>4. CASE Succeeded(t)
  <2>1. from = "open" /\ to = "done"
    BY <1>4, Fates DEF Succeeded
  <2> QED BY <1>2, <2>1 DEF Ledger!LedgerNext
<1>5. CASE Threw(t) \/ Expired(t)
  <2>1. from = "open" /\ to \in {"open", "parked"}
    BY <1>5, Fates DEF Threw, Expired
  <2>2. CASE to = "parked"
    BY <1>2, <2>1, <2>2 DEF Ledger!LedgerNext
  <2>3. CASE to = "open"
    <3>1. \A u \in Track : FateOf(row[u].status)' = FateOf(row[u].status)
      BY <2>1, <2>3 DEF FateOf
    <3> QED BY <3>1 DEF Ledger!ledger
  <2> QED BY <2>1, <2>2, <2>3
<1>6. CASE Retried(t)
  <2>1. from = "parked" /\ to = "open"
    BY <1>6, Fates DEF Retried
  <2> QED BY <1>2, <2>1 DEF Ledger!LedgerNext
<1>7. CASE Reviewed(t)
  <2>1. from = "parked" /\ to = "waived"
    BY <1>7, Fates DEF Reviewed
  <2> QED BY <1>2, <2>1 DEF Ledger!LedgerNext
<1> QED BY <1>1, <1>3, <1>4, <1>5, <1>6, <1>7 DEF Moves

(* The rows appear as one requirement, or they are there already. *)
LEMMA EnsureRefines ==
    ASSUME TypeOK, RowsTogether, NEW p \in Executor, EnsureRows(p)
    PROVE  [Ledger!LedgerNext]_(Ledger!ledger)
<1>0. /\ receipt' = receipt /\ event \in Events
      /\ row' = [t \in Track |->
            IF t \in Applicable(event) /\ row[t].status = "absent" THEN Pending ELSE row[t]]
  BY DEF EnsureRows, TypeOK
<1>1. CASE Materialized = {}
  <2> DEFINE S == Applicable(event)
  <2>1. S \in (SUBSET Track) \ {{}}
    BY ApplicableTracks
  <2>2. \A t \in Track : Fate[t] = "unknown" /\ Fate'[t] = IF t \in S THEN "open" ELSE Fate[t]
    <3>1. \A t \in Track : row[t].status = "absent"
      BY <1>1 DEF Materialized
    <3>2. \A t \in Track : row'[t].status = IF t \in S THEN "pending" ELSE "absent"
      BY <1>0, <3>1 DEF Pending, NoRow
    <3> QED BY <3>1, <3>2, Fates DEF Fate, FateOf
  <2>3. Ledger!Required = {} /\ Fate' = [t \in Track |-> IF t \in S THEN "open" ELSE Fate[t]]
    BY <2>2 DEF Ledger!Required, Fate
  <2>4. Ledger!Require
    BY <1>0, <2>1, <2>3 DEF Ledger!Require, Fate
  <2> QED BY <2>4 DEF Ledger!LedgerNext
<1>2. CASE Materialized = Applicable(event)
  <2>1. \A t \in Track : row'[t].status = row[t].status
    BY <1>0, <1>2 DEF Materialized
  <2> QED BY <1>0, <2>1, LedgerStutters
<1> QED BY <1>1, <1>2 DEF RowsTogether

(* The answer comes after every requirement is met. *)
LEMMA AnswerRefines ==
    ASSUME TypeOK, RowsTogether, AckMeansResolved, [Next]_vars, UNCHANGED row,
           receipt'.acked \in BOOLEAN, receipt.acked => receipt'.acked
    PROVE  [Ledger!LedgerNext]_(Ledger!ledger)
<1>1. CASE receipt'.acked = receipt.acked
  BY <1>1, LedgerStutters
<1>2. CASE receipt'.acked # receipt.acked
  <2>1. receipt'.acked = TRUE
    BY <1>2 DEF TypeOK, Receipts
  <2>2. \A t \in Applicable(event) : row[t].status \in {"succeeded", "reviewed"}
    <3>1. AckMeansResolved'
      BY AckStep
    <3> QED BY <2>1, <3>1, EventFixed DEF AckMeansResolved
  <2>3. Materialized = Applicable(event)
    BY <2>2, ApplicableTracks DEF RowsTogether, Materialized
  <2>4. \A t \in Track : Fate[t] # "unknown" => t \in Materialized
    BY Fates DEF Fate, Materialized, TypeOK, Rows
  <2>5. \A t \in Materialized : Fate[t] \in {"done", "waived"}
    BY <2>2, <2>3, Fates, ApplicableTracks DEF Fate
  <2>6. Ledger!Required # {} /\ \A t \in Ledger!Required : Fate[t] \in {"done", "waived"}
    BY <2>3, <2>4, <2>5, ApplicableTracks DEF Ledger!Required, Fate
  <2>7. Ledger!Answer
    BY <2>1, <2>6 DEF Ledger!Answer, Fate
  <2> QED BY <2>7 DEF Ledger!LedgerNext
<1> QED BY <1>1, <1>2

LEMMA StepRefines ==
    ASSUME TypeOK, WebhookInv, [Next]_vars
    PROVE  [Ledger!LedgerNext]_(Ledger!ledger)
<1>1. TypeOK'
  BY TypeStep
<1>2. CASE \E p \in Executor : EnsureRows(p)
  BY <1>2, EnsureRefines DEF WebhookInv
<1>3. CASE UNCHANGED row
  <2>1. receipt.acked => receipt'.acked
    BY DEF Next, vars, Runs, Faults, Delivers, Operator, Clock, SweepsRow, Ages, SweepAdds, Receive,
           EnsureRows, Claim, Skip, MarkSucceeded, MarkFailed, MarkLost, Acknowledge, Refuse, Sync,
           Handoff, Deliver, QueryFails, Crash, JobStalls, LeaseLapses, ComesDue, RecoverExpired,
           SweepReads, OperatorRetry, OperatorReview, TypeOK, Receipts
  <2> QED BY <1>1, <1>3, <2>1, AnswerRefines DEF WebhookInv, TypeOK, Receipts
<1>4. ASSUME ~ (\E p \in Executor : EnsureRows(p)), NEW t \in Track, receipt'.acked = receipt.acked,
             \E r : row' = [row EXCEPT ![t] = r]
      PROVE  [Ledger!LedgerNext]_(Ledger!ledger)
  <2>1. Moves(t) /\ ~ Created(t)
    BY <1>4, RowMoves DEF Created
  <2>2. \A u \in Track \ {t} : row'[u] = row[u]
    BY <1>4 DEF TypeOK
  <2> QED BY <1>4, <2>1, <2>2, OneRowRefines
<1>5. ASSUME ~ UNCHANGED row, ~ \E p \in Executor : EnsureRows(p)
      PROVE  /\ receipt'.acked = receipt.acked
             /\ \E t \in Track : \E r : row' = [row EXCEPT ![t] = r]
  <2>1. ASSUME NEW p \in Executor, Claim(p) \/ MarkSucceeded(p) \/ MarkFailed(p)
        PROVE  receipt' = receipt /\ \E t \in Track : \E r : row' = [row EXCEPT ![t] = r]
    <3>0. First(proc[p].todo) \in Track /\ proc[p].claim.track \in Track
      BY DEF First, Track, TypeOK, Procs, Claims
    <3>1. CASE Claim(p)
      BY <3>0, <3>1 DEF Claim
    <3>2. CASE MarkSucceeded(p)
      BY <3>0, <3>2 DEF MarkSucceeded
    <3>3. CASE MarkFailed(p)
      BY <3>0, <3>3 DEF MarkFailed
    <3> QED BY <2>1, <3>1, <3>2, <3>3
  <2>2. ASSUME NEW t \in Track, Clock(t) \/ RecoverExpired(t) \/ OperatorRetry(t)
        PROVE  receipt' = receipt /\ \E r : row' = [row EXCEPT ![t] = r]
    BY <2>2 DEF Clock, LeaseLapses, ComesDue, RecoverExpired, OperatorRetry
  <2>3. ASSUME NEW t \in Track, OperatorReview(t)
        PROVE  receipt'.acked = receipt.acked /\ \E r : row' = [row EXCEPT ![t] = r]
    BY <2>3 DEF OperatorReview, TypeOK, Receipts
  <2>4. ASSUME SweepAdds
        PROVE  receipt' = receipt /\ \E t \in Track : \E r : row' = [row EXCEPT ![t] = r]
    BY <1>5, <2>4 DEF SweepAdds, TypeOK
  <2> QED
    BY <1>5, <2>1, <2>2, <2>3, <2>4
       DEF Next, vars, Runs, Faults, Delivers, Operator, SweepsRow, Ages, Receive,
           Skip, MarkLost, Acknowledge, Refuse, Sync,
           Handoff, Deliver, QueryFails, Crash, JobStalls, SweepReads
<1> QED BY <1>2, <1>3, <1>4, <1>5

(* The tracks, with their claims, leases, jobs and sweeps, are the ledger. *)
THEOREM WebhookRefines == Spec => ImplementsLedger
<1>1. Init => Ledger!LedgerInit
  <2> SUFFICES ASSUME Init PROVE Ledger!LedgerInit
    OBVIOUS
  <2>1. \A t \in Track : row[t].status = "absent"
    BY DEF Init, NoRow
  <2> QED BY <2>1, Fates DEF Init, Ledger!LedgerInit
<1>2. TypeOK /\ WebhookInv /\ [Next]_vars => [Ledger!LedgerNext]_(Ledger!ledger)
  BY StepRefines
<1> QED BY Safe, <1>1, <1>2, PTL DEF Spec, ImplementsLedger, Ledger!LedgerSpec
=============================================================================

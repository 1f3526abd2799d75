------------------------------ MODULE ScanProofs ------------------------------
(***************************************************************************)
(* Theorems of the scan lifecycle, for any scans, users, workers, limits.  *)
(***************************************************************************)
EXTENDS ScanInvariants, TLAPS

\* A status that the transition table allows is a status, and never "ABSENT".
LEMMA MovesToStatus ==
    ASSUME NEW s \in Scan, NEW to, CanMove(s, to)
    PROVE  to \in Status \ {"ABSENT"} /\ Created(s)
BY DEF CanMove, Next1, Status, Active, Terminal, Created

\* A worker in the middle of an attempt has a scan in hand.
LEMMA InHand ==
    ASSUME TypeOK, NEW w \in Worker, NEW step, At(w, step)
    PROVE  cur[w] \in Scan /\ pc[w] = step
BY DEF At
-----------------------------------------------------------------------------
(***************************************************************************)
(* Type correctness, one variable at a time.                               *)
(***************************************************************************)
LEMMA WriteStatus ==
    ASSUME row \in [Scan -> Row], NEW s \in Scan, NEW to \in Status, SetStatus(s, to)
    PROVE  row' \in [Scan -> Row]
BY DEF SetStatus, Row

LEMMA WriteStarted ==
    ASSUME row \in [Scan -> Row], NEW s \in Scan, NEW to \in Status, SetStarted(s, to)
    PROVE  row' \in [Scan -> Row]
BY DEF SetStarted, Row

LEMMA StatusNames == /\ Active \subseteq Status /\ Terminal \subseteq Status
                     /\ {"QUEUED", "PREFLIGHT", "RUNNING", "VERIFYING", "FAILED", "CANCELLED"} \subseteq Status
BY DEF Status, Active, Terminal

LEMMA RowTyped ==
    ASSUME TypeOK, Next
    PROVE  row' \in [Scan -> Row]
<1>1. row \in [Scan -> Row]
  BY DEF TypeOK
<1> USE <1>1
<1>2. ASSUME NEW s \in Scan, CallerStep(s) PROVE row' \in [Scan -> Row]
  <2>1. CASE CreateScan(s)
    BY <2>1 DEF CreateScan, Row, Status, Active
  <2>2. CASE PublishRefused(s)
    BY <2>2, WriteStatus, StatusNames DEF PublishRefused
  <2>3. CASE CancelScan(s)
    BY <2>3, WriteStatus, StatusNames DEF CancelScan
  <2>4. CASE Publish(s) \/ PublishUncertain(s) \/ CallerReleases(s) \/ CallerCrash(s)
    BY <2>4 DEF Publish, PublishUncertain, CallerReleases, CallerCrash, rows
  <2> QED BY <1>2, <2>1, <2>2, <2>3, <2>4 DEF CallerStep
<1>3. ASSUME NEW s \in Scan, QueueStep(s) PROVE row' \in [Scan -> Row]
  <2>1. CASE FailedEvent(s)
    BY <2>1, WriteStatus, StatusNames DEF FailedEvent
  <2>2. CASE ReconcileOrphan(s)
    BY <2>2, WriteStatus, StatusNames DEF ReconcileOrphan
  <2>3. CASE \E w \in Worker : Deny(w, s)
    BY <2>3, WriteStatus, StatusNames DEF Deny
  <2>4. CASE Stalled(s) \/ RemoveJob(s)
             \/ \E w \in Worker : Deliver(w, s) \/ DeliveryFails(w, s) \/ SandboxExits(w, s)
    BY <2>4 DEF Stalled, RemoveJob, Deliver, DeliveryFails, SandboxExits, rows
  <2> QED BY <1>3, <2>1, <2>2, <2>3, <2>4 DEF QueueStep
<1>4. ASSUME NEW w \in Worker, TryStep(w) PROVE row' \in [Scan -> Row]
  <2> DEFINE s == cur[w]
  <2>1. CASE Resume(w)
    <3>1. CASE UNCHANGED row BY <3>1
    <3>2. CASE \E to \in Status : SetStatus(s, to)
      BY <2>1, <3>2, WriteStatus DEF Resume, At
    <3> QED BY <2>1, <3>1, <3>2 DEF Resume
  <2>2. CASE Prepare(w)
    BY <2>2, WriteStarted, StatusNames DEF Prepare, At
  <2>3. CASE BeginRunning(w)
    BY <2>3, WriteStarted, StatusNames DEF BeginRunning, At
  <2>4. CASE Refuse(w, "admit") \/ Refuse(w, "execute") \/ Refuse(w, "returned")
    BY <2>4, WriteStatus, StatusNames DEF Refuse, At
  <2>5. CASE BeginVerifying(w)
    BY <2>5, WriteStatus, StatusNames DEF BeginVerifying, At
  <2>6. CASE EarlyFinish(w)
    BY <2>6, WriteStatus, MovesToStatus DEF EarlyFinish, At
  <2>7. CASE Finish(w)
    BY <2>7, WriteStatus, MovesToStatus DEF Finish, At
  <2>8. CASE EnterBillable(w)
    BY <2>8 DEF EnterBillable, At, Row
  <2>9. CASE EarlySeal(w)
    BY <2>9 DEF EarlySeal, At, Row, Verdict
  <2>10. CASE ClaimFinalization(w)
    BY <2>10 DEF ClaimFinalization, At, Row
  <2>11. CASE Seal(w)
    <3>1. CASE UNCHANGED row BY <3>1
    <3>2. CASE \E v \in Verdict : row' = [row EXCEPT ![s].manifest = v]
      BY <2>11, <3>2 DEF Seal, At, Row
    <3> QED BY <2>11, <3>1, <3>2 DEF Seal
  <2>12. CASE Admitted(w) \/ Reserve(w) \/ ReserveWait(w) \/ Claim(w) \/ ClaimWait(w)
              \/ StartUnmetered(w) \/ Execute(w) \/ LaunchCancelled(w) \/ Launch(w)
              \/ EngineReturns(w) \/ Observe(w) \/ Route(w) \/ SettleCancelled(w) \/ Commit(w)
    BY <2>12 DEF Admitted, Reserve, ReserveWait, Claim, ClaimWait, ReserveTo, StartUnmetered,
                 Execute, LaunchCancelled, Launch, EngineReturns, Observe, Route,
                 SettleCancelled, Commit, Local, rows
  <2> QED BY <1>4, <2>1, <2>2, <2>3, <2>4, <2>5, <2>6, <2>7, <2>8, <2>9, <2>10, <2>11, <2>12
          DEF TryStep
<1>5. ASSUME NEW w \in Worker, CatchStep(w) PROVE row' \in [Scan -> Row]
  <2>1. CASE CatchRetry(w)
    BY <2>1, WriteStatus, StatusNames DEF CatchRetry, Undecided, At
  <2>2. CASE CatchFail(w)
    BY <2>2, WriteStatus, StatusNames DEF CatchFail, Undecided, At
  <2>3. CASE Defer(w)
    BY <2>3, WriteStatus, StatusNames DEF Defer, At
  <2>4. CASE ResetCapacity(w)
    <3> DEFINE r == [row[cur[w]] EXCEPT !.started = FALSE]
    <3>1. cur[w] \in Scan /\ (row' = row \/ row' = [row EXCEPT ![cur[w]] = r])
      BY <2>4 DEF ResetCapacity, At
    <3>2. r \in Row
      BY <3>1 DEF Row
    <3> HIDE DEF r
    <3> QED BY <3>1, <3>2
  <2>5. CASE DeferClear(w)
    <3> DEFINE b == IF row[cur[w]].status = "QUEUED" THEN FALSE ELSE row[cur[w]].started
               r == [row[cur[w]] EXCEPT !.started = b]
    <3>1. cur[w] \in Scan /\ row' = [row EXCEPT ![cur[w]] = r]
      BY <2>5 DEF DeferClear, At
    <3>2. b \in BOOLEAN
      BY <3>1 DEF Row
    <3> HIDE DEF b
    <3>3. r \in Row
      BY <3>1, <3>2 DEF Row
    <3> HIDE DEF r
    <3> QED BY <3>1, <3>3
  <2>6. CASE CatchDurable(w) \/ CatchCancelled(w) \/ DeferMove(w)
    BY <2>6 DEF CatchDurable, CatchCancelled, DeferMove, Local, rows
  <2> QED BY <1>5, <2>1, <2>2, <2>3, <2>4, <2>5, <2>6 DEF CatchStep
<1>6. ASSUME NEW w \in Worker, FinallyStep(w) \/ WorkerFault(w) PROVE row' \in [Scan -> Row]
  BY <1>6 DEF FinallyStep, Confirm, ReleaseStopped, FinallyReleases, Acknowledge,
              WorkerFault, Throw, CatchUnreadable, DeferError, FinallyError, WorkerCrash, Local, rows
<1> QED BY <1>2, <1>3, <1>4, <1>5, <1>6 DEF Next, WorkerStep

LEMMA CapTyped ==
    ASSUME TypeOK, Next
    PROVE  cap' \in [Scan -> Cap]
<1>1. cap \in [Scan -> Cap]
  BY DEF TypeOK
<1> USE <1>1
<1>2. ASSUME NEW s \in Scan, ReleaseUnstarted(s) PROVE cap' \in [Scan -> Cap]
  BY <1>2 DEF ReleaseUnstarted, Cap, CapState
<1>3. ASSUME NEW s \in Scan, CallerStep(s) PROVE cap' \in [Scan -> Cap]
  <2>1. CASE CreateScan(s)
    BY <2>1 DEF CreateScan, Cap, CapState, InitialCap
  <2>2. CASE CallerReleases(s)
    BY <2>2, <1>2 DEF CallerReleases
  <2>3. CASE Publish(s) \/ PublishUncertain(s) \/ PublishRefused(s) \/ CancelScan(s) \/ CallerCrash(s)
    BY <2>3 DEF Publish, PublishUncertain, PublishRefused, CancelScan, CallerCrash, rows
  <2> QED BY <1>3, <2>1, <2>2, <2>3 DEF CallerStep
<1>4. ASSUME NEW s \in Scan, QueueStep(s) PROVE cap' \in [Scan -> Cap]
  BY <1>4 DEF QueueStep, Stalled, FailedEvent, ReconcileOrphan, RemoveJob, Deliver,
              DeliveryFails, Deny, SandboxExits, rows
<1>5. ASSUME NEW w \in Worker, TryStep(w) PROVE cap' \in [Scan -> Cap]
  <2>1. CASE Reserve(w) \/ ReserveWait(w) \/ Claim(w) \/ ClaimWait(w)
    BY <2>1 DEF Reserve, ReserveWait, Claim, ClaimWait, ReserveTo, At, Cap, CapState
  <2>2. CASE StartUnmetered(w)
    BY <2>2 DEF StartUnmetered, At, Cap, CapState
  <2>3. CASE SettleCancelled(w)
    BY <2>3 DEF SettleCancelled, At, Cap, CapState
  <2>4. CASE Commit(w)
    BY <2>4 DEF Commit, At, Cap, CapState
  <2>5. CASE \/ Resume(w) \/ Prepare(w) \/ Admitted(w)
             \/ Refuse(w, "admit") \/ Refuse(w, "execute") \/ Refuse(w, "returned")
             \/ BeginRunning(w) \/ Execute(w) \/ EnterBillable(w) \/ LaunchCancelled(w)
             \/ Launch(w) \/ EngineReturns(w) \/ Observe(w) \/ Route(w) \/ EarlySeal(w)
             \/ EarlyFinish(w) \/ BeginVerifying(w) \/ ClaimFinalization(w) \/ Seal(w) \/ Finish(w)
    BY <2>5 DEF Resume, Prepare, Admitted, Refuse, BeginRunning, Execute, EnterBillable,
                LaunchCancelled, Launch, EngineReturns, Observe, Route, EarlySeal, EarlyFinish,
                BeginVerifying, ClaimFinalization, Seal, Finish, Local, rows
  <2> QED BY <1>5, <2>1, <2>2, <2>3, <2>4, <2>5 DEF TryStep
<1>6. ASSUME NEW w \in Worker, CatchStep(w) PROVE cap' \in [Scan -> Cap]
  <2>1. CASE ResetCapacity(w)
    BY <2>1 DEF ResetCapacity, At, Cap, CapState, InitialCap
  <2>2. CASE \/ CatchDurable(w) \/ CatchCancelled(w) \/ CatchRetry(w) \/ CatchFail(w)
             \/ Defer(w) \/ DeferClear(w) \/ DeferMove(w)
    BY <2>2 DEF CatchDurable, CatchCancelled, CatchRetry, CatchFail, Defer, DeferClear,
                DeferMove, Local, rows
  <2> QED BY <1>6, <2>1, <2>2 DEF CatchStep
<1>7. ASSUME NEW w \in Worker, FinallyStep(w) PROVE cap' \in [Scan -> Cap]
  <2>1. CASE Confirm(w)
    BY <2>1 DEF Confirm, ConfirmedState, At, Cap, CapState
  <2>2. CASE ReleaseStopped(w)
    <3>1. cap' = cap \/ cap' = [cap EXCEPT ![cur[w]].settled = TRUE]
      BY <2>2 DEF ReleaseStopped
    <3> QED BY <2>2, <3>1 DEF ReleaseStopped, At, Cap
  <2>3. CASE FinallyReleases(w)
    BY <2>3, <1>2 DEF FinallyReleases, At
  <2>4. CASE Acknowledge(w)
    BY <2>4 DEF Acknowledge, rows
  <2> QED BY <1>7, <2>1, <2>2, <2>3, <2>4 DEF FinallyStep
<1>8. ASSUME NEW w \in Worker, WorkerFault(w) PROVE cap' \in [Scan -> Cap]
  BY <1>8 DEF WorkerFault, Throw, CatchUnreadable, DeferError, FinallyError, WorkerCrash,
              Local, rows
<1> QED BY <1>3, <1>4, <1>5, <1>6, <1>7, <1>8 DEF Next, WorkerStep

LEMMA TryKeeps ==
    ASSUME NEW w \in Worker, TryStep(w)
    PROVE  UNCHANGED <<slot, job, duty, cur>>
BY DEF TryStep, Resume, Prepare, Admitted, Refuse, Reserve, ReserveWait, Claim, ClaimWait,
       ReserveTo, StartUnmetered, BeginRunning, Execute, EnterBillable, LaunchCancelled,
       Launch, EngineReturns, Observe, Route, SettleCancelled, EarlySeal, EarlyFinish,
       BeginVerifying, ClaimFinalization, Seal, Finish, Commit, Local, rows

LEMMA CatchKeeps ==
    ASSUME NEW w \in Worker, CatchStep(w)
    PROVE  UNCHANGED <<slot, duty, sandbox, runs, cur>>
BY DEF CatchStep, CatchDurable, CatchCancelled, CatchRetry, CatchFail, ResetCapacity, Defer,
       DeferClear, DeferMove, Local, rows

\* The slot is written by the admission and by the two releases only.
LEMMA SlotTyped ==
    ASSUME TypeOK, Next
    PROVE  slot' \in [User -> Scan \cup {NoScan}]
<1>1. slot \in [User -> Scan \cup {NoScan}]
  BY DEF TypeOK
<1> USE <1>1
<1>2. ASSUME NEW s \in Scan, ReleaseUnstarted(s) PROVE slot' \in [User -> Scan \cup {NoScan}]
  BY <1>2 DEF ReleaseUnstarted
<1>3. ASSUME NEW s \in Scan, CallerStep(s) PROVE slot' \in [User -> Scan \cup {NoScan}]
  <2>1. CASE CreateScan(s)
    BY <2>1 DEF CreateScan
  <2>2. CASE CallerReleases(s)
    BY <2>2, <1>2 DEF CallerReleases
  <2>3. CASE Publish(s) \/ PublishUncertain(s) \/ PublishRefused(s) \/ CancelScan(s) \/ CallerCrash(s)
    BY <2>3 DEF Publish, PublishUncertain, PublishRefused, CancelScan, CallerCrash, rows
  <2> QED BY <1>3, <2>1, <2>2, <2>3 DEF CallerStep
<1>4. ASSUME NEW s \in Scan, QueueStep(s) PROVE slot' = slot
  BY <1>4 DEF QueueStep, Stalled, FailedEvent, ReconcileOrphan, RemoveJob, Deliver,
              DeliveryFails, Deny, SandboxExits, rows
<1>5. ASSUME NEW w \in Worker, TryStep(w) \/ CatchStep(w) PROVE slot' = slot
  BY <1>5, TryKeeps, CatchKeeps
<1>6. ASSUME NEW w \in Worker, FinallyStep(w) PROVE slot' \in [User -> Scan \cup {NoScan}]
  <2>1. CASE ReleaseStopped(w)
    BY <2>1 DEF ReleaseStopped, At
  <2>2. CASE FinallyReleases(w)
    BY <2>2, <1>2 DEF FinallyReleases, At
  <2>3. CASE Confirm(w) \/ Acknowledge(w)
    BY <2>3 DEF Confirm, Acknowledge, rows
  <2> QED BY <1>6, <2>1, <2>2, <2>3 DEF FinallyStep
<1>7. ASSUME NEW w \in Worker, WorkerFault(w) PROVE slot' = slot
  BY <1>7 DEF WorkerFault, Throw, CatchUnreadable, DeferError, FinallyError, WorkerCrash,
              Local, rows
<1> QED BY <1>3, <1>4, <1>5, <1>6, <1>7 DEF Next, WorkerStep
LEMMA JobTyped ==
    ASSUME TypeOK, JobBounds, Next
    PROVE  job' \in [Scan -> Job] /\ JobBounds'
<1> DEFINE Good(j) == /\ j \in Job
                      /\ j.state \in {"none", "ready", "active"} =>
                             j.attempts < MaxAttempts /\ j.stalls <= MaxStalled
                      /\ j.owner # NoWorker => j.state = "active"
<1>1. job \in [Scan -> Job] /\ \A s \in Scan : Good(job[s])
  BY DEF TypeOK, JobBounds
<1>2. SUFFICES job' \in [Scan -> Job] /\ \A s \in Scan : Good(job'[s])
  BY DEF JobBounds
<1>3. ASSUME NEW s \in Scan, NEW j, Good(j), job' = [job EXCEPT ![s] = j]
      PROVE  job' \in [Scan -> Job] /\ \A t \in Scan : Good(job'[t])
  BY <1>1, <1>3
<1>4. ASSUME job' = job
      PROVE  job' \in [Scan -> Job] /\ \A t \in Scan : Good(job'[t])
  BY <1>1, <1>4
<1> HIDE DEF Good
<1>5. ASSUME NEW s \in Scan, CallerStep(s)
      PROVE  job' \in [Scan -> Job] /\ \A t \in Scan : Good(job'[t])
  <2>1. CASE Publish(s)
    <3>1. job' = [job EXCEPT ![s] = [job[s] EXCEPT !.state = "ready"]] /\ job[s].state = "none"
      BY <2>1 DEF Publish
    <3>2. Good([job[s] EXCEPT !.state = "ready"])
      BY <1>1, <3>1 DEF Good, Job
    <3> QED BY <1>3, <3>1, <3>2
  <2>2. CASE job' = job
    BY <2>2, <1>4
  <2> QED
    BY <1>5, <2>1, <2>2 DEF CallerStep, CreateScan, PublishUncertain, PublishRefused, CancelScan,
                            CallerReleases, CallerCrash
<1>6. ASSUME NEW s \in Scan, QueueStep(s)
      PROVE  job' \in [Scan -> Job] /\ \A t \in Scan : Good(job'[t])
  <2>1. CASE Stalled(s)
    <3> DEFINE j == [job[s] EXCEPT !.state = IF MayStall(s) THEN "ready" ELSE "failed",
                                   !.owner = NoWorker, !.stalls = @ + 1]
    <3>1. job' = [job EXCEPT ![s] = j] /\ job[s].state = "active"
      BY <2>1 DEF Stalled
    <3> DEFINE k == job[s].stalls + 1
               st == IF MayStall(s) THEN "ready" ELSE "failed"
    <3>2. k \in 0..(MaxStalled + 1) /\ (st = "ready" => k <= MaxStalled)
      BY <1>1, <3>1, BoundAssumption DEF Good, Job, MayStall, BoundAssumption
    <3>3. st \in {"ready", "failed"}
      OBVIOUS
    <3>4. j = [job[s] EXCEPT !.state = st, !.owner = NoWorker, !.stalls = k]
      OBVIOUS
    <3> HIDE DEF k, st
    <3>5. Good(j)
      BY <1>1, <3>1, <3>2, <3>3, <3>4 DEF Good, Job
    <3> HIDE DEF j
    <3> QED BY <1>3, <3>1, <3>5
  <2>2. CASE RemoveJob(s)
    <3>1. job' = [job EXCEPT ![s] = [job[s] EXCEPT !.state = "none"]] /\ job[s].state = "ready"
      BY <2>2 DEF RemoveJob
    <3>2. Good([job[s] EXCEPT !.state = "none"])
      BY <1>1, <3>1 DEF Good, Job
    <3> QED BY <1>3, <3>1, <3>2
  <2>3. ASSUME NEW w \in Worker, Deliver(w, s)
        PROVE  job' \in [Scan -> Job] /\ \A t \in Scan : Good(job'[t])
    <3> DEFINE j == [job[s] EXCEPT !.state = "active", !.owner = w]
    <3>1. job' = [job EXCEPT ![s] = j] /\ job[s].state = "ready"
      BY <2>3 DEF Deliver
    <3>2. Good(j)
      BY <1>1, <3>1 DEF Good, Job
    <3> HIDE DEF j
    <3> QED BY <1>3, <3>1, <3>2
  <2>4. ASSUME NEW w \in Worker, Deny(w, s)
        PROVE  job' \in [Scan -> Job] /\ \A t \in Scan : Good(job'[t])
    <3>1. job' = [job EXCEPT ![s] = [job[s] EXCEPT !.state = "completed"]] /\ job[s].state = "ready"
      BY <2>4 DEF Deny
    <3>2. Good([job[s] EXCEPT !.state = "completed"])
      BY <1>1, <3>1 DEF Good, Job
    <3> QED BY <1>3, <3>1, <3>2
  <2>5. ASSUME NEW w \in Worker, DeliveryFails(w, s)
        PROVE  job' \in [Scan -> Job] /\ \A t \in Scan : Good(job'[t])
    <3> DEFINE last == job[s].attempts + 1 >= MaxAttempts
               k == job[s].attempts + 1
               st == IF last THEN "failed" ELSE "ready"
               j == [job[s] EXCEPT !.state = st, !.attempts = k]
    <3>1. job' = [job EXCEPT ![s] = j] /\ job[s].state = "ready"
      BY <2>5 DEF DeliveryFails
    <3>2. k \in 0..MaxAttempts /\ (st = "ready" => k < MaxAttempts)
      BY <1>1, <3>1, BoundAssumption DEF Good, Job, BoundAssumption
    <3>3. st \in {"ready", "failed"}
      OBVIOUS
    <3> HIDE DEF k, st, last
    <3>4. Good(j)
      BY <1>1, <3>1, <3>2, <3>3 DEF Good, Job
    <3> HIDE DEF j
    <3> QED BY <1>3, <3>1, <3>4
  <2>6. CASE job' = job
    BY <2>6, <1>4
  <2> QED
    BY <1>6, <2>1, <2>2, <2>3, <2>4, <2>5, <2>6 DEF QueueStep, FailedEvent, ReconcileOrphan, SandboxExits
<1>7. ASSUME NEW w \in Worker, TryStep(w) PROVE job' = job
  BY <1>7, TryKeeps
<1>8. ASSUME NEW w \in Worker, CatchStep(w)
      PROVE  job' \in [Scan -> Job] /\ \A t \in Scan : Good(job'[t])
  <2>1. CASE DeferMove(w)
    <3> DEFINE j == [job[cur[w]] EXCEPT !.state = "ready", !.owner = NoWorker]
    <3>1. cur[w] \in Scan
      BY <2>1 DEF DeferMove, At
    <3>2. CASE job' = job
      BY <3>2, <1>4
    <3>3. CASE job' = [job EXCEPT ![cur[w]] = j] /\ job[cur[w]].owner = w
      <4>1. Good(j)
        BY <1>1, <3>1, <3>3, NoneAssumption DEF Good, Job
      <4> HIDE DEF j
      <4> QED BY <1>3, <3>1, <3>3, <4>1
    <3> QED BY <2>1, <3>2, <3>3 DEF DeferMove
  <2>2. CASE job' = job
    BY <2>2, <1>4
  <2> QED
    BY <1>8, <2>1, <2>2 DEF CatchStep, CatchDurable, CatchCancelled, CatchRetry, CatchFail,
                            ResetCapacity, Defer, DeferClear, Local
<1>9. ASSUME NEW w \in Worker, FinallyStep(w)
      PROVE  job' \in [Scan -> Job] /\ \A t \in Scan : Good(job'[t])
  <2>1. CASE Acknowledge(w)
    <3> DEFINE s == cur[w]
               last == job[s].attempts + 1 >= MaxAttempts
               done == [job[s] EXCEPT !.state = "completed", !.owner = NoWorker]
               again == [job[s] EXCEPT !.state = IF last THEN "failed" ELSE "ready",
                                       !.owner = NoWorker, !.attempts = @ + 1]
    <3>1. s \in Scan
      BY <2>1 DEF Acknowledge, At
    <3>2. CASE job[s].state = "active" /\ job' = [job EXCEPT ![s] = done]
      <4>1. Good(done)
        BY <1>1, <3>1, <3>2 DEF Good, Job
      <4> HIDE DEF done
      <4> QED BY <1>3, <3>1, <3>2, <4>1
    <3>3. CASE job[s].state = "active" /\ job' = [job EXCEPT ![s] = again]
      <4> DEFINE k == job[s].attempts + 1
                 st == IF last THEN "failed" ELSE "ready"
      <4>1. k \in 0..MaxAttempts /\ (st = "ready" => k < MaxAttempts)
        BY <1>1, <3>1, <3>3, BoundAssumption DEF Good, Job, BoundAssumption
      <4>2. st \in {"ready", "failed"}
        OBVIOUS
      <4>3. again = [job[s] EXCEPT !.state = st, !.owner = NoWorker, !.attempts = k]
        OBVIOUS
      <4> HIDE DEF k, st, last
      <4>4. /\ again \in Job /\ again.owner = NoWorker /\ again.state = st
            /\ again.attempts = k /\ again.stalls = job[s].stalls
        BY <1>1, <3>1, <4>1, <4>2, <4>3 DEF Good, Job
      <4>5. job[s].stalls <= MaxStalled
        BY <1>1, <3>1, <3>3 DEF Good
      <4> HIDE DEF again
      <4>6. Good(again)
        BY <4>1, <4>2, <4>4, <4>5 DEF Good
      <4> QED BY <1>3, <3>1, <3>3, <4>6
    <3>4. CASE job' = job
      BY <3>4, <1>4
    <3> QED BY <2>1, <3>2, <3>3, <3>4 DEF Acknowledge
  <2>2. CASE job' = job
    BY <2>2, <1>4
  <2> QED
    BY <1>9, <2>1, <2>2 DEF FinallyStep, Confirm, ReleaseStopped, FinallyReleases
<1>10. ASSUME NEW w \in Worker, WorkerFault(w)
       PROVE  job' \in [Scan -> Job] /\ \A t \in Scan : Good(job'[t])
  <2>1. CASE WorkerCrash(w)
    <3> DEFINE s == cur[w]
               j == [job[s] EXCEPT !.owner = IF @ = w THEN NoWorker ELSE @]
    <3>1. s \in Scan /\ job' = [job EXCEPT ![s] = j]
      BY <2>1 DEF WorkerCrash
    <3>2. Good(j)
      BY <1>1, <3>1 DEF Good, Job
    <3> HIDE DEF j
    <3> QED BY <1>3, <3>1, <3>2
  <2>2. CASE job' = job
    BY <2>2, <1>4
  <2> QED
    BY <1>10, <2>1, <2>2 DEF WorkerFault, Throw, CatchUnreadable, DeferError, FinallyError, Local
<1> QED BY <1>4, <1>5, <1>6, <1>7, <1>8, <1>9, <1>10 DEF Next, WorkerStep
LEMMA DutyTyped ==
    ASSUME TypeOK, Next
    PROVE  duty' \in [Scan -> Duty]
<1>1. duty \in [Scan -> Duty]
  BY DEF TypeOK
<1> USE <1>1
<1>2. ASSUME NEW s \in Scan, CallerStep(s) PROVE duty' \in [Scan -> Duty]
  <2>1. CASE CallerCrash(s)
    <3>1. PICK d \in {"submitting", "releasing", "failing"} : duty' = [duty EXCEPT ![s][d] = FALSE]
      BY <2>1 DEF CallerCrash
    <3> QED BY <3>1 DEF Duty
  <2>2. CASE CreateScan(s)
    BY <2>2 DEF CreateScan, Duty
  <2>3. CASE Publish(s) \/ PublishUncertain(s)
    <3> DEFINE d == [duty[s] EXCEPT !.submitting = FALSE]
    <3>1. duty' = [duty EXCEPT ![s] = d]
      BY <2>3 DEF Publish, PublishUncertain
    <3>2. d \in Duty
      BY DEF Duty
    <3> HIDE DEF d
    <3> QED BY <3>1, <3>2
  <2>4. CASE PublishRefused(s)
    <3> DEFINE idle == [duty[s] EXCEPT !.submitting = FALSE]
               owes == [duty[s] EXCEPT !.submitting = FALSE, !.releasing = TRUE]
    <3>1. duty' = [duty EXCEPT ![s] = owes] \/ duty' = [duty EXCEPT ![s] = idle]
      BY <2>4 DEF PublishRefused
    <3>2. idle \in Duty /\ owes \in Duty
      BY DEF Duty
    <3> HIDE DEF idle, owes
    <3> QED BY <3>1, <3>2
  <2>5. CASE CancelScan(s)
    BY <2>5 DEF CancelScan, Duty
  <2>6. CASE CallerReleases(s)
    <3> DEFINE d == [duty[s] EXCEPT !.releasing = FALSE]
    <3>1. duty' = [duty EXCEPT ![s] = d]
      BY <2>6 DEF CallerReleases
    <3>2. d \in Duty
      BY DEF Duty
    <3> HIDE DEF d
    <3> QED BY <3>1, <3>2
  <2> QED BY <1>2, <2>1, <2>2, <2>3, <2>4, <2>5, <2>6 DEF CallerStep
<1>3. ASSUME NEW s \in Scan, QueueStep(s) PROVE duty' \in [Scan -> Duty]
  <2>1. CASE FailedEvent(s) \/ ReconcileOrphan(s)
    BY <2>1 DEF FailedEvent, ReconcileOrphan, Duty
  <2>2. CASE duty' = duty
    BY <2>2
  <2>3. CASE \E last \in BOOLEAN : duty' = [duty EXCEPT ![s].failing = @ \/ last]
    BY <2>3 DEF Duty
  <2> QED BY <1>3, <2>1, <2>2, <2>3 DEF QueueStep, Stalled, RemoveJob, Deliver,
                                        DeliveryFails, Deny, SandboxExits
<1>4. ASSUME NEW w \in Worker, TryStep(w) \/ CatchStep(w) PROVE duty' = duty
  BY <1>4, TryKeeps, CatchKeeps
<1>5. ASSUME NEW w \in Worker, FinallyStep(w) PROVE duty' \in [Scan -> Duty]
  <2>1. CASE Acknowledge(w)
    <3> DEFINE s == cur[w]
    <3>1. CASE duty' = duty
      BY <3>1
    <3>2. CASE \E last \in BOOLEAN : duty' = [duty EXCEPT ![s].failing = @ \/ last]
      <4>1. s \in Scan
        BY <2>1 DEF Acknowledge, At
      <4> QED BY <3>2, <4>1 DEF Duty
    <3> QED BY <2>1, <3>1, <3>2 DEF Acknowledge
  <2>2. CASE duty' = duty
    BY <2>2
  <2> QED BY <1>5, <2>1, <2>2 DEF FinallyStep, Confirm, ReleaseStopped, FinallyReleases
<1>6. ASSUME NEW w \in Worker, WorkerFault(w) PROVE duty' = duty
  BY <1>6 DEF WorkerFault, Throw, CatchUnreadable, DeferError, FinallyError, WorkerCrash, Local
<1> QED BY <1>2, <1>3, <1>4, <1>5, <1>6 DEF Next, WorkerStep

LEMMA RunsTyped ==
    ASSUME TypeOK, Next
    PROVE  sandbox' \in [Scan -> SUBSET Worker] /\ runs' \in [Scan -> Nat]
<1>1. sandbox \in [Scan -> SUBSET Worker] /\ runs \in [Scan -> Nat]
  BY DEF TypeOK
<1> USE <1>1
<1>2. ASSUME NEW s \in Scan, CallerStep(s) PROVE UNCHANGED <<sandbox, runs>>
  BY <1>2 DEF CallerStep, CreateScan, Publish, PublishUncertain, PublishRefused, CancelScan,
              CallerReleases, CallerCrash
<1>3. ASSUME NEW s \in Scan, QueueStep(s)
      PROVE  sandbox' \in [Scan -> SUBSET Worker] /\ runs' = runs
  <2>1. ASSUME NEW w \in Worker, SandboxExits(w, s)
        PROVE  sandbox' \in [Scan -> SUBSET Worker] /\ runs' = runs
    BY <2>1 DEF SandboxExits
  <2>2. CASE UNCHANGED <<sandbox, runs>>
    BY <2>2
  <2> QED BY <1>3, <2>1, <2>2 DEF QueueStep, Stalled, FailedEvent, ReconcileOrphan, RemoveJob,
                                  Deliver, DeliveryFails, Deny
<1>4. ASSUME NEW w \in Worker, TryStep(w)
      PROVE  sandbox' \in [Scan -> SUBSET Worker] /\ runs' \in [Scan -> Nat]
  <2>1. CASE Launch(w)
    BY <2>1 DEF Launch, At
  <2>2. CASE EngineReturns(w)
    BY <2>2 DEF EngineReturns, At
  <2>3. CASE UNCHANGED <<sandbox, runs>>
    BY <2>3
  <2> QED
    BY <1>4, <2>1, <2>2, <2>3
       DEF TryStep, Resume, Prepare, Admitted, Refuse, Reserve, ReserveWait, Claim, ClaimWait,
           ReserveTo, StartUnmetered, BeginRunning, Execute, EnterBillable, LaunchCancelled,
           Observe, Route, SettleCancelled, EarlySeal, EarlyFinish, BeginVerifying,
           ClaimFinalization, Seal, Finish, Commit, Local
<1>5. ASSUME NEW w \in Worker, CatchStep(w) PROVE UNCHANGED <<sandbox, runs>>
  BY <1>5, CatchKeeps
<1>6. ASSUME NEW w \in Worker, FinallyStep(w) \/ WorkerFault(w)
      PROVE  UNCHANGED <<sandbox, runs>>
  BY <1>6 DEF FinallyStep, Confirm, ReleaseStopped, FinallyReleases, Acknowledge,
              WorkerFault, Throw, CatchUnreadable, DeferError, FinallyError, WorkerCrash, Local
<1> QED BY <1>2, <1>3, <1>4, <1>5, <1>6 DEF Next, WorkerStep

LEMMA TryInHand ==
    ASSUME NEW w \in Worker, TryStep(w)
    PROVE  cur[w] \in Scan
BY DEF TryStep, Resume, Prepare, Admitted, Refuse, Reserve, ReserveWait, Claim, ClaimWait,
       ReserveTo, StartUnmetered, BeginRunning, Execute, EnterBillable, LaunchCancelled,
       Launch, EngineReturns, Observe, Route, SettleCancelled, EarlySeal, EarlyFinish,
       BeginVerifying, ClaimFinalization, Seal, Finish, Commit, At

LEMMA TryGoes ==
    ASSUME NEW w \in Worker, TryStep(w)
    PROVE  \E step \in PC \ {"idle"} : Go(w, step)
<1>1. CASE Resume(w) \/ Prepare(w) \/ Admitted(w)
           \/ Refuse(w, "admit") \/ Refuse(w, "execute") \/ Refuse(w, "returned")
  BY <1>1 DEF Resume, Prepare, Admitted, Refuse, ReturnTo, ThrowTo, PC
<1>2. CASE Reserve(w) \/ ReserveWait(w) \/ Claim(w) \/ ClaimWait(w) \/ StartUnmetered(w)
  BY <1>2 DEF Reserve, ReserveWait, Claim, ClaimWait, ReserveTo, StartUnmetered, ThrowTo, PC
<1>3. CASE BeginRunning(w) \/ Execute(w) \/ EnterBillable(w) \/ LaunchCancelled(w)
           \/ Launch(w) \/ EngineReturns(w) \/ Observe(w) \/ Route(w)
  BY <1>3 DEF BeginRunning, Execute, EnterBillable, LaunchCancelled, Launch, EngineReturns,
              Observe, Route, ReturnTo, ThrowTo, PC
<1>4. CASE SettleCancelled(w) \/ EarlySeal(w) \/ EarlyFinish(w) \/ BeginVerifying(w)
  BY <1>4 DEF SettleCancelled, EarlySeal, EarlyFinish, BeginVerifying, ReturnTo, ThrowTo, PC
<1>5. CASE ClaimFinalization(w) \/ Seal(w) \/ Finish(w) \/ Commit(w)
  BY <1>5 DEF ClaimFinalization, Seal, Finish, Commit, ReturnTo, ThrowTo, PC
<1> QED BY <1>1, <1>2, <1>3, <1>4, <1>5 DEF TryStep

LEMMA CatchGoes ==
    ASSUME NEW w \in Worker, CatchStep(w)
    PROVE  cur[w] \in Scan /\ \E step \in PC \ {"idle"} : Go(w, step)
BY DEF CatchStep, CatchDurable, CatchCancelled, CatchRetry, CatchFail, Undecided, ResetCapacity,
       Defer, DeferClear, DeferMove, ReturnTo, At, PC

\* A worker is idle exactly when it has no scan in hand: every step of an attempt
\* goes to another step of the attempt, only the last one and a crash go to idle.
LEMMA PcTyped ==
    ASSUME TypeOK, Next
    PROVE  /\ pc' \in [Worker -> PC] /\ cur' \in [Worker -> Scan \cup {NoScan}]
           /\ \A w \in Worker : pc'[w] = "idle" <=> cur'[w] = NoScan
<1> DEFINE P(p, c) == /\ p \in [Worker -> PC] /\ c \in [Worker -> Scan \cup {NoScan}]
                      /\ \A w \in Worker : p[w] = "idle" <=> c[w] = NoScan
<1>1. P(pc, cur)
  BY DEF TypeOK
<1>2. ASSUME NEW w \in Worker, NEW step \in PC \ {"idle"}, cur[w] \in Scan,
             Go(w, step), cur' = cur
      PROVE  P(pc', cur')
  BY <1>1, <1>2, NoneAssumption DEF Go, NoneAssumption
<1>3. ASSUME NEW w \in Worker, Go(w, "idle"), cur' = [cur EXCEPT ![w] = NoScan]
      PROVE  P(pc', cur')
  BY <1>1, <1>3 DEF Go, PC
<1>4. ASSUME NEW w \in Worker, NEW s \in Scan, Go(w, "resume"), cur' = [cur EXCEPT ![w] = s]
      PROVE  P(pc', cur')
  BY <1>1, <1>4, NoneAssumption DEF Go, PC, NoneAssumption
<1>5. ASSUME pc' = pc, cur' = cur PROVE P(pc', cur')
  BY <1>1, <1>5
<1> HIDE DEF P
<1>6. ASSUME NEW s \in Scan, CallerStep(s) PROVE P(pc', cur')
  BY <1>5, <1>6 DEF CallerStep, CreateScan, Publish, PublishUncertain, PublishRefused,
                    CancelScan, CallerReleases, CallerCrash, wk
<1>7. ASSUME NEW s \in Scan, QueueStep(s) PROVE P(pc', cur')
  <2>1. ASSUME NEW w \in Worker, Deliver(w, s) PROVE P(pc', cur')
    BY <2>1, <1>4 DEF Deliver
  <2>2. CASE UNCHANGED <<pc, cur>>
    BY <2>2, <1>5
  <2> QED BY <1>7, <2>1, <2>2 DEF QueueStep, Stalled, FailedEvent, ReconcileOrphan, RemoveJob,
                                  DeliveryFails, Deny, SandboxExits, wk
<1>8. ASSUME NEW w \in Worker, TryStep(w) PROVE P(pc', cur')
  <2>1. cur' = cur
    BY <1>8, TryKeeps
  <2>2. cur[w] \in Scan
    BY <1>8, TryInHand
  <2>3. \E step \in PC \ {"idle"} : Go(w, step)
    BY <1>8, TryGoes
  <2> QED BY <1>2, <2>1, <2>2, <2>3
<1>9. ASSUME NEW w \in Worker, CatchStep(w) PROVE P(pc', cur')
  <2>1. cur' = cur
    BY <1>9, CatchKeeps
  <2>2. cur[w] \in Scan /\ \E step \in PC \ {"idle"} : Go(w, step)
    BY <1>9, CatchGoes
  <2> QED BY <1>2, <2>1, <2>2
<1>10. ASSUME NEW w \in Worker, FinallyStep(w) PROVE P(pc', cur')
  <2>1. CASE Acknowledge(w)
    BY <2>1, <1>3 DEF Acknowledge
  <2>2. CASE Confirm(w)
    BY <2>2, <1>2 DEF Confirm, AfterUnproven, At, PC
  <2>3. CASE ReleaseStopped(w) \/ FinallyReleases(w)
    BY <2>3, <1>2 DEF ReleaseStopped, FinallyReleases, At, PC
  <2> QED BY <1>10, <2>1, <2>2, <2>3 DEF FinallyStep
<1>11. ASSUME NEW w \in Worker, WorkerFault(w) PROVE P(pc', cur')
  <2>1. CASE WorkerCrash(w)
    BY <2>1, <1>3 DEF WorkerCrash
  <2>2. CASE Throw(w)
    BY <2>2, <1>2 DEF Throw, ThrowTo, Local, PC
  <2>3. CASE CatchUnreadable(w) \/ DeferError(w)
    BY <2>3, <1>2 DEF CatchUnreadable, DeferError, ReturnTo, Local, At, PC
  <2>4. CASE FinallyError(w)
    BY <2>4, <1>2 DEF FinallyError, Local, PC
  <2> QED BY <1>11, <2>1, <2>2, <2>3, <2>4 DEF WorkerFault
<1> QED BY <1>6, <1>7, <1>8, <1>9, <1>10, <1>11 DEF Next, WorkerStep, P
LEMMA FreshTyped == FreshMem(FALSE) \in Mem
BY DEF FreshMem, Mem

LEMMA MemTyped ==
    ASSUME TypeOK, Next
    PROVE  mem' \in [Worker -> Mem]
<1>1. mem \in [Worker -> Mem]
  BY DEF TypeOK
<1> USE <1>1
<1>2. ASSUME NEW s \in Scan, CallerStep(s) PROVE mem' = mem
  BY <1>2 DEF CallerStep, CreateScan, Publish, PublishUncertain, PublishRefused,
              CancelScan, CallerReleases, CallerCrash, wk
<1>3. ASSUME NEW s \in Scan, QueueStep(s) PROVE mem' \in [Worker -> Mem]
  <2>1. ASSUME NEW w \in Worker, Deliver(w, s) PROVE mem' \in [Worker -> Mem]
    <3>1. row[s].started \in BOOLEAN
      BY DEF TypeOK, Row
    <3> QED BY <2>1, <3>1 DEF Deliver, FreshMem, Mem
  <2>2. CASE Stalled(s) \/ FailedEvent(s) \/ ReconcileOrphan(s) \/ RemoveJob(s)
    BY <2>2 DEF Stalled, FailedEvent, ReconcileOrphan, RemoveJob, wk
  <2>3. ASSUME NEW w \in Worker, DeliveryFails(w, s) \/ Deny(w, s) \/ SandboxExits(w, s)
        PROVE  mem' = mem
    BY <2>3 DEF DeliveryFails, Deny, SandboxExits, wk
  <2> QED BY <1>3, <2>1, <2>2, <2>3 DEF QueueStep
<1>4. ASSUME NEW w \in Worker, TryStep(w) PROVE mem' \in [Worker -> Mem]
  <2>1. CASE Resume(w)
    <3> DEFINE m == [mem[w] EXCEPT !.recovering = TRUE]
    <3>1. mem' = mem \/ mem' = [mem EXCEPT ![w] = m]
      BY <2>1 DEF Resume
    <3>2. m \in Mem
      BY DEF Mem
    <3> HIDE DEF m
    <3> QED BY <3>1, <3>2
  <2>2. CASE Execute(w)
    <3>1. mem' = mem \/ mem' = [mem EXCEPT ![w].returned = TRUE]
      BY <2>2 DEF Execute
    <3>2. \A m \in Mem : [m EXCEPT !.returned = TRUE] \in Mem
      BY DEF Mem
    <3> QED BY <3>1, <3>2
  <2>3. CASE EnterBillable(w)
    BY <2>3 DEF EnterBillable, Mem
  <2>4. CASE EngineReturns(w)
    <3>1. PICK removed \in BOOLEAN : mem' = [mem EXCEPT ![w].returned = removed]
      BY <2>4 DEF EngineReturns
    <3>2. \A m \in Mem : [m EXCEPT !.returned = removed] \in Mem
      BY DEF Mem
    <3> QED BY <3>1, <3>2
  <2>9. CASE Observe(w)
    <3>1. PICK observed \in BOOLEAN : mem' = [mem EXCEPT ![w].unbilled = ~observed]
      BY <2>9 DEF Observe
    <3>2. \A m \in Mem : [m EXCEPT !.unbilled = ~observed] \in Mem
      BY DEF Mem
    <3> QED BY <3>1, <3>2
  <2>5. CASE SettleCancelled(w)
    BY <2>5 DEF SettleCancelled, Mem
  <2>6. CASE Seal(w)
    <3>1. PICK d \in {"nonbillable", "settlement_required"} : mem' = [mem EXCEPT ![w].disp = d]
      BY <2>6 DEF Seal
    <3> QED BY <3>1 DEF Mem
  <2>7. CASE Finish(w)
    BY <2>7 DEF Finish, Mem
  <2>8. CASE mem' = mem
    BY <2>8
  <2> QED
    BY <1>4, <2>1, <2>2, <2>3, <2>4, <2>5, <2>6, <2>7, <2>8, <2>9
       DEF TryStep, Prepare, Admitted, Refuse, Reserve, ReserveWait, Claim, ClaimWait,
           ReserveTo, StartUnmetered, BeginRunning, LaunchCancelled, Launch, Observe, Route,
           EarlySeal, EarlyFinish, BeginVerifying, ClaimFinalization, Commit, Local
<1>5. ASSUME NEW w \in Worker, CatchStep(w) PROVE mem' \in [Worker -> Mem]
  <2>1. mem' = mem \/ \E r \in {"throw", "delayed"} : mem' = [mem EXCEPT ![w].result = r]
    BY <1>5 DEF CatchStep, CatchDurable, CatchCancelled, CatchRetry, CatchFail, ResetCapacity,
                Defer, DeferClear, DeferMove, Result
  <2> QED BY <2>1 DEF Mem
<1>6. ASSUME NEW w \in Worker, FinallyStep(w) PROVE mem' \in [Worker -> Mem]
  <2>1. mem' = mem \/ mem' = [mem EXCEPT ![w] = FreshMem(FALSE)]
    BY <1>6 DEF FinallyStep, Confirm, ReleaseStopped, FinallyReleases, Acknowledge
  <2> QED BY <2>1, FreshTyped
<1>7. ASSUME NEW w \in Worker, WorkerFault(w) PROVE mem' \in [Worker -> Mem]
  <2>1. \/ mem' = mem \/ mem' = [mem EXCEPT ![w].result = "throw"]
        \/ mem' = [mem EXCEPT ![w] = FreshMem(FALSE)]
    BY <1>7 DEF WorkerFault, Throw, CatchUnreadable, DeferError, FinallyError, WorkerCrash, Result
  <2>2. ASSUME mem' = [mem EXCEPT ![w].result = "throw"] PROVE mem' \in [Worker -> Mem]
    BY <2>2 DEF Mem
  <2> QED BY <2>1, <2>2, FreshTyped
<1> QED BY <1>2, <1>3, <1>4, <1>5, <1>6, <1>7 DEF Next, WorkerStep

\* Initial states are well typed.
LEMMA InitTyped == Init => TypeOK /\ JobBounds /\ AbsentIsUntouched
BY OwnerAssumption, BoundAssumption, NoneAssumption
   DEF Init, TypeOK, JobBounds, AbsentIsUntouched, Created, Row, Cap, Job, Duty, Mem, PC, FreshMem,
       Status, Active, Terminal, CapState, Verdict, BoundAssumption, NoneAssumption

LEMMA TypeStep ==
    ASSUME TypeOK, JobBounds, [Next]_vars
    PROVE  TypeOK' /\ JobBounds'
<1>1. CASE Next
  BY <1>1, RowTyped, CapTyped, SlotTyped, JobTyped, DutyTyped, RunsTyped, PcTyped, MemTyped
     DEF TypeOK
<1>2. CASE UNCHANGED vars
  BY <1>2 DEF vars, TypeOK, JobBounds
<1> QED BY <1>1, <1>2

\* Every variable keeps its type: in particular no scan is delivered or found
\* stalled more often than BullMQ's limits allow.
THEOREM TypeCorrect == Spec => []TypeOK
<1>1. Init => TypeOK /\ JobBounds
  BY InitTyped
<1>2. TypeOK /\ JobBounds /\ [Next]_vars => (TypeOK /\ JobBounds)'
  BY TypeStep
<1> QED BY <1>1, <1>2, PTL DEF Spec-----------------------------------------------------------------------------
(***************************************************************************)
(* How the status of a scan moves, whoever writes it.                      *)
(***************************************************************************)
StatusMove(from, to) == \/ to = from
                        \/ to \in Next1(from)
                        \/ from \in Active /\ to \in {"QUEUED", "FAILED"}

StatusMoves == \A s \in Scan : StatusMove(row[s].status, row'[s].status)

LEMMA SetStatusMoves ==
    ASSUME row \in [Scan -> Row], NEW s \in Scan, NEW to, SetStatus(s, to),
           StatusMove(row[s].status, to)
    PROVE  StatusMoves
BY DEF SetStatus, StatusMoves, StatusMove, Row

LEMMA SetStartedMoves ==
    ASSUME row \in [Scan -> Row], NEW s \in Scan, NEW to, SetStarted(s, to),
           StatusMove(row[s].status, to)
    PROVE  StatusMoves
BY DEF SetStarted, StatusMoves, StatusMove, Row

LEMMA SameMoves ==
    ASSUME \A s \in Scan : row'[s].status = row[s].status
    PROVE  StatusMoves
BY DEF StatusMoves, StatusMove

LEMMA StatusSteps ==
    ASSUME TypeOK, Next
    PROVE  StatusMoves \/ \E s \in Scan : CreateScan(s)
<1>1. row \in [Scan -> Row]
  BY DEF TypeOK
<1> USE <1>1
<1>2. ASSUME NEW s \in Scan, NEW to, CanMove(s, to) PROVE StatusMove(row[s].status, to)
  BY <1>2 DEF CanMove, StatusMove
<1>3. ASSUME NEW s \in Scan, row[s].status \in Active, NEW to \in {"QUEUED", "FAILED"}
      PROVE  StatusMove(row[s].status, to)
  BY <1>3 DEF StatusMove
<1>4. ASSUME NEW s \in Scan, CallerStep(s), ~CreateScan(s) PROVE StatusMoves
  <2>1. CASE PublishRefused(s)
    BY <2>1, <1>2, SetStatusMoves, SameMoves DEF PublishRefused
  <2>2. CASE CancelScan(s)
    BY <2>2, <1>2, SetStatusMoves DEF CancelScan, CancelAllowed
  <2>3. CASE row' = row
    BY <2>3, SameMoves
  <2> QED BY <1>4, <2>1, <2>2, <2>3 DEF CallerStep, Publish, PublishUncertain, CallerReleases,
                                        CallerCrash, rows
<1>5. ASSUME NEW s \in Scan, QueueStep(s) PROVE StatusMoves
  <2>1. CASE FailedEvent(s)
    BY <2>1, <1>2, SetStatusMoves, SameMoves DEF FailedEvent
  <2>2. CASE ReconcileOrphan(s)
    BY <2>2, <1>3, SetStatusMoves DEF ReconcileOrphan
  <2>3. CASE \E w \in Worker : Deny(w, s)
    BY <2>3, <1>2, SetStatusMoves, SameMoves DEF Deny
  <2>4. CASE row' = row
    BY <2>4, SameMoves
  <2> QED BY <1>5, <2>1, <2>2, <2>3, <2>4 DEF QueueStep, Stalled, RemoveJob, Deliver, DeliveryFails,
                                              SandboxExits, rows
<1>6. ASSUME NEW w \in Worker, TryStep(w) PROVE StatusMoves
  <2> DEFINE s == cur[w]
  <2>1. s \in Scan
    BY <1>6, TryInHand
  <2>2. CASE Resume(w)
    <3>1. ASSUME NEW to, ResumesTo(s, to) PROVE StatusMove(row[s].status, to)
      BY <2>1, <3>1, <1>2, <1>3 DEF ResumesTo, Interrupted, Active, StatusMove
    <3> QED BY <2>1, <2>2, <3>1, SetStatusMoves, SameMoves DEF Resume
  <2>3. CASE Prepare(w) \/ BeginRunning(w)
    BY <2>1, <2>3, <1>2, SetStartedMoves, SameMoves DEF Prepare, BeginRunning
  <2>4. CASE Refuse(w, "admit") \/ Refuse(w, "execute") \/ Refuse(w, "returned")
    BY <2>1, <2>4, <1>2, SetStatusMoves, SameMoves DEF Refuse
  <2>5. CASE BeginVerifying(w) \/ EarlyFinish(w) \/ Finish(w)
    BY <2>1, <2>5, <1>2, SetStatusMoves, SameMoves DEF BeginVerifying, EarlyFinish, Finish
  <2>7. CASE EnterBillable(w)
    BY <2>1, <2>7, SameMoves DEF EnterBillable, Row
  <2>8. CASE EarlySeal(w)
    BY <2>1, <2>8, SameMoves DEF EarlySeal, Row
  <2>9. CASE ClaimFinalization(w)
    BY <2>1, <2>9, SameMoves DEF ClaimFinalization, Row
  <2>10. CASE Seal(w)
    <3>1. row' = row \/ \E v \in Verdict : row' = [row EXCEPT ![s].manifest = v]
      BY <2>10 DEF Seal
    <3>2. ASSUME NEW v \in Verdict, row' = [row EXCEPT ![s].manifest = v] PROVE StatusMoves
      BY <2>1, <3>2, SameMoves DEF Row
    <3> QED BY <3>1, <3>2, SameMoves
  <2>11. CASE row' = row
    BY <2>11, SameMoves
  <2> QED
    BY <1>6, <2>2, <2>3, <2>4, <2>5, <2>7, <2>8, <2>9, <2>10, <2>11
       DEF TryStep, Admitted, Reserve, ReserveWait, Claim, ClaimWait, ReserveTo, StartUnmetered,
           Execute, LaunchCancelled, Launch, EngineReturns, Observe, Route, SettleCancelled, Commit,
           Local, rows
<1>7. ASSUME NEW w \in Worker, CatchStep(w) PROVE StatusMoves
  <2> DEFINE s == cur[w]
  <2>1. s \in Scan
    BY <1>7, CatchGoes
  <2>2. CASE CatchRetry(w)
    BY <2>1, <2>2, <1>3, SetStatusMoves, SameMoves DEF CatchRetry
  <2>3. CASE CatchFail(w)
    BY <2>1, <2>3, <1>2, SetStatusMoves, SameMoves DEF CatchFail
  <2>4. CASE Defer(w)
    BY <2>1, <2>4, <1>3, SetStatusMoves, SameMoves DEF Defer
  <2>5. CASE ResetCapacity(w) \/ DeferClear(w)
    BY <2>1, <2>5, SameMoves DEF ResetCapacity, DeferClear, Row
  <2>6. CASE row' = row
    BY <2>6, SameMoves
  <2> QED
    BY <1>7, <2>2, <2>3, <2>4, <2>5, <2>6
       DEF CatchStep, CatchDurable, CatchCancelled, DeferMove, Local, rows
<1>8. ASSUME NEW w \in Worker, FinallyStep(w) \/ WorkerFault(w) PROVE row' = row
  BY <1>8 DEF FinallyStep, Confirm, ReleaseStopped, FinallyReleases, Acknowledge,
              WorkerFault, Throw, CatchUnreadable, DeferError, FinallyError, WorkerCrash, Local, rows
<1> QED BY <1>4, <1>5, <1>6, <1>7, <1>8, SameMoves DEF Next, WorkerStep

\* A terminal status never changes again: a late worker, a cancellation, the
\* reconciliation and the queue's failure handler all respect it.
THEOREM TerminalStaysTerminal == Spec => TerminalIsFinal
<1>1. ASSUME TypeOK, Next, NEW s \in Scan, Ended(s)
      PROVE  row'[s].status = row[s].status
  <2>1. CASE \E t \in Scan : CreateScan(t)
    <3>1. PICK t \in Scan : CreateScan(t)
      BY <2>1
    <3> QED BY <1>1, <3>1 DEF CreateScan, TypeOK, Row, Ended, Terminal
  <2>2. CASE StatusMoves
    BY <1>1, <2>2 DEF StatusMoves, StatusMove, Next1, Ended, Terminal, Active
  <2> QED BY <1>1, <2>1, <2>2, StatusSteps
<1>2. TypeOK /\ Next => \A s \in Scan : Ended(s) => row'[s].status = row[s].status
  BY <1>1
<1> QED BY <1>2, TypeCorrect, PTL DEF Spec, TerminalIsFinal
-----------------------------------------------------------------------------
(***************************************************************************)
(* A step concerns one scan and leaves the others alone.                   *)
(***************************************************************************)
Elsewhere(t) ==
    \A s \in Scan \ {t} :
        /\ row'[s] = row[s] /\ cap'[s] = cap[s] /\ job'[s] = job[s] /\ duty'[s] = duty[s]
        /\ sandbox'[s] = sandbox[s] /\ runs'[s] = runs[s]
        /\ \A w \in Worker : cur'[w] = s => cur[w] = s

LEMMA Functions ==
    ASSUME TypeOK
    PROVE  /\ row \in [Scan -> Row] /\ cap \in [Scan -> Cap] /\ job \in [Scan -> Job]
           /\ duty \in [Scan -> Duty] /\ sandbox \in [Scan -> SUBSET Worker]
           /\ runs \in [Scan -> Nat] /\ cur \in [Worker -> Scan \cup {NoScan}]
BY DEF TypeOK

LEMMA CallerElsewhere ==
    ASSUME TypeOK, NEW t \in Scan, CallerStep(t)
    PROVE  Elsewhere(t)
<1> USE Functions
<1>1. CASE CreateScan(t)
  BY <1>1 DEF CreateScan, Elsewhere, wk
<1>2. CASE Publish(t) \/ PublishUncertain(t)
  BY <1>2 DEF Publish, PublishUncertain, Elsewhere, rows, wk
<1>3. CASE PublishRefused(t) \/ CancelScan(t)
  BY <1>3 DEF PublishRefused, CancelScan, SetStatus, Elsewhere, wk
<1>4. CASE CallerReleases(t) \/ CallerCrash(t)
  BY <1>4 DEF CallerReleases, ReleaseUnstarted, CallerCrash, Elsewhere, rows, wk
<1> QED BY <1>1, <1>2, <1>3, <1>4, CallerStep(t) DEF CallerStep

LEMMA QueueElsewhere ==
    ASSUME TypeOK, NEW t \in Scan, QueueStep(t)
    PROVE  Elsewhere(t)
<1> USE Functions
<1>1. CASE Stalled(t) \/ RemoveJob(t)
  BY <1>1 DEF Stalled, RemoveJob, Elsewhere, rows, wk
<1>2. CASE FailedEvent(t) \/ ReconcileOrphan(t)
  BY <1>2 DEF FailedEvent, ReconcileOrphan, SetStatus, Elsewhere, wk
<1>3. ASSUME NEW w \in Worker, Deliver(w, t) PROVE Elsewhere(t)
  BY <1>3 DEF Deliver, Elsewhere, rows
<1>4. ASSUME NEW w \in Worker, DeliveryFails(w, t) \/ Deny(w, t) \/ SandboxExits(w, t)
      PROVE  Elsewhere(t)
  BY <1>4 DEF DeliveryFails, Deny, SandboxExits, SetStatus, Elsewhere, rows, wk
<1> QED BY <1>1, <1>2, <1>3, <1>4, QueueStep(t) DEF QueueStep

LEMMA TryElsewhere ==
    ASSUME TypeOK, NEW w \in Worker, TryStep(w)
    PROVE  Elsewhere(cur[w])
<1> USE Functions, TryInHand DEF Elsewhere
<1>1. CASE Resume(w) \/ Prepare(w) \/ Admitted(w)
           \/ Refuse(w, "admit") \/ Refuse(w, "execute") \/ Refuse(w, "returned")
  BY <1>1 DEF Resume, Prepare, Admitted, Refuse, SetStatus, SetStarted, Local
<1>2. CASE Reserve(w) \/ ReserveWait(w) \/ Claim(w) \/ ClaimWait(w) \/ StartUnmetered(w)
  BY <1>2 DEF Reserve, ReserveWait, Claim, ClaimWait, ReserveTo, StartUnmetered
<1>3. CASE BeginRunning(w) \/ Execute(w) \/ EnterBillable(w) \/ LaunchCancelled(w)
           \/ Launch(w) \/ EngineReturns(w) \/ Observe(w) \/ Route(w)
  BY <1>3 DEF BeginRunning, SetStarted, Execute, EnterBillable, LaunchCancelled, Launch,
              EngineReturns, Observe, Route, Local, rows
<1>4. CASE SettleCancelled(w) \/ EarlySeal(w) \/ EarlyFinish(w) \/ BeginVerifying(w)
  BY <1>4 DEF SettleCancelled, EarlySeal, EarlyFinish, BeginVerifying, SetStatus
<1>5. CASE ClaimFinalization(w) \/ Seal(w) \/ Finish(w) \/ Commit(w)
  BY <1>5 DEF ClaimFinalization, Seal, Finish, Commit, SetStatus
<1> QED BY <1>1, <1>2, <1>3, <1>4, <1>5, TryStep(w) DEF TryStep

LEMMA CatchElsewhere ==
    ASSUME TypeOK, NEW w \in Worker, CatchStep(w)
    PROVE  Elsewhere(cur[w])
<1> USE Functions, CatchGoes DEF Elsewhere
<1>1. CASE CatchDurable(w) \/ CatchCancelled(w) \/ CatchRetry(w) \/ CatchFail(w) \/ ResetCapacity(w)
  BY <1>1 DEF CatchDurable, CatchCancelled, CatchRetry, CatchFail, ResetCapacity, SetStatus, Local
<1>2. CASE Defer(w) \/ DeferClear(w) \/ DeferMove(w)
  BY <1>2 DEF Defer, DeferClear, DeferMove, SetStatus, rows
<1> QED BY <1>1, <1>2, CatchStep(w) DEF CatchStep

LEMMA FinallyElsewhere ==
    ASSUME TypeOK, NEW w \in Worker, FinallyStep(w) \/ WorkerFault(w)
    PROVE  Elsewhere(cur[w])
<1> USE Functions, NoneAssumption DEF Elsewhere
<1>1. CASE Confirm(w) \/ ReleaseStopped(w) \/ FinallyReleases(w)
  BY <1>1 DEF Confirm, ReleaseStopped, FinallyReleases, ReleaseUnstarted, rows
<1>2. CASE Acknowledge(w) \/ WorkerCrash(w)
  BY <1>2 DEF Acknowledge, WorkerCrash, rows, NoneAssumption
<1>3. CASE Throw(w) \/ CatchUnreadable(w) \/ DeferError(w) \/ FinallyError(w)
  BY <1>3 DEF Throw, CatchUnreadable, DeferError, FinallyError, Local
<1> QED BY <1>1, <1>2, <1>3 DEF FinallyStep, WorkerFault

\* A step concerns an admitted scan, or admits one.
LEMMA StepOfAdmitted ==
    ASSUME TypeOK, AbsentIsUntouched, Next
    PROVE  \E t \in Scan : Elsewhere(t) /\ (Created(t) \/ CreateScan(t))
<1>1. ASSUME NEW t \in Scan, CallerStep(t) PROVE Created(t) \/ CreateScan(t)
  BY <1>1, MovesToStatus DEF CallerStep, Publish, PublishUncertain, PublishRefused, CancelScan,
          CancelAllowed, CallerReleases, CallerCrash, AbsentIsUntouched
<1>2. ASSUME NEW t \in Scan, QueueStep(t) PROVE Created(t)
  BY <1>2 DEF QueueStep, Stalled, FailedEvent, ReconcileOrphan, RemoveJob, Deliver,
              DeliveryFails, Deny, SandboxExits, AbsentIsUntouched, Created, Active
<1>3. ASSUME NEW w \in Worker, cur[w] \in Scan PROVE Created(cur[w])
  BY <1>3 DEF AbsentIsUntouched
<1>4. ASSUME NEW w \in Worker, FinallyStep(w) \/ WorkerFault(w) PROVE cur[w] \in Scan
  BY <1>4 DEF FinallyStep, Confirm, ReleaseStopped, FinallyReleases, Acknowledge,
              WorkerFault, Throw, CatchUnreadable, DeferError, FinallyError, WorkerCrash, At
<1>5. ASSUME NEW w \in Worker, WorkerStep(w) \/ WorkerFault(w)
      PROVE  cur[w] \in Scan /\ Elsewhere(cur[w])
  BY <1>4, <1>5, TryInHand, CatchGoes, TryElsewhere, CatchElsewhere, FinallyElsewhere
     DEF WorkerStep
<1> QED BY <1>1, <1>2, <1>3, <1>5, CallerElsewhere, QueueElsewhere DEF Next

LEMMA AbsentStep ==
    ASSUME TypeOK, AbsentIsUntouched, Next
    PROVE  AbsentIsUntouched'
<1>1. PICK t \in Scan : Elsewhere(t) /\ (Created(t) \/ CreateScan(t))
  BY StepOfAdmitted
<1>2. ASSUME Created(t) PROVE Created(t)'
  <2>1. CASE StatusMoves
    BY <1>2, <2>1 DEF StatusMoves, StatusMove, Created, Next1
  <2>2. ASSUME NEW s \in Scan, CreateScan(s) PROVE Created(t)'
    BY <1>2, <2>2, Functions DEF CreateScan, Created, Row
  <2> QED BY <2>1, <2>2, StatusSteps
<1>3. ASSUME CreateScan(t) PROVE Created(t)'
  BY <1>3, Functions DEF CreateScan, Created, Row
<1>4. ASSUME NEW s \in Scan, ~Created(s)'
      PROVE  s # t /\ ~Created(s)
  BY <1>1, <1>2, <1>3, <1>4 DEF Elsewhere, Created
<1> QED BY <1>1, <1>4 DEF AbsentIsUntouched, Elsewhere
-----------------------------------------------------------------------------
(***************************************************************************)
(* The slot names the unsettled scan.                                      *)
(***************************************************************************)
\* What every step but the admission and the releases leaves alone.
KeepsSlots == slot' = slot /\ \A s \in Scan : cap'[s].settled = cap[s].settled

LEMMA KeepsByCap ==
    ASSUME cap \in [Scan -> Cap], slot' = slot, cap' = cap
    PROVE  KeepsSlots
BY DEF KeepsSlots

LEMMA SlotSteps ==
    ASSUME TypeOK, Next
    PROVE  \/ KeepsSlots
           \/ \E s \in Scan : CreateScan(s) \/ (ReleaseUnstarted(s) /\ row' = row)
           \/ \E w \in Worker : ReleaseStopped(w)
<1> USE Functions
<1>1. ASSUME NEW s \in Scan, CallerStep(s), ~CreateScan(s), ~CallerReleases(s) PROVE KeepsSlots
  BY <1>1, KeepsByCap DEF CallerStep, Publish, PublishUncertain, PublishRefused, CancelScan,
                          CallerCrash, rows
<1>2. ASSUME NEW s \in Scan, QueueStep(s) PROVE KeepsSlots
  BY <1>2, KeepsByCap DEF QueueStep, Stalled, FailedEvent, ReconcileOrphan, RemoveJob, Deliver,
                          DeliveryFails, Deny, SandboxExits, rows
<1>3. ASSUME NEW w \in Worker, TryStep(w) PROVE KeepsSlots
  <2>1. slot' = slot /\ cur[w] \in Scan
    BY <1>3, TryKeeps, TryInHand
  <2>2. CASE Reserve(w) \/ ReserveWait(w) \/ Claim(w) \/ ClaimWait(w) \/ StartUnmetered(w)
    BY <2>1, <2>2 DEF Reserve, ReserveWait, Claim, ClaimWait, ReserveTo, StartUnmetered,
                      KeepsSlots, Cap
  <2>3. CASE SettleCancelled(w) \/ Commit(w)
    BY <2>1, <2>3 DEF SettleCancelled, Commit, KeepsSlots, Cap
  <2>4. CASE cap' = cap
    BY <2>1, <2>4, KeepsByCap
  <2> QED
    BY <1>3, <2>2, <2>3, <2>4
       DEF TryStep, Resume, Prepare, Admitted, Refuse, BeginRunning, Execute, EnterBillable,
           LaunchCancelled, Launch, EngineReturns, Observe, Route, EarlySeal, EarlyFinish,
           BeginVerifying, ClaimFinalization, Seal, Finish, Local, rows
<1>4. ASSUME NEW w \in Worker, CatchStep(w) PROVE KeepsSlots
  <2>1. slot' = slot /\ cur[w] \in Scan
    BY <1>4, CatchKeeps, CatchGoes
  <2>2. CASE ResetCapacity(w)
    BY <2>1, <2>2 DEF ResetCapacity, KeepsSlots, Cap
  <2>3. CASE cap' = cap
    BY <2>1, <2>3, KeepsByCap
  <2> QED BY <1>4, <2>2, <2>3 DEF CatchStep, CatchDurable, CatchCancelled, CatchRetry, CatchFail,
                                  Defer, DeferClear, DeferMove, Local, rows
<1>5. ASSUME NEW w \in Worker, FinallyStep(w), ~ReleaseStopped(w), ~FinallyReleases(w)
      PROVE  KeepsSlots
  <2>1. CASE Confirm(w)
    <3>1. slot' = slot /\ cur[w] \in Scan
      BY <2>1 DEF Confirm, At
    <3>2. cap' = cap \/ \E st : cap' = [cap EXCEPT ![cur[w]].state = st, ![cur[w]].stopped = TRUE]
      BY <2>1 DEF Confirm
    <3>3. ASSUME NEW st, cap' = [cap EXCEPT ![cur[w]].state = st, ![cur[w]].stopped = TRUE]
          PROVE  KeepsSlots
      BY <3>1, <3>3 DEF KeepsSlots, Cap
    <3> QED BY <3>1, <3>2, <3>3, KeepsByCap
  <2>2. CASE Acknowledge(w)
    BY <2>2, KeepsByCap DEF Acknowledge, rows
  <2> QED BY <1>5, <2>1, <2>2 DEF FinallyStep
<1>6. ASSUME NEW w \in Worker, WorkerFault(w) PROVE KeepsSlots
  BY <1>6, KeepsByCap DEF WorkerFault, Throw, CatchUnreadable, DeferError, FinallyError,
                          WorkerCrash, Local, rows
<1>7. ASSUME NEW s \in Scan, CallerReleases(s) PROVE ReleaseUnstarted(s) /\ row' = row
  BY <1>7 DEF CallerReleases
<1>8. ASSUME NEW w \in Worker, FinallyReleases(w)
      PROVE  cur[w] \in Scan /\ ReleaseUnstarted(cur[w]) /\ row' = row
  BY <1>8 DEF FinallyReleases, At
<1> QED BY <1>1, <1>2, <1>3, <1>4, <1>5, <1>6, <1>7, <1>8 DEF Next, WorkerStep

\* Settling a scan and freeing its slot together keeps the correspondence.
LEMMA FreeSlot ==
    ASSUME slot \in [User -> Scan \cup {NoScan}], SlotIsUnsettledScan, row' = row,
           NEW s \in Scan, Created(s),
           \A t \in Scan : cap'[t].settled <=> (t = s \/ cap[t].settled),
           slot' = [slot EXCEPT ![Owner[s]] = IF @ = s THEN NoScan ELSE @]
    PROVE  SlotIsUnsettledScan'
BY OwnerAssumption, NoneAssumption
   DEF SlotIsUnsettledScan, Created, OwnerAssumption, NoneAssumption

LEMMA SlotStep ==
    ASSUME TypeOK, AbsentIsUntouched, SlotIsUnsettledScan, Next
    PROVE  SlotIsUnsettledScan'
<1> USE Functions, OwnerAssumption, NoneAssumption
<1>0. slot \in [User -> Scan \cup {NoScan}]
  BY DEF TypeOK
<1>1. ASSUME NEW t \in Scan, CreateScan(t) PROVE SlotIsUnsettledScan'
  BY <1>0, <1>1 DEF CreateScan, SlotFree, SlotIsUnsettledScan, AbsentIsUntouched, Created,
               Row, Cap, OwnerAssumption, NoneAssumption
<1>2. ASSUME NEW t \in Scan, ReleaseUnstarted(t), row' = row PROVE SlotIsUnsettledScan'
  <2>1. Created(t) \/ ~UnstartedReleasable(t)
    BY DEF UnstartedReleasable, Created
  <2> QED BY <1>0, <1>2, <2>1 DEF ReleaseUnstarted, SlotIsUnsettledScan, Created, Cap,
                                  OwnerAssumption, NoneAssumption
<1>3. ASSUME NEW w \in Worker, ReleaseStopped(w) PROVE SlotIsUnsettledScan'
  <2>1. cur[w] \in Scan /\ Created(cur[w]) /\ row' = row
    BY <1>3 DEF ReleaseStopped, At, AbsentIsUntouched
  <2> DEFINE s == cur[w]
  <2>2. CASE StoppedReleasable(s)
    <3>1. cap' = [cap EXCEPT ![s].settled = TRUE]
      BY <1>3, <2>2 DEF ReleaseStopped
    <3>2. slot' = [slot EXCEPT ![Owner[s]] = IF @ = s THEN NoScan ELSE @]
      BY <1>3, <2>2 DEF ReleaseStopped
    <3>3. \A t \in Scan : cap'[t].settled <=> (t = s \/ cap[t].settled)
      BY <2>1, <3>1 DEF Cap
    <3> QED BY <1>0, <2>1, <3>2, <3>3, FreeSlot
  <2>3. CASE ~StoppedReleasable(s)
    BY <1>3, <2>1, <2>3 DEF ReleaseStopped, SlotIsUnsettledScan, Created
  <2> QED BY <2>2, <2>3
<1>4. ASSUME KeepsSlots, StatusMoves PROVE SlotIsUnsettledScan'
  <2>1. \A s \in Scan : Created(s)' <=> Created(s)
    BY <1>4 DEF StatusMoves, StatusMove, Created, Next1, Active
  <2> QED BY <1>4, <2>1 DEF KeepsSlots, SlotIsUnsettledScan
<1> QED BY <1>1, <1>2, <1>3, <1>4, SlotSteps, StatusSteps

\* In every reachable state, for any number of scans and users and whatever faults
\* strike, a user's slot names a scan exactly while that scan is unsettled.
THEOREM SlotCorrect == Spec => []SlotIsUnsettledScan
<1> DEFINE Inv == TypeOK /\ JobBounds /\ AbsentIsUntouched /\ SlotIsUnsettledScan
<1>1. Init => Inv
  BY InitTyped, OwnerAssumption, NoneAssumption
     DEF Init, SlotIsUnsettledScan, Created, OwnerAssumption, NoneAssumption
<1>2. Inv /\ [Next]_vars => Inv'
  <2>1. CASE Next
    BY <2>1, TypeStep, AbsentStep, SlotStep
  <2>2. CASE UNCHANGED vars
    BY <2>2, TypeStep DEF vars, AbsentIsUntouched, SlotIsUnsettledScan, Created
  <2> QED BY <2>1, <2>2
<1> QED BY <1>1, <1>2, PTL DEF Spec
=============================================================================

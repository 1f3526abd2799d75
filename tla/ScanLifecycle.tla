---------------------------- MODULE ScanLifecycle ----------------------------
(***************************************************************************)
(* The life of a security review ("scan") from its admission to the        *)
(* release of its initiating user's slot: the Scan row, the UserScanSlot   *)
(* and ScanCapacityReservation rows, the BullMQ job, the web request that  *)
(* creates or cancels it, the worker that runs it and the reconciliation   *)
(* that repairs drift between the queue and the database.                  *)
(*                                                                         *)
(* One action is one database transaction (or one queue command, or one    *)
(* boundary of the engine's execution); between two of them every other    *)
(* actor may move.  How many minutes are funded is left to CapacityFunding;*)
(* here a reservation attempt is funded or told to wait.                   *)
(*                                                                         *)
(* A definition named Slip... is not part of the model: it is a plausible  *)
(* mistake in the definition after it, kept to show that a property would  *)
(* notice (README, "Sensitivity").                                         *)
(***************************************************************************)
EXTENDS Integers, FiniteSets

CONSTANTS
    Scan, User, Target, Worker,
    Owner,              \* [Scan -> User], Scan.createdById
    TargetOf,           \* [Scan -> Target]
    EngineScan,         \* the scans whose stored plan has the engine capability
    MaxWorkspaceScans,  \* MAX_CONCURRENT_WORKSPACE_SCANS
    MaxAttempts,        \* BullMQ attempts of a scan job
    MaxStalled,         \* BullMQ maxStalledCount
    Faults,             \* which misfortunes this instance admits
    NoScan, NoWorker

\* crash: a worker or caller process dies.  error: infrastructure exceptions.
\* deny: a job contradicts its scan row.  unproven: sandbox removal not verified.
\* lostLock: a live worker's job lock expires.  lateUnwind: a worker that deferred
\* its job is still in its finally block when the delay is over.
FaultKinds == {"crash", "error", "deny", "unproven", "lostLock", "lateUnwind"}

ASSUME OwnerAssumption  == Owner \in [Scan -> User] /\ TargetOf \in [Scan -> Target]
ASSUME EngineAssumption == EngineScan \subseteq Scan
ASSUME BoundAssumption  == /\ MaxWorkspaceScans \in Nat /\ MaxAttempts \in Nat \ {0}
                           /\ MaxStalled \in Nat
ASSUME NoneAssumption   == NoScan \notin Scan /\ NoWorker \notin Worker
ASSUME FaultAssumption  == Faults \subseteq FaultKinds

VARIABLES
    row,      \* per scan: status, started (startedAt), claim (finalizationStartedAt),
              \* boundary (billable_boundary event), manifest (its sealed outcome)
    cap,      \* per scan: reservation state, stopped (stoppedAt), receipt
              \* (the UsageRecord), settled (Scan.accountingSettledAt)
    slot,     \* per user: the scan in UserScanSlot
    job,      \* per scan: queue state, owner (lock token), attempts, stalls
    duty,     \* per scan: what a caller still owes: submitting, releasing, failing
    sandbox,  \* per scan: the workers whose engine container is executing
    runs,     \* per scan: provider executions started
    pc, cur, mem   \* per worker: next step, scan in hand, locals of processScanJob

rows == <<row, cap, slot>>
wk   == <<pc, cur, mem>>
vars == <<row, cap, slot, job, duty, sandbox, runs, pc, cur, mem>>
-----------------------------------------------------------------------------
(***************************************************************************)
(* Types                                                                   *)
(***************************************************************************)
Active   == {"QUEUED", "PREFLIGHT", "RUNNING", "VERIFYING"}
Terminal == {"COMPLETED", "PARTIAL", "FAILED", "CANCELLED", "STOPPED_BUDGET"}
Status   == Active \cup Terminal \cup {"ABSENT"}

SlipNext1(from) ==   \* a finished scan can still be failed
    CASE from = "QUEUED"    -> {"PREFLIGHT", "CANCELLED", "FAILED"}
      [] from = "PREFLIGHT" -> {"PREFLIGHT", "RUNNING", "FAILED", "CANCELLED"}
      [] from = "RUNNING"   -> {"PREFLIGHT", "VERIFYING", "FAILED", "CANCELLED",
                                "STOPPED_BUDGET"}
      [] from = "VERIFYING" -> {"PREFLIGHT"} \cup Terminal
      [] from = "ABSENT"    -> {}
      [] OTHER -> {"FAILED"}

Next1(from) ==   \* VALID_TRANSITIONS, without the statuses no code path sets
    CASE from = "QUEUED"    -> {"PREFLIGHT", "CANCELLED", "FAILED"}
      [] from = "PREFLIGHT" -> {"PREFLIGHT", "RUNNING", "FAILED", "CANCELLED"}
      [] from = "RUNNING"   -> {"PREFLIGHT", "VERIFYING", "FAILED", "CANCELLED",
                                "STOPPED_BUDGET"}
      [] from = "VERIFYING" -> {"PREFLIGHT", "COMPLETED", "PARTIAL", "FAILED",
                                "CANCELLED", "STOPPED_BUDGET"}
      [] OTHER -> {}
CanMove(s, to) == to \in Next1(row[s].status)

CapState == {"NONE", "WAITING", "RESERVED", "RUNNING", "SETTLED", "RELEASED",
             "REVIEW_REQUIRED"}
Unclaimed == {"WAITING", "RESERVED"}
Verdict   == {"COMPLETED", "PARTIAL", "FAILED", "STOPPED_BUDGET"}

Row  == [status : Status, started : BOOLEAN, claim : BOOLEAN, boundary : BOOLEAN,
         manifest : Verdict \cup {"NONE"}]
Cap  == [state : CapState, stopped : BOOLEAN, receipt : BOOLEAN, settled : BOOLEAN]
Job  == [state : {"none", "ready", "active", "failed", "completed"},
         owner : Worker \cup {NoWorker}, attempts : 0..MaxAttempts,
         stalls : 0..(MaxStalled + 1)]
Duty == [submitting : BOOLEAN, releasing : BOOLEAN, failing : BOOLEAN]
Mem  == [recovering : BOOLEAN, billable : BOOLEAN, returned : BOOLEAN,
         unbilled : BOOLEAN, disp : {"unset", "nonbillable", "settlement_required"},
         durable : BOOLEAN, result : {"return", "throw", "delayed"}]
PC   == {"idle", "resume", "prepare", "admit", "reserve", "run", "execute", "claim",
         "boundary", "launch", "engine", "returned", "route", "settleCancel", "earlySeal",
         "earlyFinish", "verify", "finalize", "seal", "finish", "commit", "catch",
         "reset", "defer", "deferClear", "deferMove", "confirm", "releaseStopped",
         "releaseUnstarted", "ack"}

FreshMem(recovering) ==
    [recovering |-> recovering, billable |-> FALSE, returned |-> FALSE,
     unbilled |-> TRUE, disp |-> "unset", durable |-> FALSE, result |-> "return"]

TypeOK ==
    /\ row \in [Scan -> Row]
    /\ cap \in [Scan -> Cap]
    /\ slot \in [User -> Scan \cup {NoScan}]
    /\ job \in [Scan -> Job]
    /\ duty \in [Scan -> Duty]
    /\ sandbox \in [Scan -> SUBSET Worker]
    /\ runs \in [Scan -> Nat]
    /\ pc \in [Worker -> PC]
    /\ cur \in [Worker -> Scan \cup {NoScan}]
    /\ mem \in [Worker -> Mem]
    /\ \A w \in Worker : pc[w] = "idle" <=> cur[w] = NoScan

Init ==
    /\ row = [s \in Scan |-> [status |-> "ABSENT", started |-> FALSE, claim |-> FALSE,
                              boundary |-> FALSE, manifest |-> "NONE"]]
    /\ cap = [s \in Scan |-> [state |-> "NONE", stopped |-> FALSE, receipt |-> FALSE,
                              settled |-> FALSE]]
    /\ slot = [u \in User |-> NoScan]
    /\ job = [s \in Scan |-> [state |-> "none", owner |-> NoWorker, attempts |-> 0,
                              stalls |-> 0]]
    /\ duty = [s \in Scan |-> [submitting |-> FALSE, releasing |-> FALSE,
                               failing |-> FALSE]]
    /\ sandbox = [s \in Scan |-> {}]
    /\ runs = [s \in Scan |-> 0]
    /\ pc = [w \in Worker |-> "idle"]
    /\ cur = [w \in Worker |-> NoScan]
    /\ mem = [w \in Worker |-> FreshMem(FALSE)]
-----------------------------------------------------------------------------
(***************************************************************************)
(* Shared helpers                                                          *)
(***************************************************************************)
Fault(f) == f \in Faults
Holding(s) == {w \in Worker : cur[w] = s}
Exclusive == ~Fault("lostLock") /\ ~Fault("lateUnwind")
InitialCap(s) == IF s \in EngineScan THEN "WAITING" ELSE "RESERVED"
Executable == {"QUEUED", "PREFLIGHT", "RUNNING"}

\* The billable settlement keeps the account's advisory lock until it commits.
Metering(s) == \E w \in Worker : /\ cur[w] = s
                                 /\ pc[w] \in {"finish", "commit"}
                                 /\ mem[w].disp = "settlement_required"

SetStatus(s, to) == row' = [row EXCEPT ![s].status = to]

\* updateScanStatus to PREFLIGHT or RUNNING stamps startedAt.
SetStarted(s, to) == row' = [row EXCEPT ![s].status = to, ![s].started = TRUE]

Go(w, step) == pc' = [pc EXCEPT ![w] = step]

\* A worker step that only changes the worker's own position.
Local == UNCHANGED <<row, cap, slot, job, duty, sandbox, runs, cur>>

At(w, step) == cur[w] \in Scan /\ pc[w] = step
-----------------------------------------------------------------------------
(***************************************************************************)
(* The web request                                                         *)
(***************************************************************************)
\* Only an active review would refuse the next one, not an unsettled one.
SlipSlotFree(s) == \A t \in Scan : Owner[t] = Owner[s] => row[t].status \notin Active

SlotFree(s) == slot[Owner[s]] = NoScan
TargetFree(s) == \A t \in Scan : TargetOf[t] = TargetOf[s] => row[t].status \notin Active
WorkspaceHasRoom == Cardinality({t \in Scan : row[t].status \in Active}) < MaxWorkspaceScans

\* createScan: slot, workspace and target checks, scan row, slot and reservation
\* in one transaction; the route then owes the queue publication.
CreateScan(s) ==
    /\ row[s].status = "ABSENT"
    /\ SlotFree(s) /\ WorkspaceHasRoom /\ TargetFree(s)
    /\ row' = [row EXCEPT ![s].status = "QUEUED"]
    /\ slot' = [slot EXCEPT ![Owner[s]] = s]
    /\ cap' = [cap EXCEPT ![s].state = InitialCap(s)]
    /\ duty' = [duty EXCEPT ![s].submitting = TRUE]
    /\ UNCHANGED <<job, sandbox, runs, wk>>

\* enqueueScan: the job reaches Redis ...
Publish(s) ==
    /\ duty[s].submitting /\ job[s].state = "none"
    /\ job' = [job EXCEPT ![s].state = "ready"]
    /\ duty' = [duty EXCEPT ![s].submitting = FALSE]
    /\ UNCHANGED <<rows, sandbox, runs, wk>>

\* ... or its acknowledgement is uncertain and it never did: the scan stays QUEUED.
PublishUncertain(s) ==
    /\ duty[s].submitting
    /\ duty' = [duty EXCEPT ![s].submitting = FALSE]
    /\ UNCHANGED <<rows, job, sandbox, runs, wk>>

\* A refused publication fails the scan and then releases what it holds; the
\* status write throws, and the release with it, when a cancellation came first.
PublishRefused(s) ==
    /\ duty[s].submitting
    /\ IF CanMove(s, "FAILED")
       THEN /\ SetStatus(s, "FAILED")
            /\ duty' = [duty EXCEPT ![s].submitting = FALSE, ![s].releasing = TRUE]
       ELSE /\ duty' = [duty EXCEPT ![s].submitting = FALSE]
            /\ UNCHANGED row
    /\ UNCHANGED <<cap, slot, job, sandbox, runs, wk>>

CancelAllowed(s) == CanMove(s, "CANCELLED") /\ ~row[s].claim

\* The route would leave the release to the worker.
SlipCancelScan(s) ==
    /\ CancelAllowed(s)
    /\ SetStatus(s, "CANCELLED")
    /\ UNCHANGED <<cap, slot, job, duty, sandbox, runs, wk>>

\* cancelScan: the guarded status write, then a release in a second transaction.
CancelScan(s) ==
    /\ CancelAllowed(s)
    /\ SetStatus(s, "CANCELLED")
    /\ duty' = [duty EXCEPT ![s].releasing = TRUE]
    /\ UNCHANGED <<cap, slot, job, sandbox, runs, wk>>

SlipUnstartedReleasable(s) == cap[s].state \in Unclaimed   \* also of a queued scan

UnstartedReleasable(s) == /\ row[s].status \in {"CANCELLED", "FAILED"}
                          /\ cap[s].state \in Unclaimed

\* releaseUnstartedScanSlot: what it writes, whoever calls it.
ReleaseUnstarted(s) ==
    /\ ~Metering(s)
    /\ IF UnstartedReleasable(s)
       THEN /\ cap' = [cap EXCEPT ![s].state = "RELEASED", ![s].stopped = TRUE,
                                  ![s].settled = TRUE]
            /\ slot' = [slot EXCEPT ![Owner[s]] = IF @ = s THEN NoScan ELSE @]
       ELSE UNCHANGED <<cap, slot>>

CallerReleases(s) ==
    /\ duty[s].releasing
    /\ ReleaseUnstarted(s)
    /\ duty' = [duty EXCEPT ![s].releasing = FALSE]
    /\ UNCHANGED <<row, job, sandbox, runs, wk>>

\* The process that owes the publication, the release or the event handler dies.
CallerCrash(s) ==
    /\ Fault("crash")
    /\ \E d \in {"submitting", "releasing", "failing"} :
         duty[s][d] /\ duty' = [duty EXCEPT ![s][d] = FALSE]
    /\ UNCHANGED <<rows, job, sandbox, runs, wk>>
-----------------------------------------------------------------------------
(***************************************************************************)
(* The queue and its reconciliation                                        *)
(***************************************************************************)
\* BullMQ delivers the job; verifyScanJobAuthority reads startedAt.  A deferred
\* job waits five seconds, by when its former worker is normally done.
Deliver(w, s) ==
    /\ pc[w] = "idle" /\ job[s].state = "ready"
    /\ Exclusive => Holding(s) = {}
    /\ job' = [job EXCEPT ![s].state = "active", ![s].owner = w]
    /\ cur' = [cur EXCEPT ![w] = s]
    /\ mem' = [mem EXCEPT ![w] = FreshMem(row[s].started)]
    /\ Go(w, "resume")
    /\ UNCHANGED <<rows, duty, sandbox, runs>>

\* The row cannot be read: the throw precedes the try block, so nothing of the
\* scan is touched and no finally block runs; BullMQ counts the attempt.
DeliveryFails(w, s) ==
    LET last == job[s].attempts + 1 >= MaxAttempts IN
    /\ Fault("error")
    /\ pc[w] = "idle" /\ job[s].state = "ready"
    /\ Exclusive => Holding(s) = {}
    /\ job' = [job EXCEPT ![s].state = IF last THEN "failed" ELSE "ready",
                          ![s].attempts = @ + 1]
    /\ duty' = [duty EXCEPT ![s].failing = @ \/ last]
    /\ UNCHANGED <<rows, sandbox, runs, wk>>

\* The stored row contradicts the job or its plan: FAILED, and no finally block.
Deny(w, s) ==
    /\ Fault("deny")
    /\ pc[w] = "idle" /\ job[s].state = "ready" /\ Holding(s) = {}
    /\ IF CanMove(s, "FAILED") THEN SetStatus(s, "FAILED") ELSE UNCHANGED row
    /\ job' = [job EXCEPT ![s].state = "completed"]
    /\ UNCHANGED <<cap, slot, duty, sandbox, runs, wk>>

\* The stalled check finds an active job whose lock expired: its worker died or,
\* under "lostLock", is alive but could not renew.
LockLapsed(s) == job[s].owner = NoWorker \/ Fault("lostLock")

SlipMayStall(s) == job[s].stalls <= MaxStalled   \* once too often

MayStall(s) == job[s].stalls < MaxStalled

Stalled(s) ==
    /\ job[s].state = "active" /\ LockLapsed(s)
    /\ job' = [job EXCEPT ![s].state = IF MayStall(s) THEN "ready" ELSE "failed",
                          ![s].owner = NoWorker, ![s].stalls = @ + 1]
    /\ UNCHANGED <<rows, duty, sandbox, runs, wk>>

\* reconcileFailedQueueJob, from the worker's "failed" event of the last attempt.
FailedEvent(s) ==
    /\ duty[s].failing
    /\ duty' = [duty EXCEPT ![s].failing = FALSE]
    /\ IF CanMove(s, "FAILED") THEN SetStatus(s, "FAILED") ELSE UNCHANGED row
    /\ UNCHANGED <<cap, slot, job, sandbox, runs, wk>>

SlipProcessable(s) == job[s].state # "none"   \* any job that still exists

Processable(s) == job[s].state \in {"ready", "active"}

\* reconcileOrphanedScanCandidate: five minutes without an update and no
\* processable job.  The producer's deadline is far shorter than the grace.
ReconcileOrphan(s) ==
    /\ row[s].status \in Active
    /\ ~Processable(s)
    /\ ~duty[s].submitting
    /\ SetStatus(s, "FAILED")
    /\ duty' = [duty EXCEPT ![s].releasing = TRUE]
    /\ UNCHANGED <<cap, slot, job, sandbox, runs, wk>>

\* The second half of reconcileScanQueue drops queued jobs of finished scans.
RemoveJob(s) ==
    /\ job[s].state = "ready" /\ row[s].status \notin Active
    /\ job' = [job EXCEPT ![s].state = "none"]
    /\ UNCHANGED <<rows, duty, sandbox, runs, wk>>
-----------------------------------------------------------------------------
(***************************************************************************)
(* processScanJob: the try block                                           *)
(***************************************************************************)
\* An early return of the try block, and an exception thrown inside it.
ReturnTo(w) == Go(w, "confirm")
ThrowTo(w)  == Go(w, "catch")

\* resumePendingScanFinalization.  Its reads and its one status write are one
\* action: a change in between makes the write throw, which Throw also gives.
HasResult(s)   == row[s].status \in {"FAILED", "COMPLETED", "PARTIAL"}
Interrupted(s) == row[s].status \in {"RUNNING", "VERIFYING"}
ResumesTo(s, to) ==
    \/ HasResult(s) /\ to = row[s].status
    \/ /\ Interrupted(s) /\ row[s].manifest # "NONE" /\ CanMove(s, row[s].manifest)
       /\ to = row[s].manifest
    \/ Interrupted(s) /\ row[s].manifest = "NONE" /\ row[s].boundary /\ to = "FAILED"

Resume(w) ==
    LET s == cur[w] IN
    /\ At(w, "resume")
    /\ IF \E to \in Status : ResumesTo(s, to)
       THEN /\ \E to \in Status : ResumesTo(s, to) /\ SetStatus(s, to)
            /\ mem' = [mem EXCEPT ![w].recovering = TRUE]
            /\ ReturnTo(w)
       ELSE Go(w, "prepare") /\ UNCHANGED <<row, mem>>
    /\ UNCHANGED <<cap, slot, job, duty, sandbox, runs, cur>>

\* prepareScanExecution starts with the PREFLIGHT write ...
Prepare(w) ==
    LET s == cur[w] IN
    /\ At(w, "prepare")
    /\ IF CanMove(s, "PREFLIGHT")
       THEN SetStarted(s, "PREFLIGHT") /\ Go(w, "admit")
       ELSE ThrowTo(w) /\ UNCHANGED row
    /\ UNCHANGED <<cap, slot, job, duty, sandbox, runs, cur, mem>>

\* ... and it or verifyScanAdmission may refuse the scan, which becomes FAILED.
Admitted(w) == At(w, "admit") /\ Go(w, "reserve") /\ Local /\ UNCHANGED mem

Refuse(w, from) ==
    LET s == cur[w] IN
    /\ At(w, from)
    /\ IF CanMove(s, "FAILED")
       THEN SetStatus(s, "FAILED") /\ ReturnTo(w)
       ELSE ThrowTo(w) /\ UNCHANGED row
    /\ UNCHANGED <<cap, slot, job, duty, sandbox, runs, cur, mem>>

\* reserveScanCapacity: only an unclaimed reservation of an executable scan is
\* funded or put back to WAITING; anything else throws.
MayReserve(s) == row[s].status \in Executable /\ cap[s].state \in Unclaimed

\* prepareScanCapacity of an engine scan, then the claim right before the engine.
ReserveTo(w, from, state, step) ==
    LET s == cur[w] IN
    /\ At(w, from) /\ s \in EngineScan /\ ~Metering(s)
    /\ \/ /\ MayReserve(s)
          /\ cap' = [cap EXCEPT ![s].state = state]
          /\ Go(w, step)
       \/ ~MayReserve(s) /\ ThrowTo(w) /\ UNCHANGED cap
    /\ UNCHANGED <<row, slot, job, duty, sandbox, runs, cur, mem>>

Reserve(w)      == ReserveTo(w, "reserve", "RESERVED", "run")
ReserveWait(w)  == ReserveTo(w, "reserve", "WAITING", "defer")
Claim(w)        == ReserveTo(w, "claim", "RUNNING", "boundary")
ClaimWait(w)    == ReserveTo(w, "claim", "WAITING", "defer")

\* startUnmeteredScanCapacity of a deterministic scan.
StartUnmetered(w) ==
    LET s == cur[w] IN
    /\ At(w, "reserve") /\ s \notin EngineScan
    /\ IF row[s].status \in Executable /\ cap[s].state = "RESERVED"
       THEN cap' = [cap EXCEPT ![s].state = "RUNNING"] /\ Go(w, "run")
       ELSE ThrowTo(w) /\ UNCHANGED cap
    /\ UNCHANGED <<row, slot, job, duty, sandbox, runs, cur, mem>>

BeginRunning(w) ==
    LET s == cur[w] IN
    /\ At(w, "run")
    /\ IF CanMove(s, "RUNNING")
       THEN SetStarted(s, "RUNNING") /\ Go(w, "execute")
       ELSE ThrowTo(w) /\ UNCHANGED row
    /\ UNCHANGED <<cap, slot, job, duty, sandbox, runs, cur, mem>>

\* executeScanTarget before the provider: a forced cancellation check, the
\* refusals that finalizeExecutionDenial turns into FAILED (Refuse), or go on.
\* The deterministic tier has no engine: its executor has returned.
Execute(w) ==
    LET s == cur[w] IN
    /\ At(w, "execute")
    /\ IF s \in EngineScan
       THEN /\ IF row[s].status = "CANCELLED" THEN ReturnTo(w) ELSE Go(w, "claim")
            /\ UNCHANGED mem
       ELSE /\ mem' = [mem EXCEPT ![w].returned = TRUE]
            /\ Go(w, "returned")
    /\ Local

\* enterEngineBillablePhase: the durable boundary event, then the local mark.
EnterBillable(w) ==
    LET s == cur[w] IN
    /\ At(w, "boundary")
    /\ row' = [row EXCEPT ![s].boundary = TRUE]
    /\ mem' = [mem EXCEPT ![w].billable = TRUE]
    /\ Go(w, "launch")
    /\ UNCHANGED <<cap, slot, job, duty, sandbox, runs, cur>>

\* runEngine asks for a cancellation once more and returns without a sandbox ...
LaunchCancelled(w) ==
    /\ At(w, "launch") /\ row[cur[w]].status = "CANCELLED"
    /\ Go(w, "settleCancel")
    /\ Local /\ UNCHANGED mem

\* ... or starts the container; the polled answer may be two seconds old.
Launch(w) ==
    LET s == cur[w] IN
    /\ At(w, "launch")
    /\ sandbox' = [sandbox EXCEPT ![s] = @ \cup {w}]
    /\ runs' = [runs EXCEPT ![s] = @ + 1]
    /\ Go(w, "engine")
    /\ UNCHANGED <<rows, job, duty, cur, mem>>

\* runEngine returns with the verified removal of its sandbox, or without the proof.
EngineReturns(w) ==
    LET s == cur[w] IN
    /\ At(w, "engine")
    /\ \E removed \in BOOLEAN :
         /\ removed \/ Fault("unproven")
         /\ mem' = [mem EXCEPT ![w].returned = removed]
         /\ IF removed THEN sandbox' = [sandbox EXCEPT ![s] = @ \ {w}]
                       ELSE UNCHANGED sandbox
    /\ Go(w, "returned")
    /\ UNCHANGED <<rows, job, duty, runs, cur>>

\* A URL scan out of time is FAILED here (Refuse), with its usage unread.  Then
\* noBillableWork is set: usage of the engine was observed or not.
Observe(w) ==
    LET s == cur[w] IN
    /\ At(w, "returned")
    /\ \E observed \in BOOLEAN :
         /\ observed => s \in EngineScan
         /\ mem' = [mem EXCEPT ![w].unbilled = ~observed]
    /\ Go(w, "route") /\ Local

\* A container nobody waits for any more ends by itself.
SandboxExits(w, s) ==
    /\ w \in sandbox[s] /\ ~(At(w, "engine") /\ cur[w] = s)
    /\ sandbox' = [sandbox EXCEPT ![s] = @ \ {w}]
    /\ UNCHANGED <<rows, job, duty, runs, wk>>

\* The engine result is cancelled, stopped early (budget kill, timeout), or goes
\* on to the deterministic scanners.
Route(w) ==
    LET s == cur[w] IN
    /\ At(w, "route")
    /\ \/ s \in EngineScan /\ row[s].status = "CANCELLED" /\ Go(w, "settleCancel")
       \/ s \in EngineScan /\ Go(w, "earlySeal")
       \/ Go(w, "verify")
    /\ Local /\ UNCHANGED mem

\* The meter with outcome "cancelled": best effort, one transaction.  It throws when
\* the reservation is not RUNNING, or fails; either is swallowed and changes nothing.
SettleCancelled(w) ==
    LET s == cur[w] IN
    /\ At(w, "settleCancel")
    /\ IF mem[w].unbilled
       THEN mem' = [mem EXCEPT ![w].disp = "nonbillable"] /\ UNCHANGED cap
       ELSE /\ ~Metering(s)
            /\ mem' = [mem EXCEPT ![w].disp = "settlement_required"]
            /\ \/ /\ cap[s].state = "RUNNING"
                  /\ cap' = [cap EXCEPT ![s].state = "SETTLED", ![s].receipt = TRUE]
               \/ /\ cap[s].state # "RUNNING" \/ Fault("error")
                  /\ UNCHANGED cap
    /\ ReturnTo(w)
    /\ UNCHANGED <<row, slot, job, duty, sandbox, runs, cur>>

\* finalizeEarlyEngineTerminal: manifest, then status; the meter is not called.
EarlySeal(w) ==
    LET s == cur[w] IN
    /\ At(w, "earlySeal")
    /\ IF row[s].manifest = "NONE"
       THEN /\ \E v \in {"FAILED", "STOPPED_BUDGET"} : row' = [row EXCEPT ![s].manifest = v]
            /\ Go(w, "earlyFinish")
       ELSE ThrowTo(w) /\ UNCHANGED row
    /\ UNCHANGED <<cap, slot, job, duty, sandbox, runs, cur, mem>>

EarlyFinish(w) ==
    LET s == cur[w] IN
    /\ At(w, "earlyFinish")
    /\ IF CanMove(s, row[s].manifest)
       THEN SetStatus(s, row[s].manifest) /\ ReturnTo(w)
       ELSE ThrowTo(w) /\ UNCHANGED row
    /\ UNCHANGED <<cap, slot, job, duty, sandbox, runs, cur, mem>>

\* Scanners and triage run in VERIFYING.
BeginVerifying(w) ==
    LET s == cur[w] IN
    /\ At(w, "verify")
    /\ IF CanMove(s, "VERIFYING")
       THEN SetStatus(s, "VERIFYING") /\ Go(w, "finalize")
       ELSE ThrowTo(w) /\ UNCHANGED row
    /\ UNCHANGED <<cap, slot, job, duty, sandbox, runs, cur, mem>>

\* withScanFinalizationClaim: claimed once, lost to a cancellation, or an error.
Claimable(s) == row[s].status = "VERIFYING" /\ ~row[s].claim

ClaimFinalization(w) ==
    LET s == cur[w] IN
    /\ At(w, "finalize")
    /\ IF Claimable(s)
       THEN row' = [row EXCEPT ![s].claim = TRUE] /\ Go(w, "seal")
       ELSE /\ IF row[s].status = "CANCELLED" THEN Go(w, "settleCancel") ELSE ThrowTo(w)
            /\ UNCHANGED row
    /\ UNCHANGED <<cap, slot, job, duty, sandbox, runs, cur, mem>>

\* resolveEngineBillingOutcome: a budget stop is billed as partial when it is the
\* funded capacity that ran out, and as failed otherwise.
SlipBills(v) == {b \in BOOLEAN : v \in {"COMPLETED", "PARTIAL"} => b}

Bills(v) == {b \in BOOLEAN : /\ v \in {"COMPLETED", "PARTIAL"} => b
                             /\ v = "FAILED" => ~b}

\* meterEngineRun up to the manifest.  A billable result first needs a RUNNING
\* reservation, whose account lock it then keeps until Commit.
Seal(w) ==
    LET s == cur[w] IN
    /\ At(w, "seal")
    /\ \E v \in Verdict : \E bills \in Bills(v) :
         LET billable == bills /\ ~mem[w].unbilled
             writable == /\ row[s].manifest = "NONE"
                         /\ billable => cap[s].state = "RUNNING"
         IN /\ billable => ~Metering(s)
            /\ mem' = [mem EXCEPT ![w].disp =
                         IF billable THEN "settlement_required" ELSE "nonbillable"]
            /\ IF writable
               THEN row' = [row EXCEPT ![s].manifest = v] /\ Go(w, "finish")
               ELSE ThrowTo(w) /\ UNCHANGED row
    /\ UNCHANGED <<cap, slot, job, duty, sandbox, runs, cur>>

\* completeScanWithScore or updateScanStatus: the sealed outcome becomes the status.
Finish(w) ==
    LET s == cur[w] IN
    /\ At(w, "finish")
    /\ IF CanMove(s, row[s].manifest)
       THEN /\ SetStatus(s, row[s].manifest)
            /\ IF mem[w].disp = "settlement_required"
               THEN mem' = [mem EXCEPT ![w].durable = TRUE] /\ Go(w, "commit")
               ELSE ReturnTo(w) /\ UNCHANGED mem
       ELSE ThrowTo(w) /\ UNCHANGED <<row, mem>>
    /\ UNCHANGED <<cap, slot, job, duty, sandbox, runs, cur>>

\* The metering transaction commits the receipt with the SETTLED state.
Commit(w) ==
    LET s == cur[w] IN
    /\ At(w, "commit")
    /\ cap' = [cap EXCEPT ![s].state = "SETTLED", ![s].receipt = TRUE]
    /\ ReturnTo(w)
    /\ UNCHANGED <<row, slot, job, duty, sandbox, runs, cur, mem>>

\* Any step of the try block may throw for an infrastructure reason; a metering
\* transaction that was open then rolls back.
TrySteps == {"resume", "prepare", "admit", "reserve", "run", "execute", "claim",
             "boundary", "launch", "engine", "returned", "route", "earlySeal",
             "earlyFinish", "verify", "finalize", "seal", "finish", "commit"}
Throw(w) ==
    /\ Fault("error")
    /\ cur[w] \in Scan /\ pc[w] \in TrySteps
    /\ ThrowTo(w) /\ Local /\ UNCHANGED mem
-----------------------------------------------------------------------------
(***************************************************************************)
(* processScanJob: the catch block                                         *)
(***************************************************************************)
Result(w, r) == mem' = [mem EXCEPT ![w].result = r]

\* The result is already durable, or the status is one a retry must not touch.
CatchDurable(w) ==
    LET s == cur[w] IN
    /\ At(w, "catch")
    /\ mem[w].durable \/ row[s].status \in {"COMPLETED", "PARTIAL"}
    /\ ReturnTo(w) /\ Local /\ UNCHANGED mem

CatchCancelled(w) ==
    /\ At(w, "catch") /\ ~mem[w].durable /\ row[cur[w]].status = "CANCELLED"
    /\ Go(w, "settleCancel") /\ Local /\ UNCHANGED mem

Undecided(w) == /\ At(w, "catch") /\ ~mem[w].durable
                /\ row[cur[w]].status \notin {"COMPLETED", "PARTIAL", "CANCELLED"}

\* The status cannot be read: nothing is overwritten.
CatchUnreadable(w) ==
    /\ Fault("error") /\ At(w, "catch") /\ ~mem[w].durable
    /\ Result(w, "throw") /\ ReturnTo(w) /\ Local

SlipRetryable(w) == job[cur[w]].attempts + 1 < MaxAttempts   \* billable or not

\* Before the billable phase and with attempts left: requeueScanForRetry.
Retryable(w) == ~mem[w].billable /\ job[cur[w]].attempts + 1 < MaxAttempts

CatchRetry(w) ==
    LET s == cur[w] IN
    /\ Undecided(w) /\ Retryable(w)
    /\ Result(w, "throw")
    /\ IF row[s].status \in Active
       THEN /\ SetStatus(s, "QUEUED")
            /\ IF mem[w].recovering THEN ReturnTo(w) ELSE Go(w, "reset")
       ELSE ReturnTo(w) /\ UNCHANGED row
    /\ UNCHANGED <<cap, slot, job, duty, sandbox, runs, cur>>

\* Otherwise, or for missing evidence storage, which no retry repairs: FAILED.
CatchFail(w) ==
    LET s == cur[w] IN
    /\ Undecided(w)
    /\ Retryable(w) => Fault("error")
    /\ IF CanMove(s, "FAILED")
       THEN SetStatus(s, "FAILED") /\ UNCHANGED mem
       ELSE Result(w, "throw") /\ UNCHANGED row
    /\ ReturnTo(w)
    /\ UNCHANGED <<cap, slot, job, duty, sandbox, runs, cur>>

\* resetUnstartedScanCapacity after a requeue that was not a recovery.
ResetCapacity(w) ==
    LET s == cur[w] IN
    /\ At(w, "reset") /\ ~Metering(s)
    /\ IF row[s].status = "QUEUED" /\ cap[s].state \in {"WAITING", "RESERVED", "RUNNING"}
       THEN /\ cap' = [cap EXCEPT ![s].state = InitialCap(s)]
            /\ row' = [row EXCEPT ![s].started = FALSE]
       ELSE UNCHANGED <<row, cap>>
    /\ ReturnTo(w)
    /\ UNCHANGED <<slot, job, duty, sandbox, runs, cur, mem>>

\* deferScanCapacityWait: requeue, clear startedAt while QUEUED, move the job to
\* the delayed set, then throw DelayedError.
Defer(w) ==
    LET s == cur[w] IN
    /\ At(w, "defer")
    /\ IF row[s].status \in Active THEN SetStatus(s, "QUEUED") ELSE UNCHANGED row
    /\ Go(w, "deferClear")
    /\ UNCHANGED <<cap, slot, job, duty, sandbox, runs, cur, mem>>

DeferClear(w) ==
    LET s == cur[w] IN
    /\ At(w, "deferClear")
    /\ row' = [row EXCEPT ![s].started = IF row[s].status = "QUEUED" THEN FALSE ELSE @]
    /\ Go(w, "deferMove")
    /\ UNCHANGED <<cap, slot, job, duty, sandbox, runs, cur, mem>>

DeferMove(w) ==
    LET s == cur[w] IN
    /\ At(w, "deferMove")
    /\ IF job[s].owner = w
       THEN /\ job' = [job EXCEPT ![s].state = "ready", ![s].owner = NoWorker]
            /\ Result(w, "delayed")
       ELSE Result(w, "throw") /\ UNCHANGED job
    /\ ReturnTo(w)
    /\ UNCHANGED <<rows, duty, sandbox, runs, cur>>

DeferError(w) ==
    /\ Fault("error") /\ cur[w] \in Scan
    /\ pc[w] \in {"reset", "defer", "deferClear", "deferMove"}
    /\ Result(w, "throw") /\ ReturnTo(w) /\ Local
-----------------------------------------------------------------------------
(***************************************************************************)
(* processScanJob: the finally block (finalizeScanCapacity) and the queue  *)
(***************************************************************************)
SlipStopProven(w) == ~mem[w].billable \/ mem[w].returned   \* recovering or not

StopProven(w) == (~mem[w].recovering /\ ~mem[w].billable) \/ mem[w].returned

SlipNonbillable(w, s) ==   \* a failed status decides alone
    \/ mem[w].disp = "nonbillable"
    \/ mem[w].unbilled \/ row[s].status = "FAILED"
    \/ cap[s].state \in Unclaimed

Nonbillable(w, s) ==
    \/ mem[w].disp = "nonbillable"
    \/ /\ mem[w].disp # "settlement_required"
       /\ mem[w].unbilled \/ row[s].status = "FAILED"
    \/ cap[s].state \in Unclaimed

\* confirmScanCapacityStopped
ConfirmedState(w, s) ==
    IF cap[s].state = "SETTLED" /\ cap[s].receipt THEN "SETTLED"
    ELSE IF Nonbillable(w, s) THEN "RELEASED" ELSE "REVIEW_REQUIRED"

SlipAfterUnproven(w) == "releaseUnstarted"   \* no recovery of a confirmed stop

\* What finalizeScanCapacity does next when this worker can prove no stop: one
\* that recovers a former attempt first tries to complete that one's release.
AfterUnproven(w) == IF mem[w].recovering THEN "releaseStopped" ELSE "releaseUnstarted"

Confirm(w) ==
    LET s == cur[w] IN
    /\ At(w, "confirm")
    /\ IF StopProven(w)
       THEN /\ ~Metering(s)
            /\ IF row[s].status \in Active
               THEN UNCHANGED cap
               ELSE cap' = [cap EXCEPT ![s].state = ConfirmedState(w, s),
                                       ![s].stopped = TRUE]
            /\ Go(w, "releaseStopped")
       ELSE /\ Go(w, AfterUnproven(w))
            /\ UNCHANGED cap
    /\ UNCHANGED <<row, slot, job, duty, sandbox, runs, cur, mem>>

StoppedReleasable(s) == cap[s].stopped /\ cap[s].state \in {"SETTLED", "RELEASED"}

\* releaseStoppedScanSlot
ReleaseStopped(w) ==
    LET s == cur[w] IN
    /\ At(w, "releaseStopped") /\ ~Metering(s)
    /\ IF StoppedReleasable(s)
       THEN /\ cap' = [cap EXCEPT ![s].settled = TRUE]
            /\ slot' = [slot EXCEPT ![Owner[s]] = IF @ = s THEN NoScan ELSE @]
       ELSE UNCHANGED <<cap, slot>>
    /\ Go(w, "releaseUnstarted")
    /\ UNCHANGED <<row, job, duty, sandbox, runs, cur, mem>>

FinallyReleases(w) ==
    /\ At(w, "releaseUnstarted")
    /\ ReleaseUnstarted(cur[w])
    /\ Go(w, "ack")
    /\ UNCHANGED <<row, job, duty, sandbox, runs, cur, mem>>

\* Every accounting error of the finally block is logged and swallowed.
FinallyError(w) ==
    /\ Fault("error") /\ cur[w] \in Scan
    /\ \/ pc[w] \in {"confirm", "releaseStopped"} /\ Go(w, "releaseUnstarted")
       \/ pc[w] = "releaseUnstarted" /\ Go(w, "ack")
    /\ Local /\ UNCHANGED mem

\* BullMQ records the outcome if the worker still owns the lock: completed,
\* retried after a backoff, or failed with its last attempt's "failed" event.
Acknowledge(w) ==
    LET s == cur[w]
        last == job[s].attempts + 1 >= MaxAttempts IN
    /\ At(w, "ack")
    /\ IF job[s].state = "active" /\ job[s].owner = w
       THEN IF mem[w].result = "return"
            THEN /\ job' = [job EXCEPT ![s].state = "completed", ![s].owner = NoWorker]
                 /\ UNCHANGED duty
            ELSE /\ job' = [job EXCEPT ![s].state = IF last THEN "failed" ELSE "ready",
                                       ![s].owner = NoWorker, ![s].attempts = @ + 1]
                 /\ duty' = [duty EXCEPT ![s].failing = @ \/ last]
       ELSE UNCHANGED <<job, duty>>
    /\ cur' = [cur EXCEPT ![w] = NoScan]
    /\ mem' = [mem EXCEPT ![w] = FreshMem(FALSE)]
    /\ Go(w, "idle")
    /\ UNCHANGED <<rows, sandbox, runs>>

\* The worker process dies; its container may outlive it, its lock expires.
WorkerCrash(w) ==
    LET s == cur[w] IN
    /\ Fault("crash") /\ s \in Scan
    /\ job' = [job EXCEPT ![s].owner = IF @ = w THEN NoWorker ELSE @]
    /\ cur' = [cur EXCEPT ![w] = NoScan]
    /\ mem' = [mem EXCEPT ![w] = FreshMem(FALSE)]
    /\ Go(w, "idle")
    /\ UNCHANGED <<rows, duty, sandbox, runs>>
-----------------------------------------------------------------------------
CallerStep(s) == \/ CreateScan(s) \/ Publish(s) \/ PublishUncertain(s)
                 \/ PublishRefused(s) \/ CancelScan(s) \/ CallerReleases(s)
                 \/ CallerCrash(s)

QueueStep(s) == \/ Stalled(s) \/ FailedEvent(s) \/ ReconcileOrphan(s) \/ RemoveJob(s)
                \/ \E w \in Worker : \/ Deliver(w, s) \/ DeliveryFails(w, s)
                                     \/ Deny(w, s) \/ SandboxExits(w, s)

\* What the attempt does, as opposed to what may befall it.
TryStep(w) == \/ Resume(w) \/ Prepare(w) \/ Admitted(w)
              \/ Refuse(w, "admit") \/ Refuse(w, "execute") \/ Refuse(w, "returned")
              \/ Reserve(w) \/ ReserveWait(w) \/ Claim(w) \/ ClaimWait(w)
              \/ StartUnmetered(w) \/ BeginRunning(w) \/ Execute(w)
              \/ EnterBillable(w) \/ LaunchCancelled(w) \/ Launch(w)
              \/ EngineReturns(w) \/ Observe(w) \/ Route(w) \/ SettleCancelled(w)
              \/ EarlySeal(w) \/ EarlyFinish(w) \/ BeginVerifying(w)
              \/ ClaimFinalization(w) \/ Seal(w) \/ Finish(w) \/ Commit(w)
CatchStep(w) == \/ CatchDurable(w) \/ CatchCancelled(w) \/ CatchRetry(w) \/ CatchFail(w)
                \/ ResetCapacity(w) \/ Defer(w) \/ DeferClear(w) \/ DeferMove(w)
FinallyStep(w) == \/ Confirm(w) \/ ReleaseStopped(w) \/ FinallyReleases(w)
                  \/ Acknowledge(w)
WorkerFault(w) == \/ Throw(w) \/ CatchUnreadable(w) \/ DeferError(w)
                  \/ FinallyError(w) \/ WorkerCrash(w)
WorkerStep(w) == TryStep(w) \/ CatchStep(w) \/ FinallyStep(w)

Next == \/ \E s \in Scan : CallerStep(s) \/ QueueStep(s)
        \/ \E w \in Worker : WorkerStep(w) \/ WorkerFault(w)

Spec == Init /\ [][Next]_vars
=============================================================================

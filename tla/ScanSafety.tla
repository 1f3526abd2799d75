------------------------------ MODULE ScanSafety ------------------------------
(***************************************************************************)
(* What the scan lifecycle must guarantee.                                 *)
(***************************************************************************)
EXTENDS ScanLifecycle

Created(s)  == row[s].status # "ABSENT"
Ended(s)    == row[s].status \in Terminal
-----------------------------------------------------------------------------
(***************************************************************************)
(* Invariants                                                              *)
(***************************************************************************)
\* A user's slot names a scan exactly as long as that scan is unsettled: no path
\* frees the slot without the accounting stamp or stamps without freeing, and two
\* unsettled scans of one user never exist (scan-slot.ts).
SlotIsUnsettledScan ==
    \A s \in Scan : slot[Owner[s]] = s <=> (Created(s) /\ ~cap[s].settled)

\* A settled scan has ended, has a stop receipt, and its reservation holds no
\* money: a later confirm, reset or reservation never reopens it.
SettledIsFinal ==
    \A s \in Scan : cap[s].settled =>
        Ended(s) /\ cap[s].stopped /\ cap[s].state \in {"SETTLED", "RELEASED"}

\* "Terminal status alone does not release a slot": while a provider container
\* of a scan executes, the scan keeps its user's slot and has no stop receipt.
SlotCoversExecution ==
    \A s \in Scan : sandbox[s] # {} =>
        slot[Owner[s]] = s /\ ~cap[s].stopped

\* Paid work is never replayed, whatever crashes, retries or redeliveries happen.
NoPaidReplay == \A s \in Scan : runs[s] <= 1

\* A receipt and a SETTLED reservation are the same fact, a failed scan is never
\* charged, and a charge other than a cancellation's is for the sealed outcome.
ChargeMatchesOutcome ==
    \A s \in Scan :
        /\ cap[s].receipt <=> cap[s].state = "SETTLED"
        /\ cap[s].receipt => /\ runs[s] = 1
                             /\ row[s].status \in {"COMPLETED", "PARTIAL",
                                                   "STOPPED_BUDGET", "CANCELLED"}
        /\ cap[s].receipt /\ row[s].status # "CANCELLED" =>
                                row[s].manifest = row[s].status

\* An attempt that decided its work must be paid for (billingDisposition
\* "settlement_required") never sees its reservation released without a receipt:
\* a failure between the manifest and the meter leads to review, not to a refund.
SettlementBeforeRelease ==
    \A w \in Worker : \A s \in Scan :
        cur[w] = s /\ mem[w].disp = "settlement_required" /\ cap[s].settled
            => cap[s].receipt
-----------------------------------------------------------------------------
(***************************************************************************)
(* Action properties                                                       *)
(***************************************************************************)
\* A terminal status never changes again, whoever writes late.
TerminalIsFinal ==
    [][\A s \in Scan : Ended(s) => row'[s].status = row[s].status]_vars

\* "The owning worker proves it never entered provider execution before retrying"
\* (resetUnstartedScanCapacity): a claimed reservation goes back to unclaimed only
\* while no attempt of the scan passed the billable boundary or started a container.
ResetNeverAfterProvider ==
    [][\A s \in Scan : cap[s].state = "RUNNING" /\ cap'[s].state \in Unclaimed
                         => ~row[s].boundary /\ runs[s] = 0]_vars

-----------------------------------------------------------------------------
(***************************************************************************)
(* The lifecycle implements the user's slot                                *)
(***************************************************************************)
Promise == INSTANCE ReviewSlot WITH
    holder    <- slot,
    admitted  <- {s \in Scan : Created(s)},
    started   <- {s \in Scan : runs[s] > 0},
    executing <- {s \in Scan : sandbox[s] # {}}

\* One review per user at a time, one paid execution per review, and no release
\* of the slot under a running container: every step is one of ReviewSlot's.
ImplementsReviewSlot == Promise!Spec
-----------------------------------------------------------------------------
(***************************************************************************)
(* Progress                                                                *)
(***************************************************************************)
\* A worker takes its next step, BullMQ delivers and checks for stalled jobs,
\* the failed event fires, reconciliation runs every few minutes, a caller that
\* lives finishes its request.  Nothing is assumed of users (create, cancel).
Scheduling ==
    /\ \A w \in Worker : WF_vars(WorkerStep(w))
    /\ \A s \in Scan : /\ WF_vars(\E w \in Worker : Deliver(w, s))
                       /\ WF_vars(Publish(s) \/ PublishUncertain(s) \/ PublishRefused(s))
                       /\ WF_vars(CallerReleases(s))
                       /\ WF_vars(Stalled(s))
                       /\ WF_vars(FailedEvent(s))
                       /\ WF_vars(ReconcileOrphan(s))

\* The account's capacity comes back: a scan that keeps asking is funded in the
\* end (cycles renew and older reservations settle; FIFO, see CapacityFunding).
Funding == \A w \in Worker : SF_vars(Reserve(w)) /\ SF_vars(Claim(w))

FairSpec == Spec /\ Scheduling /\ Funding

\* Every admitted review ends, also when workers and callers die on the way.
EveryScanEnds == \A s \in Scan : Created(s) ~> Ended(s)

\* A scan that ended before claiming its capacity gives its slot back.
UnclaimedIsReleased ==
    \A s \in Scan : (Ended(s) /\ cap[s].state \in Unclaimed) ~> cap[s].settled

\* Once the executor's stop is on record and no review is required, the slot
\* comes back even if the worker that recorded the stop dies before it frees it:
\* a redelivered attempt recovers the release (finalizeScanCapacity), unless the
\* job was removed or failed for good before one could.
StopFreesSlot ==
    \A s \in Scan : StoppedReleasable(s) ~>
        cap[s].settled \/ job[s].state \in {"none", "failed"}
=============================================================================

---------------------------- MODULE WebhookSafety ----------------------------
(***************************************************************************)
(* What the tracks of WebhookTracks promise.                               *)
(***************************************************************************)
EXTENDS WebhookTracks

(* Every row, job and executor is well formed. *)
TypeOK ==
    /\ event \in Events
    /\ receipt \in Receipts
    /\ row \in [Track -> Rows] /\ proc \in [Executor -> Procs]
    /\ DOMAIN job \subseteq Track \X Nat
    /\ \A i \in DOMAIN job : job[i] \in {"waiting", "active", "ended"}
    /\ timer \in [due : BOOLEAN, track : Track, gen : Nat]
    /\ runs \in [Track -> [begun : Nat, threw : Nat]]
    /\ mishaps \in 0..MaxMishaps

(* The provider is told "received", and the event counts as processed, only    *)
(* when every track that the event requires has succeeded or was reviewed: a   *)
(* delivery that skipped a busy or parked track never answers 200.             *)
AckMeansResolved ==
    receipt.acked \/ receipt.processed =>
        \A t \in Applicable(event) : row[t].status \in {"succeeded", "reviewed"}

(* A handler that is not replay safe is run again only after its last run was  *)
(* recorded as failed: no crash, failed receipt write, lapsed lease, stalled   *)
(* job or second delivery repeats an effect that may have happened.            *)
NoBlindReplay ==
    \A t \in Track : ~ ReplaySafe(t, event) => runs[t].begun <= runs[t].threw + 1

(* A track is run at most WEBHOOK_TRACK_MAX_ATTEMPTS times, and as many times  *)
(* more for each recovery that an operator granted, whoever runs it: "five     *)
(* total failed executions dead-letter and duplicate retries cannot extend the *)
(* budget".                                                                    *)
AttemptBudget ==
    \A t \in Track : runs[t].begun <= MaxAttempts * (1 + row[t].recoveries)

(* The ledger that the tracks implement. *)
FateOf(s) ==
    CASE s = "absent" -> "unknown"    [] s = "succeeded" -> "done"
      [] s = "dead_letter" -> "parked" [] s = "reviewed" -> "waived"
      [] OTHER -> "open"

Ledger == INSTANCE TrackLedger WITH
              fate <- [t \in Track |-> FateOf(row[t].status)], answered <- receipt.acked

(* What the operator, the provider and the handlers can do to a track: done is *)
(* final, only an operator reopens or waives, and 200 comes after all of it.   *)
ImplementsLedger == Ledger!LedgerSpec

(* Every required track ends, without a redelivery and without an operator: it *)
(* succeeds, or it is parked where an operator can see it.  Lost adds, dropped *)
(* jobs and dead executors only delay it.                                      *)
EveryTrackEnds ==
    Materialized # {} ~>
        \A t \in Materialized : row[t].status \in {"succeeded", "dead_letter", "reviewed"}

(* docs/operations.md: the disposition "moves the track to reviewed", so with  *)
(* an operator who attends to it a dead letter that must not be replayed is    *)
(* closed in the end, and the provider's redeliveries are answered.            *)
AttendedSpec == Spec /\ \A t \in Track : WF_vars(OperatorReview(t))

ParkedIsReviewed ==
    \A t \in Track :
        (row[t].status = "dead_letter" /\ ~ ReplaySafe(t, event)) ~> row[t].status = "reviewed"
=============================================================================

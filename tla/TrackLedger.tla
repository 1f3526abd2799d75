----------------------------- MODULE TrackLedger -----------------------------
(***************************************************************************)
(* What the required tracks of one provider webhook promise, without       *)
(* claims, leases, generations or jobs: a track is open until its handler  *)
(* is known to have succeeded, or until it is parked for a person.  Only a *)
(* person reopens a parked track or waives it, and the provider is told    *)
(* "received" once every track is done or waived.                          *)
(***************************************************************************)
CONSTANTS Track

VARIABLES
    fate,           \* of each track; "unknown" before the rows exist
    answered        \* the provider got a 200 and stops delivering
ledger == <<fate, answered>>

Fates    == {"unknown", "open", "done", "parked", "waived"}
Required == {t \in Track : fate[t] # "unknown"}

LedgerInit ==
    /\ fate = [t \in Track |-> "unknown"]
    /\ answered = FALSE

Require ==
    \E S \in (SUBSET Track) \ {{}} :
        /\ Required = {}
        /\ fate' = [t \in Track |-> IF t \in S THEN "open" ELSE fate[t]]
        /\ UNCHANGED answered

Move(t, from, to) ==
    /\ fate[t] = from
    /\ fate' = [fate EXCEPT ![t] = to]
    /\ UNCHANGED answered

Answer ==
    /\ Required # {}
    /\ \A t \in Required : fate[t] \in {"done", "waived"}
    /\ answered' = TRUE
    /\ UNCHANGED fate

LedgerNext ==
    \/ Require \/ Answer
    \/ \E t \in Track :
          \/ Move(t, "open", "done")   \/ Move(t, "open", "parked")
          \/ Move(t, "parked", "open") \/ Move(t, "parked", "waived")

LedgerSpec == LedgerInit /\ [][LedgerNext]_ledger
=============================================================================

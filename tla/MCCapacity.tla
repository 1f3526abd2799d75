------------------------------ MODULE MCCapacity ------------------------------
(***************************************************************************)
(* Instances of the account's funding for TLC.                             *)
(***************************************************************************)
EXTENDS FundingSafety

TwoMinutes   == [r \in Reservation |-> 2]
SecondIsDeep == [r \in Reservation |-> IF r = 2 THEN 3 ELSE 1]
Losses       == {"refund", "expiry"}
=============================================================================

------------------------------ MODULE MCSchedule ------------------------------
(***************************************************************************)
(* Instances of the scheduled reviews for TLC.                             *)
(***************************************************************************)
EXTENDS ScheduleSafety

CONSTANTS p1, p2, h1, h2, u1

OneHost    == [p \in {p1, p2} |-> h1]
TwoHosts   == [p \in {p1, p2} |-> IF p = p1 THEN h1 ELSE h2]
OneOwner   == [s \in Schedule |-> u1]
AnyMishap  == {"worker", "queue", "uncertain", "denied", "query", "crash"}
Outage     == {"worker", "queue", "query", "crash"}
=============================================================================

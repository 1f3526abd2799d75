------------------------------ MODULE MCFixLoop ------------------------------
(***************************************************************************)
(* Instances of the fix pull request and its loop closure for TLC.         *)
(***************************************************************************)
EXTENDS FixLoopSafety

CONSTANTS a1, a2, p1, p2, h1, h2
Every == MishapKinds
Calmly == {}
=============================================================================

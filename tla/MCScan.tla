-------------------------------- MODULE MCScan --------------------------------
(***************************************************************************)
(* Instances of the scan lifecycle for TLC.                                *)
(***************************************************************************)
EXTENDS ScanSafety

CONSTANTS s1, s2, u1, t1, w1, w2

OneScan   == {s1}
TwoScans  == {s1, s2}
OneOwner  == [s \in Scan |-> u1]
OneTarget == [s \in Scan |-> t1]
Unproven      == {"unproven"}
CrashUnproven == {"crash", "unproven"}
EveryMishap   == {"crash", "error", "deny", "unproven"}
=============================================================================

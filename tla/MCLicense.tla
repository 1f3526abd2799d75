------------------------------ MODULE MCLicense ------------------------------
(***************************************************************************)
(* Instances of the licence keys for TLC.                                  *)
(***************************************************************************)
EXTENDS LicenseSafety

AnyMishap == {"mail", "late mail", "query", "crash", "reply"}
NoMishap  == {}
=============================================================================

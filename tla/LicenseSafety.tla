---------------------------- MODULE LicenseSafety ----------------------------
(***************************************************************************)
(* What the licence of LicenseKeys promises its buyer.                     *)
(***************************************************************************)
EXTENDS LicenseKeys

Statuses == {"none", "MINTED", "DELIVERING", "DELIVERED", "DELIVERY_FAILED"}
Places   == {"idle", "insert", "read", "sign", "attempt", "mail", "sent", "unsent", "ok", "threw",
             "parked", "consume", "lock", "count", "commit", "reply"}

Procs    == [pc : Places, won : BOOLEAN, copy : SUBSET Machine, file : File, tries : 0..MaxTries]
Tokens   == (Issuer \cup {NoOne}) \X Nat
Keys     == [status : Statuses, token : Tokens, used : BOOLEAN, raw : BOOLEAN]

(* Rows, requests and files are well formed. *)
TypeOK ==
    /\ key \in Keys
    /\ lic \in [machines : SUBSET Machine, signed : BOOLEAN, signs : SUBSET Machine]
    /\ active \in SUBSET Machine /\ lock \in Machine \cup {NoOne}
    /\ mailed \in SUBSET Tokens
    /\ buyer \in [knows : BOOLEAN, file : File]
    /\ desktop \in [Machine -> [state : {"none", "file", "cleared"}, file : File]]
    /\ proc \in [Signer -> Procs]
    /\ mishaps \in 0..MaxMishaps

(* A licence track succeeds, and the key row says DELIVERED, only when the     *)
(* licence is signed and a mail with a retrieval link has gone out: a loser of *)
(* the race never reports the winner's unfinished delivery as its own.         *)
SuccessMeansMailed ==
    (\E p \in Event : At(p, "ok")) \/ key.status = "DELIVERED" =>
        lic.signed /\ mailed # {}

(* The file that comes with the key verifies: no activation can move the row   *)
(* away from its signature before the key has been retrieved.                  *)
RetrievedFileVerifies == buyer.file.names = buyer.file.signs

(* Activations that race never exceed the machine cap, and the licence row     *)
(* names exactly the machines that are active.                                 *)
CapHolds ==
    /\ Cardinality(active) <= Cap
    /\ lic.machines = active

(* Whatever signs in between, the file that a machine is given names it.       *)
FileNamesMachine ==
    \A m \in Machine : desktop[m].state = "file" => m \in desktop[m].file.names

(* The order is fulfilled, or some track of it is out of tries or parked for   *)
(* an operator: none is left waiting for another.                              *)
OrderIsSettled ==
    <>(\/ key.status = "DELIVERED"
       \/ \E p \in Event : At(p, "parked") \/ (At(p, "threw") /\ proc[p].tries = MaxTries))

-----------------------------------------------------------------------------
(* Individual licences run on "up to three machines" (PRD.md:314): a machine   *)
(* that was activated keeps its licence.                                       *)
ActiveMachineKeepsLicense == \A m \in active : desktop[m].state # "cleared"
=============================================================================

----------------------------- MODULE LicenseKeys -----------------------------
(***************************************************************************)
(* One Local licence, from the paid order to the machines that run on it   *)
(* (packages/billing/src/license-fulfillment.ts, the routes under          *)
(* apps/web/src/app/api/licenses and the desktop's check of its file).     *)
(*                                                                         *)
(* Webhook events of one order and callers of the internal issue route     *)
(* race to create the key row; whoever loses delivers again under a fresh  *)
(* retrieval token.  The buyer retrieves the key through the mailed token, *)
(* activates machines with it, and each machine keeps the signed file it   *)
(* was given.  Signing reads the row, and writes the signature later.      *)
(***************************************************************************)
EXTENDS Integers, FiniteSets

CONSTANTS
    Event,          \* webhook events of the order, each with a licence track
    Caller,         \* requests to /api/licenses/issue for the order
    Reader,         \* requests to /api/licenses/retrieve
    Machine,        \* machines of the buyer
    Cap,            \* machineCapForSku: 3, or the seats of a team
    MaxTries,       \* bound: runs of a track or caller
    Mishaps,        \* "mail", "late mail", "query", "crash", "reply"
    MaxMishaps      \* bound: how many of them happen

Issuer  == Event \cup Caller
Signer  == Issuer \cup Reader \cup Machine
NoOne   == "no one"
NoToken == <<NoOne, 0>>

ASSUME LicenseAssumption == Cap \in Nat /\ MaxTries \in Nat /\ MaxMishaps \in Nat
ASSUME ProcsAssumption ==
    /\ Event \cap Caller = {} /\ Issuer \cap Reader = {} /\ (Issuer \cup Reader) \cap Machine = {}
    /\ IsFiniteSet(Machine) /\ NoOne \notin Machine
    /\ Mishaps \subseteq {"mail", "late mail", "query", "crash", "reply"}

VARIABLES
    key,            \* the LicenseKey row: status, token, used, raw
    lic,            \* the License row: machineIds, signed yet, the machines the signature covers
    active,         \* machines with a LicenseActivation row
    lock,           \* who holds the License row FOR UPDATE
    mailed,         \* tokens that reached the buyer's mailbox
    buyer,          \* has the raw key; the file that came with it
    desktop,        \* the licence file that each machine stores
    proc,           \* what each request or track run is doing
    mishaps         \* faults so far
vars == <<key, lic, active, lock, mailed, buyer, desktop, proc, mishaps>>

-----------------------------------------------------------------------------
(* A file verifies when its signature covers the machines that it names. *)
File  == [names : SUBSET Machine, signs : SUBSET Machine]
Blank == [names |-> {}, signs |-> {}]
Idle  == [pc |-> "idle", won |-> FALSE, copy |-> {}, file |-> Blank, tries |-> 0]

Init ==
    /\ key = [status |-> "none", token |-> NoToken, used |-> FALSE, raw |-> FALSE]
    /\ lic = [machines |-> {}, signed |-> FALSE, signs |-> {}]
    /\ active = {} /\ lock = NoOne /\ mailed = {}
    /\ buyer = [knows |-> FALSE, file |-> Blank]
    /\ desktop = [m \in Machine |-> [state |-> "none", file |-> Blank]]
    /\ proc = [p \in Signer |-> Idle]
    /\ mishaps = 0

(* Every run of an issuer generates its own token. *)
Token(p)     == <<p, proc[p].tries>>

At(p, pc)    == proc[p].pc = pc
Goes(p, to)  == proc' = [proc EXCEPT ![p].pc = to]
Ends(p, as)  == proc' = [proc EXCEPT ![p] = [Idle EXCEPT !.pc = as, !.tries = proc[p].tries]]
Mishap(kind) == kind \in Mishaps /\ mishaps < MaxMishaps /\ mishaps' = mishaps + 1

-----------------------------------------------------------------------------
(* Fulfilment *)

(* Mutant: one run too many. *)
SlipBegin(p) ==
    /\ p \in Issuer /\ proc[p].pc \in {"idle", "threw"} /\ proc[p].tries <= MaxTries
    /\ proc' = [proc EXCEPT ![p] = [Idle EXCEPT !.pc = "insert", !.tries = proc[p].tries + 1]]
    /\ UNCHANGED <<key, lic, active, lock, mailed, buyer, desktop, mishaps>>

(* A track runs, again after a recorded failure; a caller repeats a request.   *)
Begin(p) ==
    /\ p \in Issuer /\ proc[p].pc \in {"idle", "threw"} /\ proc[p].tries < MaxTries
    /\ proc' = [proc EXCEPT ![p] = [Idle EXCEPT !.pc = "insert", !.tries = proc[p].tries + 1]]
    /\ UNCHANGED <<key, lic, active, lock, mailed, buyer, desktop, mishaps>>

(* Insert first: the unique index on issuedByProvider lets one of them win.    *)
Wins(p) ==
    /\ At(p, "insert") /\ key.status = "none"
    /\ key' = [status |-> "MINTED", token |-> Token(p), used |-> FALSE, raw |-> TRUE]
    /\ proc' = [proc EXCEPT ![p] = [@ EXCEPT !.pc = "read", !.won = TRUE]]
    /\ UNCHANGED <<lic, active, lock, mailed, buyer, desktop, mishaps>>

(* Mutant: whoever finds a key that is being delivered reports success. *)
SlipTrackLoses(p) ==
    /\ p \in Event /\ At(p, "insert") /\ key.status # "none"
    /\ IF key.status \in {"DELIVERING", "DELIVERED"} THEN Ends(p, "ok") ELSE Goes(p, "read")
    /\ UNCHANGED <<key, lic, active, lock, mailed, buyer, desktop, mishaps>>

(* A track that loses delivers again, unless the licence is DELIVERED. *)
TrackLoses(p) ==
    /\ p \in Event /\ At(p, "insert") /\ key.status # "none"
    /\ IF key.status = "DELIVERED" THEN Ends(p, "ok") ELSE Goes(p, "read")
    /\ UNCHANGED <<key, lic, active, lock, mailed, buyer, desktop, mishaps>>

(* A caller delivers again only after it has claimed a recorded failure. *)
CallerLoses(p) ==
    /\ p \in Caller /\ At(p, "insert") /\ key.status # "none"
    /\ IF key.status = "DELIVERY_FAILED"
       THEN /\ key' = [key EXCEPT !.status = "DELIVERING", !.token = Token(p), !.used = FALSE]
            /\ Goes(p, "read")
       ELSE Ends(p, "ok") /\ UNCHANGED key
    /\ UNCHANGED <<lic, active, lock, mailed, buyer, desktop, mishaps>>

(* The attempt is recorded before the mail; a track that lost replaces the     *)
(* token, whose plaintext it does not have.                                    *)
Attempt(p) ==
    /\ p \in Issuer /\ At(p, "attempt")
    /\ key' = IF proc[p].won
              THEN [key EXCEPT !.status = "DELIVERING"]
              ELSE [key EXCEPT !.status = "DELIVERING", !.token = Token(p), !.used = FALSE]
    /\ Goes(p, "mail")
    /\ UNCHANGED <<lic, active, lock, mailed, buyer, desktop, mishaps>>

(* The mail service accepts, refuses, or accepts after the 10 s timeout. *)
Mail(p) ==
    /\ At(p, "mail")
    /\ \/ mailed' = mailed \cup {Token(p)} /\ Goes(p, "sent") /\ UNCHANGED mishaps
       \/ Mishap("mail") /\ Goes(p, "unsent") /\ UNCHANGED mailed
       \/ Mishap("late mail") /\ mailed' = mailed \cup {Token(p)} /\ Goes(p, "unsent")
    /\ UNCHANGED <<key, lic, active, lock, buyer, desktop>>

(* A caller that claimed writes only over its own claim; all others write      *)
(* whatever the row says by now.                                               *)
Fenced(p) == p \in Caller /\ ~ proc[p].won
Record(p, status) ==
    key' = IF Fenced(p) /\ ~ (key.status = "DELIVERING" /\ key.token = Token(p))
           THEN key ELSE [key EXCEPT !.status = status]

Delivered(p) ==
    /\ At(p, "sent") /\ Record(p, "DELIVERED") /\ Ends(p, "ok")
    /\ UNCHANGED <<lic, active, lock, mailed, buyer, desktop, mishaps>>

(* Mutant: the failed delivery is recorded, and the error swallowed. *)
SlipDeliveryFailed(p) ==
    /\ At(p, "unsent") /\ Record(p, "DELIVERY_FAILED") /\ Ends(p, "ok")
    /\ UNCHANGED <<lic, active, lock, mailed, buyer, desktop, mishaps>>

DeliveryFailed(p) ==
    /\ At(p, "unsent") /\ Record(p, "DELIVERY_FAILED") /\ Ends(p, "threw")
    /\ UNCHANGED <<lic, active, lock, mailed, buyer, desktop, mishaps>>

-----------------------------------------------------------------------------
(* Signing: the row is read, and the signature of what was read stored later   *)

ReadLicense(p) ==
    /\ At(p, "read")
    /\ proc' = [proc EXCEPT ![p] = [@ EXCEPT !.pc = "sign", !.copy = lic.machines]]
    /\ UNCHANGED <<key, lic, active, lock, mailed, buyer, desktop, mishaps>>

(* Where a signer goes on. *)
Signed(p) ==
    IF p \in Issuer THEN (IF Fenced(p) THEN "mail" ELSE "attempt")
    ELSE IF p \in Reader THEN "consume" ELSE "reply"

StoreSignature(p) ==
    /\ At(p, "sign")
    /\ lic' = [lic EXCEPT !.signed = TRUE, !.signs = proc[p].copy]
    /\ proc' = [proc EXCEPT ![p] =
          [@ EXCEPT !.pc = Signed(p), !.file = [names |-> proc[p].copy, signs |-> proc[p].copy]]]
    /\ UNCHANGED <<key, active, lock, mailed, buyer, desktop, mishaps>>

-----------------------------------------------------------------------------
(* Retrieval *)

(* Mutant: a consumed key is not noticed when its link was renewed. *)
SlipOpen(p, token) ==
    /\ p \in Reader /\ At(p, "idle") /\ token \in mailed
    /\ token = key.token /\ ~ key.used
    /\ proc' = [proc EXCEPT ![p] =
          IF lic.signed
          THEN [Idle EXCEPT !.pc = "consume",
                            !.file = [names |-> lic.machines, signs |-> lic.signs]]
          ELSE [Idle EXCEPT !.pc = "read"]]
    /\ UNCHANGED <<key, lic, active, lock, mailed, buyer, desktop, mishaps>>

(* The row is found by its token's hash; a stored signature is not made again. *)
(* What the answer names is rebuilt from the row.  perpetualFallbackBuild is   *)
(* left out: it is taken to be the one that was signed (README, section 2).    *)
Open(p, token) ==
    /\ p \in Reader /\ At(p, "idle") /\ token \in mailed
    /\ token = key.token /\ ~ key.used /\ key.raw
    /\ proc' = [proc EXCEPT ![p] =
          IF lic.signed
          THEN [Idle EXCEPT !.pc = "consume",
                            !.file = [names |-> lic.machines, signs |-> lic.signs]]
          ELSE [Idle EXCEPT !.pc = "read"]]
    /\ UNCHANGED <<key, lic, active, lock, mailed, buyer, desktop, mishaps>>

(* updateMany: the token is consumed and the key material removed in one       *)
(* write; the answer may be lost.                                              *)
Consume(p) ==
    /\ p \in Reader /\ At(p, "consume")
    /\ \/ key.used /\ UNCHANGED <<key, buyer, mishaps>>
       \/ /\ ~ key.used
          /\ key' = [key EXCEPT !.used = TRUE, !.raw = FALSE]
          /\ \/ buyer' = [knows |-> TRUE, file |-> proc[p].file] /\ UNCHANGED mishaps
             \/ Mishap("reply") /\ UNCHANGED buyer
    /\ Ends(p, "idle")
    /\ UNCHANGED <<lic, active, lock, mailed, desktop>>

-----------------------------------------------------------------------------
(* Activation *)

Activate(m) ==
    /\ m \in Machine /\ At(m, "idle") /\ buyer.knows
    /\ Goes(m, "lock")
    /\ UNCHANGED <<key, lic, active, lock, mailed, buyer, desktop, mishaps>>

(* Mutant: the License row is not locked. *)
SlipLock(m) ==
    /\ At(m, "lock")
    /\ lock' = m /\ Goes(m, "count")
    /\ UNCHANGED <<key, lic, active, mailed, buyer, desktop, mishaps>>

(* SELECT ... FOR UPDATE of the License row. *)
Lock(m) ==
    /\ At(m, "lock") /\ lock = NoOne
    /\ lock' = m /\ Goes(m, "count")
    /\ UNCHANGED <<key, lic, active, mailed, buyer, desktop, mishaps>>

(* A machine that is active already is not counted again. *)
Count(m) ==
    /\ At(m, "count")
    /\ IF m \notin active /\ Cardinality(active) >= Cap
       THEN Ends(m, "idle") /\ lock' = NoOne
       ELSE Goes(m, "commit") /\ UNCHANGED lock
    /\ UNCHANGED <<key, lic, active, mailed, buyer, desktop, mishaps>>

(* Mutant: the machines are those that were counted. *)
SlipCommit(m) ==
    /\ At(m, "commit")
    /\ active' = active \cup {m}
    /\ lic' = [lic EXCEPT !.machines = active]
    /\ lock' = NoOne /\ Goes(m, "read")
    /\ UNCHANGED <<key, mailed, buyer, desktop, mishaps>>

Commit(m) ==
    /\ At(m, "commit")
    /\ active' = active \cup {m}
    /\ lic' = [lic EXCEPT !.machines = active \cup {m}]
    /\ lock' = NoOne /\ Goes(m, "read")
    /\ UNCHANGED <<key, mailed, buyer, desktop, mishaps>>

(* The desktop stores the file of the answer, which may be lost. *)
Reply(m) ==
    /\ At(m, "reply")
    /\ \/ desktop' = [desktop EXCEPT ![m] = [state |-> "file", file |-> proc[m].file]] /\ UNCHANGED mishaps
       \/ Mishap("reply") /\ UNCHANGED desktop
    /\ Ends(m, "idle")
    /\ UNCHANGED <<key, lic, active, lock, mailed, buyer>>

(* ensure_license_operational: the server compares the file's signature with   *)
(* the stored one; a file that it calls invalid is deleted from the machine.   *)
Verify(m) ==
    /\ m \in Machine /\ desktop[m].state = "file"
    /\ lic.signs # desktop[m].file.signs
    /\ desktop' = [desktop EXCEPT ![m] = [state |-> "cleared", file |-> Blank]]
    /\ UNCHANGED <<key, lic, active, lock, mailed, buyer, proc, mishaps>>

-----------------------------------------------------------------------------
(* Faults *)

(* The steps within a try whose handler records a failed delivery. *)
Caught(p) ==
    \/ p \in Caller /\ Fenced(p) /\ proc[p].pc \in {"read", "sign", "sent"}
    \/ p \in Caller /\ proc[p].won /\ At(p, "sent")
    \/ p \in Event /\ ~ proc[p].won /\ proc[p].pc \in {"attempt", "sent"}

(* A query or the signer fails; an error that is not caught ends the run.      *)
Throws(p) ==
    /\ proc[p].pc \in {"insert", "read", "sign", "attempt", "sent", "unsent", "consume", "reply",
                       "count", "commit"}
    /\ Mishap("query")
    /\ IF Caught(p) THEN Goes(p, "unsent") ELSE Ends(p, IF p \in Issuer THEN "threw" ELSE "idle")
    /\ lock' = IF lock = p THEN NoOne ELSE lock
    /\ UNCHANGED <<key, lic, active, mailed, buyer, desktop>>

(* The process dies: the track is parked, since its handler is not replay      *)
(* safe; a request is gone, and its transaction with it.                       *)
Crash(p) ==
    /\ proc[p].pc \notin {"idle", "ok", "threw", "parked"} /\ Mishap("crash")
    /\ Ends(p, IF p \in Event THEN "parked" ELSE IF p \in Caller THEN "threw" ELSE "idle")
    /\ lock' = IF lock = p THEN NoOne ELSE lock
    /\ UNCHANGED <<key, lic, active, mailed, buyer, desktop>>

-----------------------------------------------------------------------------
Fulfils(p)  == \/ Wins(p) \/ TrackLoses(p) \/ CallerLoses(p) \/ Attempt(p) \/ Mail(p)
               \/ Delivered(p) \/ DeliveryFailed(p)
Signs(p)    == ReadLicense(p) \/ StoreSignature(p)
Retrieves(p) == (\E token \in mailed : Open(p, token)) \/ Consume(p)
Activates(m) == Activate(m) \/ Lock(m) \/ Count(m) \/ Commit(m) \/ Reply(m) \/ Verify(m)

Next ==
    \/ \E p \in Issuer : Begin(p) \/ Fulfils(p)
    \/ \E p \in Reader : Retrieves(p)
    \/ \E m \in Machine : Activates(m)
    \/ \E p \in Signer : Signs(p) \/ Throws(p) \/ Crash(p)

(* The retry queue runs a failed track again, and whatever runs goes on. *)
Fairness == \A p \in Event : WF_vars(Begin(p) \/ Fulfils(p) \/ Signs(p))

Spec == Init /\ [][Next]_vars /\ Fairness
=============================================================================

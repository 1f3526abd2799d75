---------------------------- MODULE LicenseProofs ----------------------------
(***************************************************************************)
(* The safety of LicenseKeys, for every number of events, callers,         *)
(* readers and machines, every cap and any number of mishaps.              *)
(***************************************************************************)
EXTENDS LicenseSafety, FiniteSetTheorems, TLAPS

(* Nobody mails before the licence is signed. *)
SignedFirst ==
    /\ mailed # {} => lic.signed
    /\ \A p \in Issuer :
          /\ proc[p].pc \in {"attempt", "mail", "sent"} => lic.signed
          /\ proc[p].pc = "sent" => mailed # {}

(* Until the buyer has the key nothing is activated, and nobody signs machines. *)
NothingActive ==
    /\ active = {} /\ lic.machines = {} /\ lic.signs = {}
    /\ \A p \in Signer : proc[p].copy = {}
    /\ \A m \in Machine : proc[m].pc = "idle"

KeyFirst ==
    /\ ~ buyer.knows => NothingActive
    /\ key.raw => ~ buyer.knows
    /\ key.status = "none" =>
          ~ buyer.knows /\ ~ key.raw /\ \A p \in Reader : proc[p].pc = "idle"
    /\ \A p \in Reader : proc[p].file.names = proc[p].file.signs

(* The lock covers the count and the commit. *)
Locked ==
    \A m \in Machine :
        /\ proc[m].pc \in {"count", "commit"} => lock = m
        /\ proc[m].pc = "commit" => m \in active \/ Cardinality(active) < Cap

(* What a machine signs for names it. *)
Named ==
    \A m \in Machine :
        /\ proc[m].pc \in {"read", "sign", "reply"} => m \in active
        /\ proc[m].pc = "sign" => m \in proc[m].copy
        /\ proc[m].pc = "reply" => m \in proc[m].file.names

LicenseInv ==
    /\ SignedFirst /\ SuccessMeansMailed
    /\ KeyFirst /\ RetrievedFileVerifies
    /\ Locked /\ CapHolds
    /\ Named /\ FileNamesMachine

-----------------------------------------------------------------------------
LEMMA IdleType == Idle \in Procs
<1>1. 0 \in 0..MaxTries /\ Blank \in File /\ {} \in SUBSET Machine
  BY LicenseAssumption DEF Blank, File
<1> QED BY <1>1 DEF Idle, Procs, Places

(* What the rows are written with. *)
LEMMA KeyType ==
    ASSUME NEW k \in Keys,
           NEW s \in Statuses, NEW t \in Tokens
    PROVE  /\ [k EXCEPT !.status = s] \in Keys
           /\ [k EXCEPT !.status = s, !.token = t, !.used = FALSE] \in Keys
BY DEF Keys

LEMMA ConsumedType == ASSUME NEW k \in Keys PROVE [k EXCEPT !.used = TRUE, !.raw = FALSE] \in Keys
BY DEF Keys

LEMMA WonType ==
    ASSUME NEW r \in Procs, NEW b \in BOOLEAN
    PROVE  [r EXCEPT !.pc = "read", !.won = b] \in Procs
BY DEF Procs, Places

LEMMA BuyerType ==
    ASSUME NEW f \in File, NEW b \in BOOLEAN
    PROVE  [knows |-> b, file |-> f] \in [knows : BOOLEAN, file : File]
OBVIOUS

LEMMA MishapType == ASSUME TypeOK, NEW kind, Mishap(kind) PROVE mishaps' \in 0..MaxMishaps
BY LicenseAssumption DEF TypeOK, Mishap

LEMMA InitType == Init => TypeOK
BY IdleType, LicenseAssumption DEF Init, TypeOK, Keys, Statuses, Tokens, NoToken, Blank, File

(* Where a run goes; all else about it stays. *)
LEMMA GoesFacts ==
    ASSUME TypeOK, NEW p \in Signer, NEW to \in Places, Goes(p, to)
    PROVE  /\ proc' \in [Signer -> Procs]
           /\ proc'[p].pc = to
           /\ \A q \in Signer : /\ q # p => proc'[q] = proc[q]
                                /\ proc'[q].copy = proc[q].copy /\ proc'[q].file = proc[q].file
BY DEF Goes, TypeOK, Procs

(* A run that ends forgets what it had in hand. *)
LEMMA EndsFacts ==
    ASSUME TypeOK, NEW p \in Signer, NEW as \in Places, Ends(p, as)
    PROVE  /\ proc' \in [Signer -> Procs]
           /\ proc'[p].pc = as /\ proc'[p].copy = {} /\ proc'[p].file = Blank
           /\ \A q \in Signer : q # p => proc'[q] = proc[q]
<1> DEFINE r == [Idle EXCEPT !.pc = as, !.tries = proc[p].tries]
<1>1. r \in Procs /\ r.pc = as /\ r.copy = {} /\ r.file = Blank
  BY IdleType DEF TypeOK, Procs, Idle
<1>2. proc' = [proc EXCEPT ![p] = r]
  BY DEF Ends
<1> HIDE DEF r
<1> QED BY <1>1, <1>2 DEF TypeOK

LEMMA SetsFacts ==
    ASSUME TypeOK, NEW p \in Signer, NEW r \in Procs, proc' = [proc EXCEPT ![p] = r]
    PROVE  /\ proc' \in [Signer -> Procs]
           /\ proc'[p] = r
           /\ \A q \in Signer : q # p => proc'[q] = proc[q]
BY DEF TypeOK

LEMMA TokenType == ASSUME TypeOK, NEW p \in Issuer PROVE Token(p) \in Tokens
BY LicenseAssumption DEF Token, Tokens, TypeOK, Procs, Signer

LEMMA TypeStep == TypeOK /\ [Next]_vars => TypeOK'
<1> SUFFICES ASSUME TypeOK, [Next]_vars PROVE TypeOK'
  OBVIOUS
<1> USE LicenseAssumption DEF Places, Statuses
<1>0. Issuer \subseteq Signer /\ Reader \subseteq Signer /\ Machine \subseteq Signer
  BY DEF Signer
<1>1. ASSUME NEW p \in Issuer, Begin(p) PROVE TypeOK'
  <2> DEFINE k == proc[p].tries + 1
             r == [Idle EXCEPT !.pc = "insert", !.tries = k]
  <2>1. k \in 0..MaxTries
    BY <1>0, <1>1 DEF Begin, TypeOK, Procs
  <2> HIDE DEF k
  <2>2. r \in Procs
    BY <2>1, IdleType DEF Procs
  <2>3. proc' = [proc EXCEPT ![p] = r]
    BY <1>1 DEF Begin, k
  <2> HIDE DEF r
  <2> QED BY <1>0, <1>1, <2>2, <2>3 DEF Begin, TypeOK
<1>2. ASSUME NEW p \in Issuer, Wins(p) PROVE TypeOK'
  <2>1. [proc[p] EXCEPT !.pc = "read", !.won = TRUE] \in Procs
    BY <1>0, WonType DEF TypeOK
  <2>2. proc' \in [Signer -> Procs]
    BY <1>0, <1>2, <2>1, SetsFacts DEF Wins
  <2> QED BY <1>2, <2>2, TokenType DEF Wins, TypeOK, Keys
<1>3. ASSUME NEW p \in Issuer, TrackLoses(p) PROVE TypeOK'
  <2>1. proc' \in [Signer -> Procs]
    BY <1>0, <1>3, GoesFacts, EndsFacts DEF TrackLoses
  <2> QED BY <1>3, <2>1 DEF TrackLoses, TypeOK
<1>4. ASSUME NEW p \in Issuer, CallerLoses(p) PROVE TypeOK'
  <2>1. proc' \in [Signer -> Procs]
    BY <1>0, <1>4, GoesFacts, EndsFacts DEF CallerLoses
  <2>2. key' \in Keys
    <3>1. CASE UNCHANGED key
      BY <3>1 DEF TypeOK
    <3>2. CASE key' = [key EXCEPT !.status = "DELIVERING", !.token = Token(p), !.used = FALSE]
      BY <3>2, TokenType, KeyType DEF TypeOK
    <3> QED BY <1>4, <3>1, <3>2 DEF CallerLoses
  <2> QED BY <1>4, <2>1, <2>2 DEF CallerLoses, TypeOK
<1>5. ASSUME NEW p \in Issuer, Attempt(p) PROVE TypeOK'
  <2>1. proc' \in [Signer -> Procs]
    BY <1>0, <1>5, GoesFacts DEF Attempt
  <2> QED BY <1>5, <2>1, TokenType, KeyType DEF Attempt, TypeOK
<1>6. ASSUME NEW p \in Issuer, Mail(p) PROVE TypeOK'
  <2>1. proc' \in [Signer -> Procs]
    BY <1>0, <1>6, GoesFacts DEF Mail
  <2>2. mishaps' \in 0..MaxMishaps
    BY <1>6, MishapType DEF Mail, TypeOK
  <2> QED BY <1>6, <2>1, <2>2, TokenType DEF Mail, TypeOK
<1>7. ASSUME NEW p \in Issuer, Delivered(p) \/ DeliveryFailed(p) PROVE TypeOK'
  <2>1. proc' \in [Signer -> Procs]
    BY <1>0, <1>7, EndsFacts DEF Delivered, DeliveryFailed
  <2> QED BY <1>7, <2>1, KeyType, TokenType DEF Delivered, DeliveryFailed, Record, TypeOK
<1>8. ASSUME NEW p \in Signer, ReadLicense(p) PROVE TypeOK'
  <2>0. [proc[p] EXCEPT !.pc = "sign", !.copy = lic.machines] \in Procs
    BY DEF TypeOK, Procs
  <2>1. proc' \in [Signer -> Procs]
    BY <1>8, <2>0, SetsFacts DEF ReadLicense
  <2> QED BY <1>8, <2>1 DEF ReadLicense, TypeOK
<1>9. ASSUME NEW p \in Signer, StoreSignature(p) PROVE TypeOK'
  <2> DEFINE f == [names |-> proc[p].copy, signs |-> proc[p].copy]
             to == Signed(p)
  <2>0. f \in File /\ to \in Places /\ proc[p] \in Procs
    BY DEF TypeOK, Procs, File, Signed
  <2>2. proc' = [proc EXCEPT ![p] = [@ EXCEPT !.pc = to, !.file = f]]
    BY <1>9 DEF StoreSignature
  <2> HIDE DEF f, to
  <2>3. [proc[p] EXCEPT !.pc = to, !.file = f] \in Procs
    BY <2>0 DEF Procs
  <2>1. proc' \in [Signer -> Procs]
    BY <2>2, <2>3, SetsFacts
  <2> QED BY <1>9, <2>1 DEF StoreSignature, TypeOK, Procs
<1>10. ASSUME NEW p \in Reader, NEW token, Open(p, token) PROVE TypeOK'
  <2> DEFINE r == IF lic.signed
                  THEN [Idle EXCEPT !.pc = "consume",
                                    !.file = [names |-> lic.machines, signs |-> lic.signs]]
                  ELSE [Idle EXCEPT !.pc = "read"]
  <2>1. r \in Procs
    BY IdleType DEF TypeOK, Procs, File
  <2>2. proc' = [proc EXCEPT ![p] = r]
    BY <1>10 DEF Open
  <2> HIDE DEF r
  <2> QED BY <1>0, <1>10, <2>1, <2>2 DEF Open, TypeOK
<1>11. ASSUME NEW p \in Reader, Consume(p) PROVE TypeOK'
  <2>1. proc' \in [Signer -> Procs]
    BY <1>0, <1>11, EndsFacts DEF Consume
  <2>2. mishaps' \in 0..MaxMishaps
    BY <1>11, MishapType DEF Consume, TypeOK
  <2>3. key' \in Keys
    <3>1. CASE UNCHANGED key
      BY <3>1 DEF TypeOK
    <3>2. CASE key' = [key EXCEPT !.used = TRUE, !.raw = FALSE]
      BY <3>2, ConsumedType DEF TypeOK
    <3> QED BY <1>11, <3>1, <3>2 DEF Consume
  <2>4. buyer' \in [knows : BOOLEAN, file : File]
    <3>1. CASE UNCHANGED buyer
      BY <3>1 DEF TypeOK
    <3>2. CASE buyer' = [knows |-> TRUE, file |-> proc[p].file]
      BY <1>0, <3>2, BuyerType DEF TypeOK, Procs
    <3> QED BY <1>11, <3>1, <3>2 DEF Consume
  <2> QED BY <1>11, <2>1, <2>2, <2>3, <2>4 DEF Consume, TypeOK
<1>12. ASSUME NEW m \in Machine, Activate(m) \/ Lock(m) \/ Count(m) \/ Commit(m) PROVE TypeOK'
  <2>1. proc' \in [Signer -> Procs]
    BY <1>0, <1>12, GoesFacts, EndsFacts DEF Activate, Lock, Count, Commit
  <2> QED BY <1>12, <2>1 DEF Activate, Lock, Count, Commit, TypeOK
<1>13. ASSUME NEW m \in Machine, Reply(m) PROVE TypeOK'
  <2>1. proc' \in [Signer -> Procs]
    BY <1>0, <1>13, EndsFacts DEF Reply
  <2>2. mishaps' \in 0..MaxMishaps
    BY <1>13, MishapType DEF Reply, TypeOK
  <2>3. proc[m].file \in File
    BY <1>0 DEF TypeOK, Procs
  <2> QED BY <1>13, <2>1, <2>2, <2>3 DEF Reply, TypeOK
<1>14. ASSUME NEW m \in Machine, Verify(m) PROVE TypeOK'
  BY <1>14 DEF Verify, TypeOK, Blank, File
<1>15. ASSUME NEW p \in Signer, Throws(p) \/ Crash(p) PROVE TypeOK'
  <2>1. proc' \in [Signer -> Procs]
    BY <1>15, GoesFacts, EndsFacts DEF Throws, Crash
  <2> QED BY <1>15, <2>1 DEF Throws, Crash, TypeOK, Mishap
<1>16. CASE UNCHANGED vars
  BY <1>16 DEF vars, TypeOK
<1> QED
  BY <1>1, <1>2, <1>3, <1>4, <1>5, <1>6, <1>7, <1>8, <1>9, <1>10, <1>11, <1>12, <1>13, <1>14,
     <1>15, <1>16
     DEF Next, Fulfils, Signs, Retrieves, Activates

(* Rows, requests and files stay well formed. *)
THEOREM LicenseTypes == Spec => []TypeOK
BY InitType, TypeStep, PTL DEF Spec

-----------------------------------------------------------------------------
(* What each step does to the run that takes it: where it was, where it goes,  *)
(* and what it has in hand.                                                    *)
Others(p) == \A q \in Signer : q # p => proc'[q] = proc[q]
Keeps(p)  == proc'[p].copy = proc[p].copy /\ proc'[p].file = proc[p].file
Forgets(p) == proc'[p].copy = {} /\ proc'[p].file = Blank

LEMMA BeginFacts ==
    ASSUME TypeOK, NEW p \in Issuer, Begin(p)
    PROVE  Others(p) /\ Forgets(p) /\ proc'[p].pc = "insert"
<1> DEFINE k == proc[p].tries + 1
           r == [Idle EXCEPT !.pc = "insert", !.tries = k]
<1>1. r.pc = "insert" /\ r.copy = {} /\ r.file = Blank
  BY DEF Idle
<1>2. proc' = [proc EXCEPT ![p] = r] /\ p \in Signer
  BY DEF Begin, Signer
<1> HIDE DEF r
<1> QED BY <1>1, <1>2 DEF TypeOK, Others, Forgets

LEMMA StepFacts ==
    ASSUME TypeOK, NEW p \in Signer, NEW to \in Places
    PROVE  /\ Goes(p, to) => Others(p) /\ Keeps(p) /\ proc'[p].pc = to
           /\ Ends(p, to) => Others(p) /\ Forgets(p) /\ proc'[p].pc = to
BY GoesFacts, EndsFacts DEF Others, Keeps, Forgets

LEMMA WinsFacts ==
    ASSUME TypeOK, NEW p \in Issuer, Wins(p)
    PROVE  Others(p) /\ Keeps(p) /\ proc'[p].pc = "read"
<1>1. p \in Signer /\ proc[p] \in Procs /\ DOMAIN proc = Signer
  BY DEF Signer, TypeOK
<1>2. proc' = [proc EXCEPT ![p] = [@ EXCEPT !.pc = "read", !.won = TRUE]]
  BY DEF Wins
<1> QED BY <1>1, <1>2 DEF Others, Keeps, Procs

LEMMA ReadFacts ==
    ASSUME TypeOK, NEW p \in Signer, ReadLicense(p)
    PROVE  /\ Others(p) /\ proc'[p].pc = "sign"
           /\ proc'[p].copy = lic.machines /\ proc'[p].file = proc[p].file
<1>1. proc[p] \in Procs /\ DOMAIN proc = Signer
  BY DEF TypeOK
<1>2. proc' = [proc EXCEPT ![p] = [@ EXCEPT !.pc = "sign", !.copy = lic.machines]]
  BY DEF ReadLicense
<1> QED BY <1>1, <1>2 DEF Others, Procs

LEMMA StoreFacts ==
    ASSUME TypeOK, NEW p \in Signer, StoreSignature(p)
    PROVE  /\ Others(p) /\ proc'[p].pc = Signed(p) /\ proc'[p].copy = proc[p].copy
           /\ proc'[p].file = [names |-> proc[p].copy, signs |-> proc[p].copy]
<1> DEFINE f == [names |-> proc[p].copy, signs |-> proc[p].copy]
           to == Signed(p)
<1>1. proc[p] \in Procs /\ DOMAIN proc = Signer
  BY DEF TypeOK
<1>2. proc' = [proc EXCEPT ![p] = [@ EXCEPT !.pc = to, !.file = f]]
  BY DEF StoreSignature
<1> HIDE DEF f, to
<1>3. Others(p) /\ proc'[p].pc = to /\ proc'[p].copy = proc[p].copy /\ proc'[p].file = f
  BY <1>1, <1>2 DEF Others, Procs
<1> QED BY <1>3 DEF f, to

LEMMA OpenFacts ==
    ASSUME TypeOK, NEW p \in Reader, NEW token, Open(p, token)
    PROVE  /\ Others(p) /\ proc'[p].copy = {} /\ proc'[p].pc \in {"read", "consume"}
           /\ \/ proc'[p].file = Blank
              \/ proc'[p].file = [names |-> lic.machines, signs |-> lic.signs]
<1> DEFINE f == [names |-> lic.machines, signs |-> lic.signs]
           r == IF lic.signed THEN [Idle EXCEPT !.pc = "consume", !.file = f]
                ELSE [Idle EXCEPT !.pc = "read"]
<1>1. r.copy = {} /\ r.pc \in {"read", "consume"} /\ (r.file = Blank \/ r.file = f)
  <2> HIDE DEF f
  <2> QED BY DEF Idle
<1>2. proc' = [proc EXCEPT ![p] = r] /\ p \in Signer
  BY DEF Open, Signer
<1> HIDE DEF r
<1> QED BY <1>1, <1>2 DEF TypeOK, Others

LEMMA KindsDiffer ==
    /\ Issuer \subseteq Signer /\ Reader \subseteq Signer /\ Machine \subseteq Signer
    /\ \A p \in Machine : p \notin Issuer /\ p \notin Reader
    /\ \A p \in Reader : p \notin Issuer
BY ProcsAssumption DEF Signer

-----------------------------------------------------------------------------
(* Signed, mailed, reported, in this order. *)
LEMMA SignedStep ==
    ASSUME TypeOK, SignedFirst, SuccessMeansMailed, [Next]_vars
    PROVE  SignedFirst' /\ SuccessMeansMailed'
<1> USE KindsDiffer DEF At, Places
<1>0. /\ lic.signed => lic'.signed
      /\ mailed \subseteq mailed'
  BY DEF Next, vars, Fulfils, Signs, Retrieves, Activates, Begin, Wins, TrackLoses, CallerLoses,
         Attempt, Mail, Delivered, DeliveryFailed, ReadLicense, StoreSignature, Open, Consume,
         Activate, Lock, Count, Commit, Reply, Verify, Throws, Crash, TypeOK
<1>1. ASSUME NEW p \in Signer, Others(p), mailed' # {} => lic'.signed,
             p \in Issuer =>
                /\ proc'[p].pc \in {"attempt", "mail", "sent"} => lic'.signed
                /\ proc'[p].pc = "sent" => mailed' # {},
             p \in Event /\ proc'[p].pc = "ok" => lic'.signed /\ mailed' # {},
             key'.status = "DELIVERED" => lic'.signed /\ mailed' # {}
      PROVE  SignedFirst' /\ SuccessMeansMailed'
  BY <1>0, <1>1 DEF Others, SignedFirst, SuccessMeansMailed, Issuer
<1>2. ASSUME NEW p \in Issuer, Begin(p) PROVE SignedFirst' /\ SuccessMeansMailed'
  BY <1>1, <1>2, BeginFacts DEF Begin, SignedFirst, SuccessMeansMailed
<1>3. ASSUME NEW p \in Issuer, Wins(p) PROVE SignedFirst' /\ SuccessMeansMailed'
  BY <1>1, <1>3, WinsFacts DEF Wins, SignedFirst, SuccessMeansMailed
<1>4. ASSUME NEW p \in Issuer, TrackLoses(p) PROVE SignedFirst' /\ SuccessMeansMailed'
  BY <1>1, <1>4, StepFacts DEF TrackLoses, SignedFirst, SuccessMeansMailed
<1>5. ASSUME NEW p \in Issuer, CallerLoses(p) PROVE SignedFirst' /\ SuccessMeansMailed'
  <2>1. key'.status = "DELIVERED" => key.status = "DELIVERED"
    BY <1>5 DEF CallerLoses, TypeOK, Keys
  <2>2. p \notin Event
    BY <1>5, ProcsAssumption DEF CallerLoses
  <2> QED BY <1>1, <1>5, <2>1, <2>2, StepFacts DEF CallerLoses, SignedFirst, SuccessMeansMailed
<1>6. ASSUME NEW p \in Issuer, Attempt(p) PROVE SignedFirst' /\ SuccessMeansMailed'
  <2>1. key'.status # "DELIVERED"
    BY <1>6 DEF Attempt, TypeOK, Keys
  <2>2. lic'.signed
    BY <1>6 DEF Attempt, SignedFirst
  <2> QED BY <1>1, <1>6, <2>1, <2>2, StepFacts DEF Attempt, SignedFirst
<1>7. ASSUME NEW p \in Issuer, Mail(p) PROVE SignedFirst' /\ SuccessMeansMailed'
  <2>1. lic'.signed /\ key' = key
    BY <1>7 DEF Mail, SignedFirst
  <2>2. PICK to \in {"sent", "unsent"} : Goes(p, to) /\ (to = "sent" => mailed' # {})
    BY <1>7 DEF Mail
  <2>3. Others(p) /\ proc'[p].pc = to
    BY <2>2, StepFacts
  <2> QED BY <1>0, <1>1, <1>7, <2>1, <2>2, <2>3 DEF SuccessMeansMailed
<1>8. ASSUME NEW p \in Issuer, Delivered(p) PROVE SignedFirst' /\ SuccessMeansMailed'
  <2>1. lic'.signed /\ mailed' # {}
    BY <1>8 DEF Delivered, SignedFirst
  <2>2. Others(p)
    BY <1>8, StepFacts DEF Delivered
  <2> QED BY <1>1, <1>8, <2>1, <2>2
<1>9. ASSUME NEW p \in Issuer, DeliveryFailed(p) PROVE SignedFirst' /\ SuccessMeansMailed'
  <2>1. key'.status = "DELIVERED" => key.status = "DELIVERED"
    BY <1>9 DEF DeliveryFailed, Record, TypeOK, Keys
  <2>2. Others(p) /\ proc'[p].pc = "threw"
    BY <1>9, StepFacts DEF DeliveryFailed
  <2> QED BY <1>1, <1>9, <2>1, <2>2 DEF DeliveryFailed, SignedFirst, SuccessMeansMailed
<1>10. ASSUME NEW p \in Signer, ReadLicense(p) PROVE SignedFirst' /\ SuccessMeansMailed'
  BY <1>1, <1>10, ReadFacts DEF ReadLicense, SignedFirst, SuccessMeansMailed
<1>11. ASSUME NEW p \in Signer, StoreSignature(p) PROVE SignedFirst' /\ SuccessMeansMailed'
  <2>1. lic'.signed /\ key' = key /\ mailed' = mailed
    BY <1>11 DEF StoreSignature, TypeOK
  <2>2. Others(p) /\ proc'[p].pc \in {"mail", "attempt", "consume", "reply"}
    BY <1>11, StoreFacts DEF Signed
  <2> QED BY <1>1, <2>1, <2>2 DEF SuccessMeansMailed
<1>12. ASSUME NEW p \in Reader, NEW token, Open(p, token) PROVE SignedFirst' /\ SuccessMeansMailed'
  BY <1>1, <1>12, OpenFacts DEF Open, SignedFirst, SuccessMeansMailed, Issuer
<1>13. ASSUME NEW p \in Reader, Consume(p) PROVE SignedFirst' /\ SuccessMeansMailed'
  <2>1. key'.status = key.status
    BY <1>13 DEF Consume, TypeOK, Keys
  <2> QED BY <1>1, <1>13, <2>1, StepFacts DEF Consume, SignedFirst, SuccessMeansMailed, Issuer
<1>14. ASSUME NEW m \in Machine, Activates(m) PROVE SignedFirst' /\ SuccessMeansMailed'
  <2>1. /\ \A q \in Issuer : proc'[q] = proc[q]
        /\ UNCHANGED <<key, mailed>>
    BY <1>14, StepFacts
       DEF Activates, Activate, Lock, Count, Commit, Reply, Verify, Others
  <2> QED BY <1>0, <2>1 DEF SignedFirst, SuccessMeansMailed, Issuer
<1>15. ASSUME NEW p \in Signer, Throws(p) \/ Crash(p) PROVE SignedFirst' /\ SuccessMeansMailed'
  <2>1. Others(p) /\ proc'[p].pc \in {"unsent", "threw", "idle", "parked"}
    BY <1>15, StepFacts DEF Throws, Crash
  <2>2. UNCHANGED <<key, lic, mailed>>
    BY <1>15 DEF Throws, Crash
  <2> QED BY <1>1, <2>1, <2>2 DEF SignedFirst, SuccessMeansMailed
<1>16. CASE UNCHANGED vars
  BY <1>16 DEF vars, SignedFirst, SuccessMeansMailed
<1> QED
  BY <1>2, <1>3, <1>4, <1>5, <1>6, <1>7, <1>8, <1>9, <1>10, <1>11, <1>12, <1>13, <1>14, <1>15, <1>16
     DEF Next, Fulfils, Signs, Retrieves

-----------------------------------------------------------------------------
(* Until the key is retrieved, no signature covers a machine. *)
LEMMA KeyStep ==
    ASSUME TypeOK, KeyFirst, RetrievedFileVerifies, [Next]_vars
    PROVE  KeyFirst' /\ RetrievedFileVerifies'
<1> USE KindsDiffer DEF At, Places
<1>0. ASSUME NEW p \in Signer, Others(p), UNCHANGED buyer,
             ~ buyer.knows =>
                /\ active' = {} /\ lic'.machines = {} /\ lic'.signs = {}
                /\ proc'[p].copy = {} /\ (p \in Machine => proc'[p].pc = "idle"),
             key'.raw => ~ buyer.knows,
             key'.status = "none" =>
                /\ key.status = "none" /\ ~ key'.raw
                /\ p \in Reader => proc'[p].pc = "idle",
             p \in Reader => proc'[p].file.names = proc'[p].file.signs
      PROVE  KeyFirst' /\ RetrievedFileVerifies'
  BY <1>0 DEF Others, KeyFirst, NothingActive, RetrievedFileVerifies
<1>2. ASSUME NEW p \in Issuer, Begin(p) PROVE KeyFirst' /\ RetrievedFileVerifies'
  BY <1>0, <1>2, BeginFacts DEF Begin, KeyFirst, NothingActive, Forgets
<1>3. ASSUME NEW p \in Issuer, Wins(p) PROVE KeyFirst' /\ RetrievedFileVerifies'
  BY <1>0, <1>3, WinsFacts DEF Wins, KeyFirst, NothingActive, Keeps
<1>4. ASSUME NEW p \in Issuer, TrackLoses(p) PROVE KeyFirst' /\ RetrievedFileVerifies'
  BY <1>0, <1>4, StepFacts DEF TrackLoses, KeyFirst, NothingActive, Keeps, Forgets
<1>5. ASSUME NEW p \in Issuer, CallerLoses(p) \/ Attempt(p) \/ Delivered(p) \/ DeliveryFailed(p)
      PROVE  KeyFirst' /\ RetrievedFileVerifies'
  <2>1. key'.raw = key.raw /\ (key'.status = "none" => key.status = "none")
    BY <1>5 DEF CallerLoses, Attempt, Delivered, DeliveryFailed, Record, TypeOK, Keys
  <2>2. Others(p) /\ (proc'[p].copy = proc[p].copy \/ proc'[p].copy = {})
    BY <1>5, StepFacts DEF CallerLoses, Attempt, Delivered, DeliveryFailed, Keeps, Forgets
  <2>3. UNCHANGED <<lic, active, buyer>>
    BY <1>5 DEF CallerLoses, Attempt, Delivered, DeliveryFailed
  <2> QED BY <1>0, <2>1, <2>2, <2>3 DEF KeyFirst, NothingActive
<1>6. ASSUME NEW p \in Issuer, Mail(p) PROVE KeyFirst' /\ RetrievedFileVerifies'
  <2>1. Others(p) /\ Keeps(p)
    BY <1>6, StepFacts DEF Mail
  <2> QED BY <1>0, <1>6, <2>1 DEF Mail, KeyFirst, NothingActive, Keeps
<1>7. ASSUME NEW p \in Signer, ReadLicense(p) PROVE KeyFirst' /\ RetrievedFileVerifies'
  BY <1>0, <1>7, ReadFacts DEF ReadLicense, KeyFirst, NothingActive
<1>8. ASSUME NEW p \in Signer, StoreSignature(p) PROVE KeyFirst' /\ RetrievedFileVerifies'
  <2>1. lic'.machines = lic.machines /\ lic'.signs = proc[p].copy
    BY <1>8 DEF StoreSignature, TypeOK
  <2>2. proc'[p].file.names = proc'[p].file.signs
    <3> DEFINE c == proc[p].copy
    <3>1. proc'[p].file = [names |-> c, signs |-> c]
      BY <1>8, StoreFacts
    <3> HIDE DEF c
    <3> QED BY <3>1
  <2> QED BY <1>0, <1>8, <2>1, <2>2, StoreFacts DEF StoreSignature, KeyFirst, NothingActive
<1>9. ASSUME NEW p \in Reader, NEW token, Open(p, token) PROVE KeyFirst' /\ RetrievedFileVerifies'
  <2>1. key.raw /\ NothingActive
    BY <1>9 DEF Open, KeyFirst
  <2>2. proc'[p].file.names = proc'[p].file.signs
    BY <1>9, <2>1, OpenFacts DEF NothingActive, Blank
  <2> QED BY <1>0, <1>9, <2>1, <2>2, OpenFacts DEF Open, KeyFirst, NothingActive
<1>10. ASSUME NEW p \in Reader, Consume(p) PROVE KeyFirst' /\ RetrievedFileVerifies'
  <2>1. /\ Others(p) /\ Forgets(p) /\ proc'[p].pc = "idle"
        /\ key'.status = key.status /\ (key'.raw => key.raw)
        /\ UNCHANGED <<lic, active>> /\ key.status # "none"
    BY <1>10, StepFacts DEF Consume, KeyFirst, TypeOK, Keys
  <2>2. proc'[p].file.names = proc'[p].file.signs
    BY <2>1 DEF Forgets, Blank
  <2>3. CASE UNCHANGED buyer
    BY <1>0, <2>1, <2>2, <2>3 DEF KeyFirst, NothingActive, Forgets
  <2>4. CASE /\ key' = [key EXCEPT !.used = TRUE, !.raw = FALSE]
             /\ buyer' = [knows |-> TRUE, file |-> proc[p].file]
    <3>1. buyer'.knows /\ buyer'.file.names = buyer'.file.signs /\ ~ key'.raw
      BY <2>4 DEF KeyFirst, TypeOK, Keys
    <3> QED BY <2>1, <2>2, <3>1 DEF KeyFirst, RetrievedFileVerifies, Others
  <2> QED BY <1>10, <2>3, <2>4 DEF Consume
<1>11. ASSUME NEW m \in Machine, Activates(m) PROVE KeyFirst' /\ RetrievedFileVerifies'
  <2>1. buyer.knows \/ Verify(m)
    BY <1>11 DEF Activates, Activate, Lock, Count, Commit, Reply, KeyFirst, NothingActive
  <2>2. UNCHANGED <<key, buyer>> /\ \A q \in Reader : proc'[q] = proc[q]
    BY <1>11, StepFacts
       DEF Activates, Activate, Lock, Count, Commit, Reply, Verify, Others
  <2> QED BY <2>1, <2>2 DEF Verify, KeyFirst, NothingActive, RetrievedFileVerifies
<1>12. ASSUME NEW p \in Signer, Throws(p) \/ Crash(p) PROVE KeyFirst' /\ RetrievedFileVerifies'
  <2>1. /\ Others(p) /\ UNCHANGED <<key, lic, active, buyer>>
        /\ (Keeps(p) /\ p \in Caller \cup Event) \/ Forgets(p)
        /\ p \notin Issuer => proc'[p].pc = "idle"
    BY <1>12, StepFacts, ProcsAssumption DEF Throws, Crash, Caught, Issuer
  <2>2. p \in Reader => proc'[p].file.names = proc'[p].file.signs
    <3>1. CASE Forgets(p)
      BY <3>1 DEF Forgets, Blank
    <3>2. CASE Keeps(p)
      BY <3>2 DEF KeyFirst, Keeps
    <3> QED BY <2>1, <3>1, <3>2
  <2> QED BY <1>0, <2>1, <2>2 DEF KeyFirst, NothingActive, Keeps, Forgets, Issuer
<1>13. CASE UNCHANGED vars
  BY <1>13 DEF vars, KeyFirst, NothingActive, RetrievedFileVerifies
<1> QED
  BY <1>2, <1>3, <1>4, <1>5, <1>6, <1>7, <1>8, <1>9, <1>10, <1>11, <1>12, <1>13
     DEF Next, Fulfils, Signs, Retrieves

-----------------------------------------------------------------------------
(* One machine at a time counts and commits, and the count stays true. *)
LEMMA CapStep ==
    ASSUME TypeOK, Locked, CapHolds, [Next]_vars
    PROVE  Locked' /\ CapHolds'
<1> USE KindsDiffer DEF At, Places
<1>0. ASSUME NEW p \in Signer, Others(p), UNCHANGED <<active, lock>>, lic'.machines = lic.machines,
             proc'[p].pc \notin {"count", "commit"}
      PROVE  Locked' /\ CapHolds'
  BY <1>0 DEF Others, Locked, CapHolds
<1>1. ASSUME NEW p \in Issuer, Begin(p) \/ Fulfils(p) PROVE Locked' /\ CapHolds'
  <2>1. Others(p) /\ proc'[p].pc \notin {"count", "commit"}
    BY <1>1, BeginFacts, WinsFacts, StepFacts
       DEF Fulfils, TrackLoses, CallerLoses, Attempt, Mail, Delivered, DeliveryFailed
  <2>2. UNCHANGED <<active, lock, lic>>
    BY <1>1 DEF Fulfils, Begin, Wins, TrackLoses, CallerLoses, Attempt, Mail, Delivered, DeliveryFailed
  <2> QED BY <1>0, <2>1, <2>2
<1>2. ASSUME NEW p \in Reader, Retrieves(p) PROVE Locked' /\ CapHolds'
  <2>1. Others(p) /\ proc'[p].pc \notin {"count", "commit"}
    BY <1>2, OpenFacts, StepFacts DEF Retrieves, Consume
  <2> QED BY <1>0, <1>2, <2>1 DEF Retrieves, Open, Consume
<1>3. ASSUME NEW p \in Signer, Signs(p) PROVE Locked' /\ CapHolds'
  <2>1. Others(p) /\ proc'[p].pc \notin {"count", "commit"}
    BY <1>3, ReadFacts, StoreFacts DEF Signs, Signed
  <2>2. UNCHANGED <<active, lock>> /\ lic'.machines = lic.machines
    BY <1>3 DEF Signs, ReadLicense, StoreSignature, TypeOK
  <2> QED BY <1>0, <2>1, <2>2
<1>4. ASSUME NEW m \in Machine, Activate(m) \/ Reply(m) PROVE Locked' /\ CapHolds'
  BY <1>0, <1>4, StepFacts DEF Activate, Reply
<1>5. ASSUME NEW m \in Machine, Lock(m) PROVE Locked' /\ CapHolds'
  <2>1. Others(m) /\ proc'[m].pc = "count"
    BY <1>5, StepFacts DEF Lock
  <2> QED BY <1>5, <2>1, ProcsAssumption DEF Lock, Locked, CapHolds, Others
<1>6. ASSUME NEW m \in Machine, Count(m) PROVE Locked' /\ CapHolds'
  <2>1. CASE m \notin active /\ Cardinality(active) >= Cap
    <3>1. Others(m) /\ proc'[m].pc = "idle" /\ UNCHANGED <<active, lic>>
      BY <1>6, <2>1, StepFacts DEF Count
    <3> QED BY <1>6, <3>1 DEF Count, Locked, CapHolds, Others
  <2>2. CASE ~ (m \notin active /\ Cardinality(active) >= Cap)
    <3>1. Others(m) /\ proc'[m].pc = "commit" /\ UNCHANGED <<active, lic, lock>>
      BY <1>6, <2>2, StepFacts DEF Count
    <3>2. m \in active \/ Cardinality(active) < Cap
      <4>1. Cardinality(active) \in Nat
        BY FS_Subset, FS_CardinalityType, ProcsAssumption DEF TypeOK
      <4> QED BY <2>2, <4>1, LicenseAssumption
    <3> QED BY <1>6, <3>1, <3>2 DEF Count, Locked, CapHolds, Others
  <2> QED BY <2>1, <2>2
<1>7. ASSUME NEW m \in Machine, Commit(m) PROVE Locked' /\ CapHolds'
  <2>1. Others(m) /\ proc'[m].pc = "read" /\ lic'.machines = active' /\ active' = active \cup {m}
    BY <1>7, StepFacts DEF Commit, TypeOK
  <2>2. Cardinality(active') <= Cap
    <3>1. IsFiniteSet(active) /\ Cardinality(active) \in Nat
      BY FS_Subset, FS_CardinalityType, ProcsAssumption DEF TypeOK
    <3>2. CASE m \in active
      BY <2>1, <3>2 DEF CapHolds
    <3>3. CASE m \notin active
      <4>1. Cardinality(active') = Cardinality(active) + 1
        BY <2>1, <3>1, <3>3, FS_AddElement
      <4>2. Cardinality(active) < Cap
        BY <1>7, <3>3 DEF Commit, Locked
      <4> QED BY <3>1, <4>1, <4>2, LicenseAssumption
    <3> QED BY <3>2, <3>3
  <2>3. \A n \in Machine : n # m => proc[n].pc \notin {"count", "commit"}
    BY <1>7 DEF Commit, Locked
  <2> QED BY <2>1, <2>2, <2>3 DEF Locked, CapHolds, Others
<1>8. ASSUME NEW m \in Machine, Verify(m) PROVE Locked' /\ CapHolds'
  BY <1>8 DEF Verify, Locked, CapHolds
<1>9. ASSUME NEW p \in Signer, Throws(p) \/ Crash(p) PROVE Locked' /\ CapHolds'
  <2>1. /\ Others(p) /\ proc'[p].pc \notin {"count", "commit"}
        /\ UNCHANGED <<active, lic>> /\ lock' = (IF lock = p THEN NoOne ELSE lock)
    BY <1>9, StepFacts DEF Throws, Crash
  <2> QED BY <2>1 DEF Locked, CapHolds, Others
<1>10. CASE UNCHANGED vars
  BY <1>10 DEF vars, Locked, CapHolds
<1> QED
  BY <1>1, <1>2, <1>3, <1>4, <1>5, <1>6, <1>7, <1>8, <1>9, <1>10 DEF Next, Activates

-----------------------------------------------------------------------------
(* A machine reads the row only after it is in it. *)
LEMMA NamedStep ==
    ASSUME TypeOK, CapHolds, Named, FileNamesMachine, [Next]_vars
    PROVE  Named' /\ FileNamesMachine'
<1> USE KindsDiffer DEF At, Places
<1>0. ASSUME NEW p \in Signer, Others(p), active \subseteq active', UNCHANGED desktop,
             p \in Machine =>
                /\ proc'[p].pc \in {"read", "sign", "reply"} => p \in active'
                /\ proc'[p].pc = "sign" => p \in proc'[p].copy
                /\ proc'[p].pc = "reply" => p \in proc'[p].file.names
      PROVE  Named' /\ FileNamesMachine'
  BY <1>0 DEF Others, Named, FileNamesMachine
<1>1. ASSUME NEW p \in Issuer, Begin(p) \/ Fulfils(p) PROVE Named' /\ FileNamesMachine'
  <2>1. Others(p)
    BY <1>1, BeginFacts, WinsFacts, StepFacts
       DEF Fulfils, TrackLoses, CallerLoses, Attempt, Mail, Delivered, DeliveryFailed
  <2>2. UNCHANGED <<active, desktop>>
    BY <1>1 DEF Fulfils, Begin, Wins, TrackLoses, CallerLoses, Attempt, Mail, Delivered, DeliveryFailed
  <2> QED BY <1>0, <2>1, <2>2
<1>2. ASSUME NEW p \in Reader, Retrieves(p) PROVE Named' /\ FileNamesMachine'
  <2>1. Others(p)
    BY <1>2, OpenFacts, StepFacts DEF Retrieves, Consume
  <2> QED BY <1>0, <1>2, <2>1 DEF Retrieves, Open, Consume
<1>3. ASSUME NEW p \in Signer, ReadLicense(p) PROVE Named' /\ FileNamesMachine'
  <2>1. p \in Machine => p \in lic.machines
    BY <1>3 DEF ReadLicense, Named, CapHolds
  <2> QED BY <1>0, <1>3, <2>1, ReadFacts DEF ReadLicense, CapHolds
<1>4. ASSUME NEW p \in Signer, StoreSignature(p) PROVE Named' /\ FileNamesMachine'
  <2>1. p \in Machine => p \in active /\ p \in proc[p].copy
    BY <1>4 DEF StoreSignature, Named
  <2> DEFINE c == proc[p].copy
  <2>2. Others(p) /\ proc'[p].copy = c /\ proc'[p].file.names = c
    <3>1. Others(p) /\ proc'[p].copy = c /\ proc'[p].file = [names |-> c, signs |-> c]
      BY <1>4, StoreFacts
    <3> HIDE DEF c
    <3> QED BY <3>1
  <2> QED BY <1>0, <1>4, <2>1, <2>2 DEF StoreSignature
<1>5. ASSUME NEW m \in Machine, Activate(m) \/ Lock(m) \/ Count(m) PROVE Named' /\ FileNamesMachine'
  <2>1. Others(m) /\ proc'[m].pc \in {"lock", "count", "commit", "idle"}
    BY <1>5, StepFacts DEF Activate, Lock, Count
  <2> QED BY <1>0, <1>5, <2>1 DEF Activate, Lock, Count
<1>6. ASSUME NEW m \in Machine, Commit(m) PROVE Named' /\ FileNamesMachine'
  <2>1. Others(m) /\ proc'[m].pc = "read"
    BY <1>6, StepFacts DEF Commit
  <2> QED BY <1>0, <1>6, <2>1 DEF Commit
<1>7. ASSUME NEW m \in Machine, Reply(m) PROVE Named' /\ FileNamesMachine'
  <2>1. Others(m) /\ proc'[m].pc = "idle" /\ active' = active
    BY <1>7, StepFacts DEF Reply
  <2>2. m \in proc[m].file.names
    BY <1>7 DEF Reply, Named
  <2>3. FileNamesMachine'
    BY <1>7, <2>2 DEF Reply, FileNamesMachine, TypeOK
  <2> QED BY <2>1, <2>3 DEF Named, Others
<1>8. ASSUME NEW m \in Machine, Verify(m) PROVE Named' /\ FileNamesMachine'
  BY <1>8 DEF Verify, Named, FileNamesMachine, TypeOK
<1>9. ASSUME NEW p \in Signer, Throws(p) \/ Crash(p) PROVE Named' /\ FileNamesMachine'
  <2>1. Others(p) /\ proc'[p].pc \in {"unsent", "threw", "idle", "parked"}
    BY <1>9, StepFacts DEF Throws, Crash
  <2> QED BY <1>0, <1>9, <2>1 DEF Throws, Crash
<1>10. CASE UNCHANGED vars
  BY <1>10 DEF vars, Named, FileNamesMachine
<1> QED
  BY <1>1, <1>2, <1>3, <1>4, <1>5, <1>6, <1>7, <1>8, <1>9, <1>10 DEF Next, Signs, Activates

-----------------------------------------------------------------------------
LEMMA InitInv == Init => LicenseInv
<1> SUFFICES ASSUME Init PROVE LicenseInv
  OBVIOUS
<1>1. \A p \in Signer : proc[p].pc = "idle" /\ proc[p].copy = {} /\ proc[p].file = Blank
  BY DEF Init, Idle
<1>2. SignedFirst /\ SuccessMeansMailed
  BY <1>1, KindsDiffer DEF Init, SignedFirst, SuccessMeansMailed, At, Issuer
<1>3. KeyFirst /\ RetrievedFileVerifies
  BY <1>1, KindsDiffer DEF Init, KeyFirst, NothingActive, RetrievedFileVerifies, Blank
<1>4. Locked /\ CapHolds
  BY <1>1, KindsDiffer, FS_EmptySet, LicenseAssumption DEF Init, Locked, CapHolds
<1>5. Named /\ FileNamesMachine
  BY <1>1, KindsDiffer DEF Init, Named, FileNamesMachine
<1> QED BY <1>2, <1>3, <1>4, <1>5 DEF LicenseInv

LEMMA LicenseSafe == Spec => [](TypeOK /\ LicenseInv)
<1>1. TypeOK /\ LicenseInv /\ [Next]_vars => (TypeOK /\ LicenseInv)'
  BY TypeStep, SignedStep, KeyStep, CapStep, NamedStep DEF LicenseInv
<1> QED BY InitType, InitInv, <1>1, PTL DEF Spec

(* A track that succeeds, or a row that says DELIVERED, has a signed licence   *)
(* and a mail behind it.                                                       *)
THEOREM LicenseDelivery == Spec => []SuccessMeansMailed
<1>1. LicenseInv => SuccessMeansMailed
  BY DEF LicenseInv
<1> QED BY LicenseSafe, <1>1, PTL

(* The file that comes with the key verifies. *)
THEOREM LicenseFile == Spec => []RetrievedFileVerifies
<1>1. LicenseInv => RetrievedFileVerifies
  BY DEF LicenseInv
<1> QED BY LicenseSafe, <1>1, PTL

(* Racing activations keep the cap, and the row names the active machines. *)
THEOREM LicenseCap == Spec => []CapHolds
<1>1. LicenseInv => CapHolds
  BY DEF LicenseInv
<1> QED BY LicenseSafe, <1>1, PTL

(* A machine's file names it. *)
THEOREM LicenseNames == Spec => []FileNamesMachine
<1>1. LicenseInv => FileNamesMachine
  BY DEF LicenseInv
<1> QED BY LicenseSafe, <1>1, PTL
=============================================================================

------------------------------ MODULE ReviewSlot ------------------------------
(***************************************************************************)
(* What admission promises a user, and the provider: one review at a time. *)
(* A review takes its user's slot when it is admitted, may start provider  *)
(* execution once and only while it has the slot, and gives the slot back  *)
(* once, when nothing of it executes any more.                             *)
(***************************************************************************)
CONSTANTS Scan, User, Owner, NoScan

VARIABLES
    holder,     \* per user: the review in the slot
    admitted,   \* the reviews ever admitted
    started,    \* the reviews whose paid execution ever started
    executing   \* the reviews with a provider container right now

vars == <<holder, admitted, started, executing>>

TypeOK == /\ holder \in [User -> Scan \cup {NoScan}]
          /\ executing \subseteq started /\ started \subseteq admitted
          /\ admitted \subseteq Scan

Init == /\ holder = [u \in User |-> NoScan]
        /\ admitted = {} /\ started = {} /\ executing = {}

Admit(s) == /\ s \notin admitted /\ holder[Owner[s]] = NoScan
            /\ holder' = [holder EXCEPT ![Owner[s]] = s]
            /\ admitted' = admitted \cup {s}
            /\ UNCHANGED <<started, executing>>

Start(s) == /\ holder[Owner[s]] = s /\ s \notin started
            /\ started' = started \cup {s}
            /\ executing' = executing \cup {s}
            /\ UNCHANGED <<holder, admitted>>

Stop(s) == /\ s \in executing
           /\ executing' = executing \ {s}
           /\ UNCHANGED <<holder, admitted, started>>

Release(s) == /\ holder[Owner[s]] = s /\ s \notin executing
              /\ holder' = [holder EXCEPT ![Owner[s]] = NoScan]
              /\ UNCHANGED <<admitted, started, executing>>

Next == \E s \in Scan : Admit(s) \/ Start(s) \/ Stop(s) \/ Release(s)

Spec == Init /\ [][Next]_vars
=============================================================================

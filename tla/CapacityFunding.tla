--------------------------- MODULE CapacityFunding ---------------------------
(***************************************************************************)
(* The minutes of one account (packages/billing/src/usage/capacity.ts).    *)
(*                                                                         *)
(* Several reviews share an account's pool, packs, paid overage and grace. *)
(* Each has a reservation that is funded, claimed, settled and given back. *)
(* ScanLifecycle has the states of one reservation; here are the minutes   *)
(* of all of them.  Every capacity operation is a transaction under the    *)
(* account's advisory lock.  A renewal, a purchase, a refund and the       *)
(* failure of a scan take other locks: they come at any time, also between *)
(* the two reads of a reservation.                                         *)
(***************************************************************************)
EXTENDS Integers, FiniteSets, FiniteSetsExt

CONSTANTS
    Last,           \* reservations are 1..Last, in the order of createdAt
    MinutesNeeded,  \* whole minutes of the runtime limit of a reservation
    Multiplier,     \* 1, or 3 for Deep and Custom reviews
    NumPacks,       \* packs are 1..NumPacks, in the order of purchasedAt
    PackMinutes,    \* minutes of a pack
    PoolGrant,      \* minutes of one cycle's pool
    GraceCap,       \* GRACE_CAP_MS in minutes
    SpendLimits,    \* spend limits in minutes; 0 is "not eligible for overage"
    Intervals,      \* billing intervals of the instance
    MaxCycle,       \* bound: allowance cycles
    MaxResets,      \* bound: no retry once a review had so many
    Mishaps         \* "refund", "expiry"

Reservation == 1..Last
Pack    == 1..NumPacks
Pool    == 0
Overage == NumPacks + 1
Grace   == NumPacks + 2
Source  == Pool..Grace          \* in draw order
NoCycle == 0
Idle    == [by |-> 0]

ASSUME FundingAssumption ==
    /\ Last \in Nat \ {0} /\ NumPacks \in Nat
    /\ PackMinutes \in Nat /\ PoolGrant \in Nat /\ GraceCap \in Nat
    /\ MinutesNeeded \in [Reservation -> Nat \ {0}]
    /\ Multiplier \in [Reservation -> {1, 3}]
    /\ SpendLimits \subseteq Nat
    /\ Intervals \subseteq {"monthly", "annual"}
    /\ MaxCycle \in Nat \ {0} /\ MaxResets \in Nat
    /\ Mishaps \subseteq {"refund", "expiry"}

VARIABLES
    resv,           \* the ScanCapacityReservation rows and their receipts
    account,        \* cycle, pool grants, spend limit and grace of the account
    pack,           \* the MinutePack rows
    reading         \* what the reservation inside its transaction has read
vars == <<resv, account, pack, reading>>

-----------------------------------------------------------------------------
(* Minutes by source *)

Smaller(a, b) == IF a < b THEN a ELSE b
Floored(n)    == IF n < 0 THEN 0 ELSE n
Nothing       == [i \in Source |-> 0]
Sum(minutes, S) == MapThenSumSet(LAMBDA i : minutes[i], S)
Total(minutes)  == Sum(minutes, Source)

(* The first `want' minutes, each source used up before the next. *)
Draw(minutes, want) ==
    [i \in Source |->
        Smaller(minutes[i], Floored(want - Sum(minutes, Pool..(i - 1))))]

(* Mutant: the tail is taken from the pool first. *)
SwapTrim(minutes, tail) ==
    [i \in Source |->
        minutes[i] - Smaller(minutes[i], Floored(tail - Sum(minutes, Pool..(i - 1))))]

(* `tail' minutes given back, the last source first. *)
Trim(minutes, tail) ==
    [i \in Source |->
        minutes[i] - Smaller(minutes[i], Floored(tail - Sum(minutes, (i + 1)..Grace)))]

Fundable(r, minutes) ==
    LET drawn == Draw(minutes, MinutesNeeded[r] * Multiplier[r])
    IN  Trim(drawn, Total(drawn) % Multiplier[r])

-----------------------------------------------------------------------------
(* What is held and charged *)

States    == {"none", "WAITING", "RESERVED", "RUNNING", "SETTLED", "RELEASED", "REVIEW_REQUIRED"}
Unclaimed == {"WAITING", "RESERVED"}
HELD      == {"RESERVED", "RUNNING", "REVIEW_REQUIRED"}

Holders == {r \in Reservation :
    \/ resv[r].state \in HELD
    \/ resv[r].state = "SETTLED" /\ ~resv[r].stopped}

InCycle(S, c)     == {r \in S : resv[r].cycle = c}
HeldBy(S, i)      == Sum([r \in S |-> resv[r].held[i]], S)
ChargedTo(S, i)   == Sum([r \in S |-> resv[r].charge[i]], S)
(* Mutant: what the cycle itself has charged is forgotten. *)
SlipChargedSince(c, i) == ChargedTo({r \in Reservation : resv[r].cycle > c}, i)
ChargedSince(c, i)     == ChargedTo({r \in Reservation : resv[r].cycle >= c}, i)

(* Mutant: the pack minutes of an older cycle's reviews are not held. *)
SlipAvailable(r, c, used) ==
    LET others  == Holders \ {r}
        same    == InCycle(others, c)
        granted == PoolGrant * Cardinality({g \in account.granted : g >= c})
        pool    == Floored(granted - ChargedSince(c, Pool))
        limit   == account.limit
        packs   == [i \in Source |->
                       IF i \in Pack /\ pack[i].state = "valid"
                       THEN Floored(pack[i].left - HeldBy(same, i)) ELSE 0]
    IN  [packs EXCEPT
            ![Pool] = Floored(pool - HeldBy(same, Pool)),
            ![Overage] = IF limit = 0 THEN 0
                         ELSE Floored(limit - ChargedSince(c, Overage) - HeldBy(same, Overage)),
            ![Grace] = IF limit > 0 THEN 0
                       ELSE Floored(GraceCap - used - HeldBy(same, Grace))]

(* What reservation r may draw on in cycle c with `used' minutes of grace gone. *)
Available(r, c, used) ==
    LET others  == Holders \ {r}
        same    == InCycle(others, c)
        granted == PoolGrant * Cardinality({g \in account.granted : g >= c})
        pool    == Floored(granted - ChargedSince(c, Pool))
        limit   == account.limit
        packs   == [i \in Source |->
                       IF i \in Pack /\ pack[i].state = "valid"
                       THEN Floored(pack[i].left - HeldBy(others, i)) ELSE 0]
    IN  [packs EXCEPT
            ![Pool] = Floored(pool - HeldBy(same, Pool)),
            ![Overage] = IF limit = 0 THEN 0
                         ELSE Floored(limit - ChargedSince(c, Overage) - HeldBy(same, Overage)),
            ![Grace] = IF limit > 0 THEN 0
                       ELSE Floored(GraceCap - used - HeldBy(same, Grace))]

(* Mutant: a review hold ends with the execution. *)
SlipReviewHeld(S) == \E r \in S : resv[r].state = "REVIEW_REQUIRED" /\ ~resv[r].stopped
ReviewHeld(S) == \E r \in S : resv[r].state = "REVIEW_REQUIRED"
Waiting       == {r \in Reservation : resv[r].state = "WAITING"}
(* Mutant: a reservation that was served stays in line. *)
SlipFirstInLine(r) == \A q \in Reservation : resv[q].state # "none" => r <= q
FirstInLine(r) == \A q \in Waiting : r <= q

Unlocked  == reading = Idle

-----------------------------------------------------------------------------
(* Reservations *)

Unfunded(r) ==
    [resv[r] EXCEPT !.state = "WAITING", !.held = Nothing, !.cycle = NoCycle, !.late = FALSE]

Init ==
    /\ resv = [r \in Reservation |->
                  [state |-> "none", cycle |-> NoCycle, held |-> Nothing, charge |-> Nothing,
                   stopped |-> FALSE, resets |-> 0, failed |-> FALSE, late |-> FALSE]]
    /\ \E limit \in SpendLimits, interval \in Intervals :
          account = [cycle |-> 1, granted |-> {1}, limit |-> limit, interval |-> interval,
                     graceUsed |-> 0, graceCycle |-> NoCycle]
    /\ pack = [p \in Pack |-> [state |-> "none", left |-> 0]]
    /\ reading = Idle

Create(r) ==
    /\ resv[r].state = "none"
    /\ \A q \in 1..(r - 1) : resv[q].state # "none"
    /\ resv' = [resv EXCEPT ![r].state = "WAITING"]
    /\ UNCHANGED <<account, pack, reading>>

(* The scan ends outside of its job: the failed event of the queue, a denial  *)
(* of its authority.  The reservation stays as it is.                         *)
FailScan(r) ==
    /\ resv[r].state \in Unclaimed \cup {"RUNNING"}
    /\ ~resv[r].failed
    /\ resv' = [resv EXCEPT ![r].failed = TRUE]
    /\ UNCHANGED <<account, pack, reading>>

(* A review hold anywhere in the account: nothing is funded. *)
ReserveBlocked(r) ==
    /\ Unlocked
    /\ resv[r].state \in Unclaimed /\ ~resv[r].failed
    /\ ReviewHeld(Holders \ {r})
    /\ resv' = [resv EXCEPT ![r] = Unfunded(r)]
    /\ UNCHANGED <<account, pack, reading>>

(* The lock, the state tests and the read of the billing row; `start' claims. *)
(* A scan that has ended is refused and stays where it is in the line.        *)
Reserve(r, start) ==
    /\ Unlocked
    /\ resv[r].state \in Unclaimed /\ ~resv[r].failed
    /\ start => resv[r].state = "RESERVED"
    /\ ~ReviewHeld(Holders \ {r})
    /\ resv[r].state = "WAITING" => FirstInLine(r)
    /\ reading' = [by |-> r, start |-> start, cycle |-> account.cycle, used |-> account.graceUsed]
    /\ UNCHANGED <<resv, account, pack>>

(* The cycle of an annual account is computed when the balance is read. *)
CycleRead == IF account.interval = "annual" THEN account.cycle ELSE reading.cycle

(* The read of the balance and the write of the reservation.  `late' is       *)
(* history that nothing reads: funded in a cycle that had ended by then.      *)
Fund ==
    /\ ~Unlocked
    /\ reading' = Idle
    /\ UNCHANGED <<account, pack>>
    /\ \E free \in {Available(reading.by, CycleRead, reading.used)} :
       \E held \in {Fundable(reading.by, free)} :
          resv' = [resv EXCEPT ![reading.by] =
             IF Total(held) = 0 THEN Unfunded(reading.by)
             ELSE [@ EXCEPT !.state = IF reading.start THEN "RUNNING" ELSE "RESERVED",
                            !.held = held, !.cycle = CycleRead,
                            !.late = CycleRead # account.cycle]]

(* Grace is charged to the account unless its counter is of a later cycle. *)
CountsGrace(r, charge) ==
    charge[Grace] > 0 /\ (account.graceCycle = NoCycle \/ account.graceCycle <= resv[r].cycle)

(* Mutant: a pack is debited without its guard. *)
SlipCovered(r, charge) == CountsGrace(r, charge) => account.graceUsed + charge[Grace] <= GraceCap

(* No guarded debit of the settlement fails. *)
Covered(r, charge) ==
    /\ \A p \in Pack : charge[p] <= pack[p].left
    /\ CountsGrace(r, charge) => account.graceUsed + charge[Grace] <= GraceCap

(* The meter's transaction; when a debit fails it throws and changes nothing. *)
Settle(r, observed) ==
    /\ Unlocked
    /\ resv[r].state = "RUNNING"
    /\ \E charge \in {Draw(resv[r].held, Smaller(observed * Multiplier[r], Total(resv[r].held)))} :
          /\ Covered(r, charge)
          /\ resv' = [resv EXCEPT ![r].state = "SETTLED", ![r].charge = charge]
          /\ pack' = [p \in Pack |-> [pack[p] EXCEPT !.left = @ - charge[p]]]
          /\ account' = IF CountsGrace(r, charge)
                        THEN [account EXCEPT !.graceUsed = @ + charge[Grace],
                                             !.graceCycle = resv[r].cycle]
                        ELSE account
    /\ UNCHANGED reading

(* What a confirmed stop makes of a reservation. *)
Disposed(state, nonbillable) ==
    IF state = "SETTLED" THEN "SETTLED"
    ELSE IF nonbillable \/ state \in Unclaimed THEN "RELEASED"
    ELSE "REVIEW_REQUIRED"

(* Confirmed stop, and for an unclaimed reservation the slot's release. *)
Stop(r, nonbillable) ==
    /\ Unlocked
    /\ resv[r].state \in {"WAITING", "RESERVED", "RUNNING", "SETTLED"}
    /\ ~resv[r].stopped
    /\ resv' = [resv EXCEPT ![r].state = Disposed(@, nonbillable), ![r].stopped = TRUE]
    /\ UNCHANGED <<account, pack, reading>>

(* A retry before the provider started. *)
Reset(r) ==
    /\ Unlocked
    /\ resv[r].state \in Unclaimed \cup {"RUNNING"} /\ ~resv[r].failed
    /\ \A q \in Reservation : resv[q].resets < MaxResets
    /\ resv' = [resv EXCEPT ![r] = [Unfunded(r) EXCEPT !.resets = @ + 1]]
    /\ UNCHANGED <<account, pack, reading>>

-----------------------------------------------------------------------------
(* The account's minutes *)

(* resetGrace: only a counter of an earlier cycle, or an unused one. *)
GraceReset(acc, c) ==
    IF \/ acc.graceCycle # NoCycle /\ acc.graceCycle < c
       \/ acc.graceCycle = NoCycle /\ acc.graceUsed = 0
    THEN [acc EXCEPT !.graceUsed = 0, !.graceCycle = NoCycle]
    ELSE acc

(* A renewal webhook: period, pool and grace in one transaction, under a lock *)
(* of its own (billing:<account>): a reservation does not keep it out.        *)
Renew ==
    /\ account.interval = "monthly"
    /\ account.cycle < MaxCycle
    /\ LET c == account.cycle + 1
       IN  account' = GraceReset([account EXCEPT !.cycle = c, !.granted = @ \cup {c}], c)
    /\ UNCHANGED <<resv, pack, reading>>

(* The anniversary of an annual term: time alone. *)
Anniversary ==
    /\ account.interval = "annual"
    /\ account.cycle < MaxCycle
    /\ account' = [account EXCEPT !.cycle = @ + 1]
    /\ UNCHANGED <<resv, pack, reading>>

(* The replenishment job grants the pool of the current cycle. *)
Replenish ==
    /\ account.cycle \notin account.granted
    /\ account' = [account EXCEPT !.granted = @ \cup {account.cycle}]
    /\ UNCHANGED <<resv, pack, reading>>

CreditTopUp(p) ==
    /\ pack[p].state = "none"
    /\ \A q \in 1..(p - 1) : pack[q].state # "none"
    /\ pack' = [pack EXCEPT ![p] = [state |-> "valid", left |-> PackMinutes]]
    /\ UNCHANGED <<resv, account, reading>>

(* expiresAt passes. *)
Lapse(p) ==
    /\ "expiry" \in Mishaps
    /\ pack[p].state = "valid"
    /\ pack' = [pack EXCEPT ![p].state = "lapsed"]
    /\ UNCHANGED <<resv, account, reading>>

ExpirePacks ==
    /\ Unlocked
    /\ \E p \in Pack : pack[p].state = "lapsed" /\ pack[p].left > 0
    /\ pack' = [p \in Pack |-> IF pack[p].state = "lapsed" THEN [pack[p] EXCEPT !.left = 0]
                               ELSE pack[p]]
    /\ UNCHANGED <<resv, account, reading>>

ReverseRefund(p) ==
    /\ "refund" \in Mishaps
    /\ pack[p].state \in {"valid", "lapsed"}
    /\ pack' = [pack EXCEPT ![p] = [state |-> "refunded", left |-> 0]]
    /\ UNCHANGED <<resv, account, reading>>

-----------------------------------------------------------------------------
Operate(r) ==
    \/ Create(r)
    \/ FailScan(r)
    \/ ReserveBlocked(r)
    \/ \E start \in BOOLEAN : Reserve(r, start)
    \/ \E observed \in 1..(MinutesNeeded[r] + 1) : Settle(r, observed)
    \/ \E nonbillable \in BOOLEAN : Stop(r, nonbillable)
    \/ Reset(r)

Next ==
    \/ \E r \in Reservation : Operate(r)
    \/ Fund
    \/ Renew \/ Anniversary \/ Replenish \/ ExpirePacks
    \/ \E p \in Pack : CreditTopUp(p) \/ Lapse(p) \/ ReverseRefund(p)

(* The lock's owner ends its transaction, whatever it writes. *)
Commits == ~Unlocked /\ reading' = Idle

(* A waiting review whose scan is still to run asks again every few seconds, a *)
(* funded one asks to start, and the lock passes on.  Nothing is assumed of    *)
(* running or failed scans, of cycles or of packs.                             *)
Fairness ==
    /\ WF_reading(Commits)
    /\ \A r \in Reservation : SF_vars(Reserve(r, resv[r].state = "RESERVED"))

Spec == Init /\ [][Next]_vars /\ Fairness
=============================================================================

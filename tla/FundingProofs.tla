---------------------------- MODULE FundingProofs ----------------------------
(***************************************************************************)
(* The safety of CapacityFunding, for every number of reservations, packs  *)
(* and cycles, all prices, grants and limits.                              *)
(***************************************************************************)
EXTENDS MinuteSums

RowType == [state : States, cycle : NoCycle..MaxCycle, held : Minutes, charge : Minutes,
            stopped : BOOLEAN, resets : 0..MaxResets, failed : BOOLEAN, late : BOOLEAN]
PackType == [state : {"none", "valid", "lapsed", "refunded"}, left : 0..PackMinutes]
AccountType == [cycle : 1..MaxCycle, granted : SUBSET (1..MaxCycle), limit : SpendLimits,
                interval : Intervals, graceUsed : 0..GraceCap, graceCycle : NoCycle..MaxCycle]
ReadingType == [by : Reservation, start : BOOLEAN, cycle : 1..MaxCycle, used : 0..GraceCap]

(* Only a settlement charges: a row that is written anew has no charge to lose. *)
Uncharged(row)   == \A i \in Source : row.charge[i] = 0
ChargedIsSettled == \A r \in Reservation : resv[r].state # "SETTLED" => Uncharged(resv[r])

(* Nothing is of a cycle that has not begun. *)
CyclesPast ==
    /\ \A r \in Reservation : resv[r].cycle <= account.cycle
    /\ account.granted \subseteq 1..account.cycle
    /\ account.graceCycle <= account.cycle

(* What the owner of the lock tested still holds when it writes. *)
ReadingFirm ==
    ~Unlocked => /\ resv[reading.by].state \in Unclaimed
                 /\ ~ReviewHeld(Reservation)
                 /\ reading.cycle <= account.cycle

(* Nobody holds minutes of a pack that was not bought. *)
UnsoldIsUnheld ==
    \A p \in Pack : pack[p].state = "none" => \A r \in Reservation : resv[r].held[p] = 0

RowsInv == TypeOK /\ ChargedIsSettled /\ CyclesPast /\ ReadingFirm

(* While its lock keeps settlements out, what a reservation has read of grace   *)
(* covers what the cycle it funds has charged, whatever a renewal does to the   *)
(* counter in the meantime.                                                     *)
ReadingKept == ~Unlocked => Spent(InCycle(Reservation, CycleRead), Grace) <= reading.used

(* The counter has at least what the current cycle charged to grace. *)
GraceCounted == Spent(InCycle(Reservation, account.cycle), Grace) <= account.graceUsed

-----------------------------------------------------------------------------
(* What a step does to the rows: r is written, the others are as they were.  *)
KeepsOthers(r) == \A q \in Reservation \ {r} : resv'[q] = resv[q]

LEMMA RowsTyped == TypeOK => resv \in [Reservation -> RowType] /\ resv \in Rows
BY FundingAssumption DEF TypeOK, RowType, Rows, FundingAssumption, NoCycle

LEMMA RowsTypedNext == TypeOK' => resv' \in Rows
BY FundingAssumption DEF TypeOK, Rows, FundingAssumption, NoCycle

LEMMA NothingHeld ==
    /\ Nothing \in Minutes /\ \A i \in Source : Nothing[i] = 0
    /\ Total(Nothing) = 0
<1>1. Nothing \in Minutes /\ \A i \in Source : Nothing[i] = 0
  BY DEF Nothing, Minutes
<1>2. Sum(Nothing, Source) = 0
  BY <1>1, Sources, SumZero
<1> QED BY <1>1, <1>2 DEF Total

\* A row after a step that writes reservation r as row.
LEMMA RowWritten ==
    ASSUME TypeOK, NEW r \in Reservation, NEW row \in RowType, resv' = [resv EXCEPT ![r] = row]
    PROVE  resv' \in [Reservation -> RowType] /\ resv'[r] = row /\ KeepsOthers(r)
BY RowsTyped DEF KeepsOthers

\* The row of a waiting reservation that holds nothing.
LEMMA UnfundedRow ==
    ASSUME TypeOK, NEW r \in Reservation
    PROVE  /\ Unfunded(r) \in RowType /\ Unfunded(r).state = "WAITING"
           /\ Unfunded(r).held = Nothing /\ Unfunded(r).cycle = NoCycle
           /\ Unfunded(r).charge = resv[r].charge /\ Unfunded(r).stopped = resv[r].stopped
           /\ Unfunded(r).resets = resv[r].resets /\ ~Unfunded(r).late
           /\ [Unfunded(r) EXCEPT !.resets = @ + 1].state = "WAITING"
           /\ [Unfunded(r) EXCEPT !.resets = @ + 1].held = Nothing
           /\ [Unfunded(r) EXCEPT !.resets = @ + 1].cycle = NoCycle
           /\ [Unfunded(r) EXCEPT !.resets = @ + 1].charge = resv[r].charge
           /\ ~[Unfunded(r) EXCEPT !.resets = @ + 1].late
           /\ resv[r].resets < MaxResets => [Unfunded(r) EXCEPT !.resets = @ + 1] \in RowType
<1>1. resv[r] \in RowType
  BY RowsTyped
<1>2. "WAITING" \in States /\ NoCycle \in NoCycle..MaxCycle /\ MaxResets \in Nat
  BY FundingAssumption DEF States, NoCycle, FundingAssumption
<1>3. ASSUME NEW row \in RowType, NEW u, u = [row EXCEPT !.state = "WAITING", !.held = Nothing, !.cycle = NoCycle, !.late = FALSE]
      PROVE  /\ u \in RowType /\ u.state = "WAITING" /\ u.held = Nothing /\ u.cycle = NoCycle /\ ~u.late
             /\ u.charge = row.charge /\ u.stopped = row.stopped /\ u.resets = row.resets
  BY <1>2, <1>3, NothingHeld DEF RowType
<1>4. ASSUME NEW row \in RowType, NEW u, u = [row EXCEPT !.resets = @ + 1]
      PROVE  /\ u.state = row.state /\ u.held = row.held /\ u.cycle = row.cycle
             /\ u.charge = row.charge /\ u.late = row.late
             /\ row.resets < MaxResets => u \in RowType
  BY <1>2, <1>4 DEF RowType
<1>5. /\ Unfunded(r) \in RowType /\ Unfunded(r).state = "WAITING" /\ Unfunded(r).held = Nothing
      /\ Unfunded(r).cycle = NoCycle /\ Unfunded(r).charge = resv[r].charge
      /\ Unfunded(r).stopped = resv[r].stopped /\ Unfunded(r).resets = resv[r].resets
      /\ ~Unfunded(r).late
  BY <1>1, <1>3 DEF Unfunded
<1> QED BY <1>4, <1>5

-----------------------------------------------------------------------------
(* The types, action by action *)

OtherVars == account \in AccountType /\ pack \in [Pack -> PackType]

(* Of a row that is written: what TypeOK and ChargedIsSettled say of it. *)
RowOK(row) ==
    /\ row.held[Grace] = 0 \/ row.held[Overage] = 0
    /\ \A i \in Source : row.charge[i] <= row.held[i]
    /\ row.state # "SETTLED" => Uncharged(row)
    /\ row.cycle <= account.cycle

\* A step that writes one row keeps what is said of the rows.
LEMMA OneRow ==
    ASSUME RowsInv, NEW r \in Reservation, NEW row \in RowType, resv' = [resv EXCEPT ![r] = row],
           RowOK(row), account' \in AccountType, account'.cycle = account.cycle,
           account'.granted = account.granted, account'.graceCycle <= account.cycle,
           pack' \in [Pack -> PackType], ReadingFirm', Unlocked' \/ reading' = reading
    PROVE  RowsInv'
<1>1. resv' \in [Reservation -> RowType] /\ resv'[r] = row /\ KeepsOthers(r)
  BY RowWritten DEF RowsInv
<1>2. \A q \in Reservation :
          /\ resv'[q].held[Grace] = 0 \/ resv'[q].held[Overage] = 0
          /\ \A i \in Source : resv'[q].charge[i] <= resv'[q].held[i]
  BY <1>1 DEF RowsInv, TypeOK, RowOK, KeepsOthers
<1>3. TypeOK'
  <2>1. Unlocked' \/ reading' \in ReadingType
    BY DEF RowsInv, TypeOK, ReadingType, Unlocked
  <2> QED BY <1>1, <1>2, <2>1 DEF TypeOK, RowType, AccountType, PackType, ReadingType
<1>4. ChargedIsSettled'
  BY <1>1 DEF RowsInv, ChargedIsSettled, RowOK, KeepsOthers, Uncharged
<1>5. CyclesPast'
  BY <1>1 DEF RowsInv, CyclesPast, RowOK, KeepsOthers
<1> QED BY <1>3, <1>4, <1>5 DEF RowsInv

LEMMA RowFacts ==
    ASSUME RowsInv, NEW r \in Reservation
    PROVE  /\ resv[r] \in RowType /\ RowOK(resv[r])
           /\ account \in AccountType /\ pack \in [Pack -> PackType]
           /\ account.graceCycle <= account.cycle
<1>1. TypeOK /\ ChargedIsSettled /\ CyclesPast
  BY DEF RowsInv
<1>2. resv[r] \in RowType /\ account \in AccountType /\ pack \in [Pack -> PackType]
  BY <1>1, RowsTyped DEF TypeOK, AccountType, PackType
<1>3. RowOK(resv[r])
  BY <1>1 DEF TypeOK, ChargedIsSettled, CyclesPast, RowOK
<1> QED BY <1>1, <1>2, <1>3 DEF CyclesPast

LEMMA CreateTyped ==
    ASSUME RowsInv, NEW r \in Reservation, Create(r)
    PROVE  RowsInv'
<1> DEFINE row == [resv[r] EXCEPT !.state = "WAITING"]
<1>1. resv[r] \in RowType /\ RowOK(resv[r]) /\ resv[r].state = "none"
  BY RowFacts DEF Create
<1>2. /\ row \in RowType /\ RowOK(row) /\ row.state = "WAITING"
  BY <1>1 DEF RowType, States, RowOK, Uncharged
<1>3. resv' = [resv EXCEPT ![r] = row]
  BY RowsTyped DEF Create, RowsInv
<1>4. resv'[r] = row /\ KeepsOthers(r)
  BY <1>2, <1>3, RowWritten DEF RowsInv
<1>5. ReadingFirm'
  <2> SUFFICES ASSUME ~Unlocked' PROVE /\ resv'[reading'.by].state \in Unclaimed
                                       /\ ~ReviewHeld(Reservation)'
                                       /\ reading'.cycle <= account'.cycle
    BY DEF ReadingFirm
  <2>1. reading' = reading /\ account' = account /\ ~Unlocked
    BY DEF Create, Unlocked
  <2>2. resv[reading.by].state \in Unclaimed /\ ~ReviewHeld(Reservation) /\ reading.cycle <= account.cycle
    BY <2>1 DEF RowsInv, ReadingFirm
  <2>3. reading.by \in Reservation /\ reading.by # r
    BY <1>1, <2>1, <2>2 DEF RowsInv, TypeOK, Unclaimed
  <2>4. ~ReviewHeld(Reservation)'
    BY <1>2, <1>4, <2>2 DEF ReviewHeld, KeepsOthers
  <2> QED BY <1>4, <2>1, <2>2, <2>3, <2>4 DEF KeepsOthers
<1> HIDE DEF row
<1> QED BY <1>2, <1>3, <1>5, RowFacts, OneRow DEF Create

LEMMA FailTyped ==
    ASSUME RowsInv, NEW r \in Reservation, FailScan(r)
    PROVE  RowsInv'
<1> DEFINE row == [resv[r] EXCEPT !.failed = TRUE]
<1>1. resv[r] \in RowType /\ RowOK(resv[r])
  BY RowFacts
<1>2. row \in RowType /\ RowOK(row) /\ row.state = resv[r].state
  BY <1>1 DEF RowType, RowOK, Uncharged
<1>3. resv' = [resv EXCEPT ![r] = row]
  BY RowsTyped DEF FailScan, RowsInv
<1>4. resv'[r] = row /\ KeepsOthers(r)
  BY <1>2, <1>3, RowWritten DEF RowsInv
<1>5. \A q \in Reservation : resv'[q].state = resv[q].state
  BY <1>2, <1>4 DEF KeepsOthers
<1>6. ReadingFirm'
  <2> SUFFICES ASSUME ~Unlocked' PROVE /\ resv'[reading'.by].state \in Unclaimed
                                       /\ ~ReviewHeld(Reservation)'
                                       /\ reading'.cycle <= account'.cycle
    BY DEF ReadingFirm
  <2>1. reading' = reading /\ account' = account /\ ~Unlocked
    BY DEF FailScan, Unlocked
  <2>2. /\ resv[reading.by].state \in Unclaimed /\ ~ReviewHeld(Reservation)
        /\ reading.cycle <= account.cycle /\ reading.by \in Reservation
    BY <2>1 DEF RowsInv, ReadingFirm, TypeOK
  <2> QED BY <1>5, <2>1, <2>2 DEF ReviewHeld
<1> HIDE DEF row
<1> QED BY <1>2, <1>3, <1>6, RowFacts, OneRow DEF FailScan

\* A row that loses all it holds.
LEMMA GivenBackTyped ==
    ASSUME RowsInv, NEW r \in Reservation, NEW row \in RowType, resv' = [resv EXCEPT ![r] = row],
           row.held = Nothing, row.cycle = NoCycle, row.state = "WAITING", row.charge = resv[r].charge,
           resv[r].state # "SETTLED", UNCHANGED <<account, pack>>, Unlocked'
    PROVE  RowsInv'
<1>1. Uncharged(row)
  BY RowFacts DEF RowOK, Uncharged
<1>2. RowOK(row)
  <2>1. account.cycle \in Nat
    BY FundingAssumption DEF FundingAssumption, RowsInv, TypeOK
  <2>2. row.held[Grace] = 0 /\ \A i \in Source : row.charge[i] <= row.held[i]
    BY <1>1, NothingHeld, Sources DEF Uncharged
  <2> QED BY <1>1, <2>1, <2>2 DEF RowOK, NoCycle
<1>3. ReadingFirm'
  BY DEF ReadingFirm
<1> QED BY <1>2, <1>3, RowFacts, OneRow

LEMMA StopTyped ==
    ASSUME RowsInv, NEW r \in Reservation, NEW nonbillable \in BOOLEAN, Stop(r, nonbillable)
    PROVE  RowsInv'
<1> DEFINE row == [resv[r] EXCEPT !.state = Disposed(@, nonbillable), !.stopped = TRUE]
<1>1. resv[r] \in RowType /\ RowOK(resv[r])
  BY RowFacts
<1>2. /\ Disposed(resv[r].state, nonbillable) \in States
      /\ Disposed(resv[r].state, nonbillable) # "SETTLED" => resv[r].state # "SETTLED"
  BY DEF Disposed, States
<1>3. row \in RowType /\ RowOK(row)
  BY <1>1, <1>2 DEF RowType, RowOK, Uncharged
<1>4. resv' = [resv EXCEPT ![r] = row]
  BY RowsTyped DEF Stop, RowsInv
<1>5. ReadingFirm'
  BY DEF Stop, Unlocked, ReadingFirm
<1> HIDE DEF row
<1> QED BY <1>3, <1>4, <1>5, RowFacts, OneRow DEF Stop

-----------------------------------------------------------------------------
(* The free minutes *)

LEMMA GrantedMinutes ==
    ASSUME TypeOK, NEW c \in Int
    PROVE  LET n == Cardinality({g \in account.granted : g >= c})
           IN  /\ n \in Nat /\ PoolGrant * n \in Nat
               /\ CyclesPast /\ c = account.cycle => PoolGrant * n <= PoolGrant
<1> DEFINE S == {g \in account.granted : g >= c}
           n == Cardinality(S)
<1>1. MaxCycle \in Nat /\ PoolGrant \in Nat /\ account.granted \in SUBSET (1..MaxCycle)
  BY FundingAssumption DEF TypeOK, FundingAssumption
<1>2. IsFiniteSet(1..MaxCycle) /\ S \in SUBSET (1..MaxCycle)
  BY <1>1, FS_Interval
<1>3. n \in Nat
  BY <1>2, FS_Subset, FS_CardinalityType
<1>4. ASSUME CyclesPast, c = account.cycle PROVE n = 0 \/ n = 1
  <2>1. account.granted \subseteq 1..c /\ c \in Nat
    BY <1>4 DEF CyclesPast, TypeOK
  <2>2. S = {} \/ S = {c}
    BY <2>1
  <2> QED BY <2>2, FS_EmptySet, FS_Singleton
<1> HIDE DEF n
<1>5. PoolGrant * n \in Nat
  BY <1>1, <1>3
<1>6. n = 0 \/ n = 1 => PoolGrant * n <= PoolGrant
  BY <1>1
<1> QED BY <1>3, <1>4, <1>5, <1>6 DEF n

LEMMA Differences ==
    ASSUME NEW a \in Int, NEW b \in Int
    PROVE  Floored(a - b) \in Nat /\ (Floored(a - b) = 0 \/ Floored(a - b) <= a - b)
BY DEF Floored

\* What others hold and what the cycle charged is not free.
LEMMA FreeMinutes ==
    ASSUME TypeOK, NEW r \in Reservation, NEW c \in Int, NEW used \in Int
    PROVE  LET others == Holders \ {r}
               same   == InCycle(others, c)
               grant  == PoolGrant * Cardinality({g \in account.granted : g >= c})
               free   == Available(r, c, used)
           IN  /\ free \in Minutes
               /\ \/ free[Pool] = 0
                  \/ free[Pool] <= grant - ChargedSince(c, Pool) - HeldBy(same, Pool)
               /\ \A p \in Pack :
                     \/ free[p] = 0
                     \/ pack[p].state = "valid" /\ free[p] <= pack[p].left - HeldBy(others, p)
               /\ \/ free[Overage] = 0
                  \/ free[Overage] <= account.limit - ChargedSince(c, Overage) - HeldBy(same, Overage)
               /\ \/ free[Grace] = 0
                  \/ free[Grace] <= GraceCap - used - HeldBy(same, Grace)
               /\ free[Grace] = 0 \/ free[Overage] = 0
<1> DEFINE others == Holders \ {r}
           same   == InCycle(others, c)
           grant  == PoolGrant * Cardinality({g \in account.granted : g >= c})
           free   == Available(r, c, used)
<1>1. /\ grant \in Nat /\ account.limit \in Nat /\ GraceCap \in Nat
      /\ \A p \in Pack : pack[p].left \in Nat
  <2>1. grant \in Nat
    BY GrantedMinutes
  <2> HIDE DEF grant
  <2>2. account.limit \in SpendLimits /\ SpendLimits \subseteq Nat /\ GraceCap \in Nat
        /\ PackMinutes \in Nat
    BY FundingAssumption DEF TypeOK, FundingAssumption
  <2>3. \A p \in Pack : pack[p].left \in Nat
    <3> TAKE p \in Pack
    <3>1. pack[p] \in PackType
      BY DEF TypeOK, PackType
    <3> QED BY <2>2, <3>1 DEF PackType
  <2> QED BY <2>1, <2>2, <2>3
<1>2. ASSUME NEW i \in Source
      PROVE  HeldBy(same, i) \in Nat /\ HeldBy(others, i) \in Nat /\ ChargedSince(c, i) \in Nat
  <2>1. /\ same \in SUBSET Reservation /\ others \in SUBSET Reservation
        /\ {q \in Reservation : resv[q].cycle >= c} \in SUBSET Reservation
    BY DEF InCycle, Holders
  <2>2. /\ HeldBy(same, i) = HeldOf(resv, same, i) /\ HeldBy(others, i) = HeldOf(resv, others, i)
        /\ ChargedSince(c, i) = ChargedOf(resv, {q \in Reservation : resv[q].cycle >= c}, i)
    BY DEF HeldBy, ChargedSince, ChargedTo, HeldOf, ChargedOf
  <2> QED BY <2>1, <2>2, RowsTyped, RowSums
<1> DEFINE pool == Floored(Floored(grant - ChargedSince(c, Pool)) - HeldBy(same, Pool))
           over == IF account.limit = 0 THEN 0
                   ELSE Floored(account.limit - ChargedSince(c, Overage) - HeldBy(same, Overage))
           lent == IF account.limit > 0 THEN 0
                   ELSE Floored(GraceCap - used - HeldBy(same, Grace))
           of(p) == IF p \in Pack /\ pack[p].state = "valid"
                    THEN Floored(pack[p].left - HeldBy(others, p)) ELSE 0
<1>3. free = [[i \in Source |-> of(i)] EXCEPT ![Pool] = pool, ![Overage] = over, ![Grace] = lent]
  BY DEF Available
<1>4. pool \in Nat /\ (pool = 0 \/ pool <= grant - ChargedSince(c, Pool) - HeldBy(same, Pool))
  <2>1. grant \in Nat /\ ChargedSince(c, Pool) \in Nat /\ HeldBy(same, Pool) \in Nat
    BY <1>1, <1>2, Sources
  <2> HIDE DEF grant, same
  <2> QED BY <2>1 DEF Floored
<1>5. over \in Nat
      /\ (over = 0 \/ over <= account.limit - ChargedSince(c, Overage) - HeldBy(same, Overage))
  <2>1. account.limit \in Nat /\ ChargedSince(c, Overage) \in Nat /\ HeldBy(same, Overage) \in Nat
    BY <1>1, <1>2, Sources
  <2> HIDE DEF same
  <2> QED BY <2>1 DEF Floored
<1>6. lent \in Nat /\ (lent = 0 \/ lent <= GraceCap - used - HeldBy(same, Grace))
  <2>1. account.limit \in Nat /\ HeldBy(same, Grace) \in Nat
    BY <1>1, <1>2, Sources
  <2> HIDE DEF same
  <2> QED BY <1>1, <2>1 DEF Floored
<1>7. lent = 0 \/ over = 0
  BY <1>1
<1>8. ASSUME NEW p \in Source
      PROVE  of(p) \in Nat /\ (of(p) = 0 \/ (pack[p].state = "valid" /\ of(p) <= pack[p].left - HeldBy(others, p)))
  <2>1. CASE p \in Pack /\ pack[p].state = "valid"
    <3>1. pack[p].left \in Nat /\ HeldBy(others, p) \in Nat
      BY <1>1, <1>2, <2>1
    <3>2. of(p) = Floored(pack[p].left - HeldBy(others, p))
      BY <2>1
    <3> HIDE DEF of, others
    <3> QED BY <2>1, <3>1, <3>2, Differences
  <2>2. CASE ~(p \in Pack /\ pack[p].state = "valid")
    BY <2>2
  <2> QED BY <2>1, <2>2
<1> HIDE DEF others, same, grant, free, pool, over, lent, of
<1>9. free[Pool] = pool /\ free[Overage] = over /\ free[Grace] = lent
      /\ \A p \in Pack : free[p] = of(p)
  BY <1>3, Sources
<1>10. free \in Minutes
  BY <1>3, <1>4, <1>5, <1>6, <1>8, Sources DEF Minutes
<1>11. \A p \in Pack :
         \/ free[p] = 0
         \/ pack[p].state = "valid" /\ free[p] <= pack[p].left - HeldBy(others, p)
  <2> TAKE p \in Pack
  <2>1. p \in Source
    BY Sources
  <2> QED BY <1>8, <1>9, <2>1
<1> QED BY <1>4, <1>5, <1>6, <1>7, <1>9, <1>10, <1>11 DEF others, same, grant, free

-----------------------------------------------------------------------------
(* Funding and settling *)

LEMMA AnObserved ==
    ASSUME NEW r \in Reservation, NEW observed \in 1..(MinutesNeeded[r] + 1)
    PROVE  observed * Multiplier[r] \in Int
<1>1. MinutesNeeded[r] \in Nat /\ (Multiplier[r] = 1 \/ Multiplier[r] = 3)
  BY FundingAssumption DEF FundingAssumption
<1>2. observed \in Int
  BY <1>1
<1> QED BY <1>1, <1>2

\* What a settlement writes: a charge within what was held, and its debits.
LEMMA SettleFacts ==
    ASSUME RowsInv, NEW r \in Reservation, NEW observed \in 1..(MinutesNeeded[r] + 1),
           Settle(r, observed)
    PROVE  \E charge \in Minutes :
              /\ \A i \in Source : charge[i] <= resv[r].held[i]
              /\ Covered(r, charge)
              /\ resv' = [resv EXCEPT ![r] = [resv[r] EXCEPT !.state = "SETTLED", !.charge = charge]]
              /\ pack' = [p \in Pack |-> [pack[p] EXCEPT !.left = @ - charge[p]]]
              /\ account' = IF CountsGrace(r, charge)
                            THEN [account EXCEPT !.graceUsed = @ + charge[Grace],
                                                 !.graceCycle = resv[r].cycle]
                            ELSE account
<1> DEFINE want   == Smaller(observed * Multiplier[r], Total(resv[r].held))
           charge == Draw(resv[r].held, want)
<1>1. resv[r].held \in Minutes
  BY RowFacts DEF RowType
<1>2. Total(resv[r].held) \in Nat
  BY <1>1, SourceSums DEF Total
<1>3. want \in Int
  <2> DEFINE a == observed * Multiplier[r]
             b == Total(resv[r].held)
  <2>1. a \in Int /\ b \in Int
    BY <1>2, AnObserved
  <2> HIDE DEF a, b
  <2>2. Smaller(a, b) \in Int
    BY <2>1 DEF Smaller
  <2> QED BY <2>2 DEF a, b
<1> HIDE DEF want
<1>4. charge \in Minutes /\ \A i \in Source : charge[i] <= resv[r].held[i]
  BY <1>1, <1>3, DrawBounded
<1>5. /\ Covered(r, charge)
      /\ resv' = [resv EXCEPT ![r].state = "SETTLED", ![r].charge = charge]
      /\ pack' = [p \in Pack |-> [pack[p] EXCEPT !.left = @ - charge[p]]]
      /\ account' = IF CountsGrace(r, charge)
                    THEN [account EXCEPT !.graceUsed = @ + charge[Grace],
                                         !.graceCycle = resv[r].cycle]
                    ELSE account
  BY DEF Settle, want
<1> HIDE DEF charge
<1>6. resv' = [resv EXCEPT ![r] = [resv[r] EXCEPT !.state = "SETTLED", !.charge = charge]]
  BY <1>5, RowsTyped DEF RowsInv
<1> QED BY <1>4, <1>5, <1>6

LEMMA SettleTyped ==
    ASSUME RowsInv, NEW r \in Reservation, NEW observed \in 1..(MinutesNeeded[r] + 1),
           Settle(r, observed)
    PROVE  RowsInv'
<1>1. PICK charge \in Minutes :
        /\ \A i \in Source : charge[i] <= resv[r].held[i]
        /\ Covered(r, charge)
        /\ resv' = [resv EXCEPT ![r] = [resv[r] EXCEPT !.state = "SETTLED", !.charge = charge]]
        /\ pack' = [p \in Pack |-> [pack[p] EXCEPT !.left = @ - charge[p]]]
        /\ account' = IF CountsGrace(r, charge)
                      THEN [account EXCEPT !.graceUsed = @ + charge[Grace],
                                           !.graceCycle = resv[r].cycle]
                      ELSE account
  BY SettleFacts
<1> DEFINE row == [resv[r] EXCEPT !.state = "SETTLED", !.charge = charge]
<1>2. /\ resv[r] \in RowType /\ RowOK(resv[r])
      /\ account \in AccountType /\ pack \in [Pack -> PackType]
      /\ account.graceCycle <= account.cycle
  BY RowFacts
<1>3. row \in RowType /\ RowOK(row)
  BY <1>1, <1>2 DEF RowType, States, RowOK
<1>4. pack' \in [Pack -> PackType]
  <2>1. ASSUME NEW p \in Pack PROVE [pack[p] EXCEPT !.left = @ - charge[p]] \in PackType
    <3>1. pack[p] \in PackType /\ charge[p] \in Nat /\ charge[p] <= pack[p].left /\ PackMinutes \in Nat
      BY <1>1, <1>2, Sources, FundingAssumption DEF Covered, Minutes, FundingAssumption
    <3>2. pack[p].left - charge[p] \in 0..PackMinutes
      BY <3>1 DEF PackType
    <3> QED BY <3>1, <3>2 DEF PackType
  <2> QED BY <1>1, <2>1
<1>5. /\ account' \in AccountType /\ account'.cycle = account.cycle
      /\ account'.granted = account.granted /\ account'.graceCycle <= account.cycle
  <2>1. CASE CountsGrace(r, charge)
    <3>1. charge[Grace] \in Nat /\ GraceCap \in Nat /\ account.graceUsed \in 0..GraceCap
      BY <1>2, Sources, FundingAssumption DEF Minutes, AccountType, FundingAssumption
    <3>2. account.graceUsed + charge[Grace] \in 0..GraceCap
      BY <1>1, <2>1, <3>1 DEF Covered
    <3>3. resv[r].cycle \in NoCycle..MaxCycle /\ resv[r].cycle <= account.cycle
      BY <1>2 DEF RowType, RowOK
    <3>4. account' = [account EXCEPT !.graceUsed = account.graceUsed + charge[Grace],
                                     !.graceCycle = resv[r].cycle]
      BY <1>1, <2>1
    <3> QED BY <1>2, <3>2, <3>3, <3>4 DEF AccountType
  <2>2. CASE ~CountsGrace(r, charge)
    BY <1>1, <1>2, <2>2
  <2> QED BY <2>1, <2>2
<1>6. ReadingFirm' /\ Unlocked'
  BY DEF Settle, Unlocked, ReadingFirm
<1> HIDE DEF row
<1> QED BY <1>1, <1>3, <1>4, <1>5, <1>6, OneRow DEF row

\* What a reservation writes: nothing, or minutes that are free.
FundedRow(r, row) ==
    LET free == Available(r, CycleRead, reading.used)
    IN  /\ row.held \in Minutes
        /\ \A i \in Source : row.held[i] <= free[i]
        /\ \A i, j \in Source : i < j /\ row.held[j] > 0 => row.held[i] = free[i]
        /\ row.cycle = CycleRead /\ row.late = (CycleRead # account.cycle)
        /\ row.state \in {"RESERVED", "RUNNING"}
        /\ row.charge = resv[r].charge

LEMMA CycleReadFacts ==
    ASSUME RowsInv, ~Unlocked
    PROVE  /\ reading \in ReadingType /\ reading.by \in Reservation
           /\ CycleRead \in 1..MaxCycle /\ CycleRead <= account.cycle
           /\ resv[reading.by].state \in Unclaimed /\ ~ReviewHeld(Reservation)
<1>1. reading \in ReadingType /\ account \in AccountType
  BY DEF RowsInv, TypeOK, ReadingType, AccountType
<1>2. reading.cycle <= account.cycle /\ resv[reading.by].state \in Unclaimed /\ ~ReviewHeld(Reservation)
  BY DEF RowsInv, ReadingFirm
<1> QED BY <1>1, <1>2, FundingAssumption DEF CycleRead, ReadingType, AccountType, FundingAssumption

LEMMA FundFacts ==
    ASSUME RowsInv, Fund
    PROVE  \/ resv' = [resv EXCEPT ![reading.by] = Unfunded(reading.by)]
           \/ \E row \in RowType :
                 FundedRow(reading.by, row) /\ resv' = [resv EXCEPT ![reading.by] = row]
<1> DEFINE r == reading.by
           free == Available(r, CycleRead, reading.used)
           held == Fundable(r, free)
           to   == IF reading.start THEN "RUNNING" ELSE "RESERVED"
           past == CycleRead # account.cycle
           row  == [resv[r] EXCEPT !.state = to, !.held = held, !.cycle = CycleRead, !.late = past]
<1>1. ~Unlocked
  BY DEF Fund
<1>2. r \in Reservation /\ CycleRead \in 1..MaxCycle /\ reading.used \in Int /\ MaxCycle \in Nat
  BY <1>1, CycleReadFacts, FundingAssumption DEF ReadingType, FundingAssumption
<1>3. free \in Minutes
  <2>1. TypeOK /\ CycleRead \in Int
    BY <1>2 DEF RowsInv
  <2> QED BY <1>2, <2>1, FreeMinutes
<1>4. resv' = [resv EXCEPT ![r] = IF Total(held) = 0 THEN Unfunded(r) ELSE row]
  BY DEF Fund
<1> HIDE DEF free
<1>5. /\ held \in Minutes /\ \A i \in Source : held[i] <= free[i]
      /\ \A i, j \in Source : i < j /\ held[j] > 0 => held[i] = free[i]
  BY <1>2, <1>3, FundableBounded
<1> HIDE DEF held
<1>6. resv[r] \in RowType /\ to \in {"RESERVED", "RUNNING"} /\ CycleRead \in NoCycle..MaxCycle
      /\ past \in BOOLEAN
  BY <1>2, RowFacts DEF NoCycle
<1> HIDE DEF to, past
<1>7. row \in RowType /\ row.held = held /\ row.state = to /\ row.cycle = CycleRead
      /\ row.charge = resv[r].charge /\ row.late = past
  BY <1>5, <1>6 DEF RowType, States
<1>8. FundedRow(r, row)
  BY <1>5, <1>6, <1>7 DEF FundedRow, free, past
<1> HIDE DEF row
<1> QED BY <1>4, <1>7, <1>8

LEMMA FundTyped == ASSUME RowsInv, Fund PROVE RowsInv'
<1> DEFINE r == reading.by
<1>1. ~Unlocked /\ Unlocked' /\ UNCHANGED <<account, pack>>
  BY DEF Fund, Unlocked
<1>2. r \in Reservation /\ resv[r].state # "SETTLED" /\ reading.used \in Int /\ CycleRead \in Int
      /\ CycleRead <= account.cycle
  BY <1>1, CycleReadFacts, FundingAssumption DEF Unclaimed, ReadingType, FundingAssumption
<1>3. CASE resv' = [resv EXCEPT ![r] = Unfunded(r)]
  BY <1>1, <1>2, <1>3, UnfundedRow, GivenBackTyped DEF RowsInv
<1>4. ASSUME NEW row \in RowType, FundedRow(r, row), resv' = [resv EXCEPT ![r] = row]
      PROVE  RowsInv'
  <2> DEFINE free == Available(r, CycleRead, reading.used)
  <2>1. free \in Minutes /\ (free[Grace] = 0 \/ free[Overage] = 0)
    BY <1>2, FreeMinutes DEF RowsInv
  <2>2. /\ row.held \in Minutes /\ \A i \in Source : row.held[i] <= free[i]
        /\ row.charge = resv[r].charge /\ row.cycle = CycleRead
    BY <1>4 DEF FundedRow
  <2> HIDE DEF free
  <2>3. Uncharged(resv[r])
    BY <1>2 DEF RowsInv, ChargedIsSettled
  <2>4. row.held[Grace] = 0 \/ row.held[Overage] = 0
    BY <2>1, <2>2, Sources DEF Minutes
  <2>5. \A i \in Source : row.charge[i] = 0 /\ row.held[i] \in Nat
    BY <2>2, <2>3 DEF Uncharged, Minutes
  <2>6. RowOK(row)
    BY <1>2, <2>2, <2>4, <2>5 DEF RowOK, Uncharged
  <2>7. ReadingFirm'
    BY <1>1 DEF ReadingFirm
  <2>8. account \in AccountType /\ pack \in [Pack -> PackType] /\ account.graceCycle <= account.cycle
    BY <1>2, RowFacts
  <2> QED BY <1>1, <1>2, <1>4, <2>6, <2>7, <2>8, OneRow
<1> QED BY <1>3, <1>4, FundFacts

-----------------------------------------------------------------------------
(* The other actions, and the types of all *)

LEMMA RestTyped ==
    ASSUME RowsInv, UNCHANGED <<resv, reading>>, account' \in AccountType,
           pack' \in [Pack -> PackType], account.cycle <= account'.cycle,
           account'.granted \subseteq 1..account'.cycle, account'.graceCycle <= account'.cycle
    PROVE  RowsInv'
<1>0. account.cycle \in Nat /\ account'.cycle \in Nat
  BY FundingAssumption DEF RowsInv, TypeOK, AccountType, FundingAssumption
<1>1. \A q \in Reservation : resv[q] \in RowType /\ resv[q].cycle \in Int
  BY RowsTyped, FundingAssumption DEF RowsInv, RowType, FundingAssumption, NoCycle
<1>2. TypeOK'
  BY DEF RowsInv, TypeOK, AccountType, PackType, Unlocked
<1>3. ChargedIsSettled'
  BY DEF RowsInv, ChargedIsSettled, Uncharged
<1>4. CyclesPast'
  BY <1>0, <1>1 DEF RowsInv, CyclesPast
<1>5. ReadingFirm'
  <2> SUFFICES ASSUME ~Unlocked PROVE ReadingFirm'
    BY DEF ReadingFirm, Unlocked
  <2>1. reading.cycle \in Int /\ reading.cycle <= account.cycle
    BY CycleReadFacts, FundingAssumption DEF ReadingType, RowsInv, ReadingFirm, FundingAssumption
  <2> QED BY <1>0, <2>1 DEF RowsInv, ReadingFirm, ReviewHeld, Unlocked
<1> QED BY <1>2, <1>3, <1>4, <1>5 DEF RowsInv

LEMMA ReserveTyped ==
    ASSUME RowsInv, NEW r \in Reservation, NEW start \in BOOLEAN, Reserve(r, start)
    PROVE  RowsInv'
<1>1. UNCHANGED <<resv, account, pack>> /\ resv[r].state \in Unclaimed /\ ~ReviewHeld(Holders \ {r})
      /\ reading' = [by |-> r, start |-> start, cycle |-> account.cycle, used |-> account.graceUsed]
  BY DEF Reserve
<1>2. ~ReviewHeld(Reservation)
  BY <1>1 DEF ReviewHeld, Holders, HELD, Unclaimed
<1>3. reading' \in ReadingType
  BY <1>1 DEF RowsInv, TypeOK, ReadingType
<1>4. TypeOK'
  BY <1>1, <1>3 DEF RowsInv, TypeOK, ReadingType
<1>5. ReadingFirm'
  <2>1. account.cycle \in Int
    BY FundingAssumption DEF RowsInv, TypeOK, FundingAssumption
  <2>2. ~ReviewHeld(Reservation)' /\ resv'[reading'.by].state \in Unclaimed
    BY <1>1, <1>2 DEF ReviewHeld
  <2> QED BY <1>1, <2>1, <2>2 DEF ReadingFirm
<1>6. ChargedIsSettled' /\ CyclesPast'
  BY <1>1 DEF RowsInv, ChargedIsSettled, CyclesPast
<1> QED BY <1>4, <1>5, <1>6 DEF RowsInv

LEMMA RenewTyped == ASSUME RowsInv, Renew PROVE RowsInv'
<1> DEFINE c == account.cycle + 1
           acc == [account EXCEPT !.cycle = c, !.granted = @ \cup {c}]
<1>1. account \in AccountType /\ account.granted \subseteq 1..account.cycle
      /\ account.graceCycle <= account.cycle /\ MaxCycle \in Nat /\ GraceCap \in Nat
      /\ pack \in [Pack -> PackType] /\ account.cycle < MaxCycle
  BY FundingAssumption DEF RowsInv, TypeOK, CyclesPast, AccountType, PackType, FundingAssumption, Renew
<1>2. c \in 1..MaxCycle /\ account.cycle < c /\ account.cycle \in Nat /\ account.graceCycle \in Int
  BY <1>1 DEF AccountType, NoCycle
<1> HIDE DEF c
<1>3. acc \in AccountType /\ acc.cycle = c /\ acc.granted = account.granted \cup {c}
      /\ acc.graceCycle = account.graceCycle
  BY <1>1, <1>2 DEF AccountType
<1>4. account' = GraceReset(acc, c)
  BY DEF Renew, c
<1> HIDE DEF acc
<1>5. \/ account' = acc
      \/ account' = [acc EXCEPT !.graceUsed = 0, !.graceCycle = NoCycle]
  BY <1>4 DEF GraceReset
<1>6. /\ account' \in AccountType /\ account'.cycle = c
      /\ account'.granted = account.granted \cup {c}
      /\ account'.graceCycle = account.graceCycle \/ account'.graceCycle = NoCycle
  <2>1. CASE account' = acc
    BY <1>3, <2>1
  <2>2. CASE account' = [acc EXCEPT !.graceUsed = 0, !.graceCycle = NoCycle]
    <3>1. 0 \in 0..GraceCap /\ NoCycle \in NoCycle..MaxCycle
      BY <1>1 DEF NoCycle
    <3> QED BY <1>3, <2>2, <3>1 DEF AccountType
  <2> QED BY <1>5, <2>1, <2>2
<1>7. account'.granted \subseteq 1..c /\ account'.graceCycle <= c
  BY <1>1, <1>2, <1>6 DEF NoCycle
<1> QED BY <1>1, <1>2, <1>6, <1>7, RestTyped DEF Renew

LEMMA CalendarTyped == ASSUME RowsInv, Anniversary \/ Replenish PROVE RowsInv'
<1>1. account \in AccountType /\ account.granted \subseteq 1..account.cycle
      /\ account.graceCycle <= account.cycle /\ MaxCycle \in Nat
      /\ pack \in [Pack -> PackType] /\ account.cycle \in 1..MaxCycle
  BY FundingAssumption DEF RowsInv, TypeOK, CyclesPast, AccountType, PackType, FundingAssumption
<1>2. account.graceCycle \in Int
  BY <1>1 DEF AccountType, NoCycle
<1>3. CASE Anniversary
  <2>1. account' = [account EXCEPT !.cycle = account.cycle + 1] /\ account.cycle < MaxCycle
        /\ UNCHANGED <<resv, pack, reading>>
    BY <1>3 DEF Anniversary
  <2>2. account.cycle + 1 \in 1..MaxCycle
    BY <1>1, <2>1
  <2>3. account' \in AccountType /\ account'.cycle = account.cycle + 1
        /\ account'.granted = account.granted /\ account'.graceCycle = account.graceCycle
    BY <1>1, <2>1, <2>2 DEF AccountType
  <2>4. account'.granted \subseteq 1..account'.cycle /\ account'.graceCycle <= account'.cycle
        /\ account.cycle <= account'.cycle
    BY <1>1, <1>2, <2>3
  <2> QED BY <1>1, <2>1, <2>3, <2>4, RestTyped
<1>4. CASE Replenish
  <2>1. account' = [account EXCEPT !.granted = account.granted \cup {account.cycle}]
        /\ UNCHANGED <<resv, pack, reading>>
    BY <1>4 DEF Replenish
  <2>2. account' \in AccountType /\ account'.cycle = account.cycle
        /\ account'.granted = account.granted \cup {account.cycle}
        /\ account'.graceCycle = account.graceCycle
    BY <1>1, <2>1 DEF AccountType
  <2>3. account'.granted \subseteq 1..account'.cycle
    BY <1>1, <2>2
  <2> QED BY <1>1, <2>1, <2>2, <2>3, RestTyped
<1> QED BY <1>3, <1>4

\* What becomes of the packs outside of settlements.
PackSteps == ExpirePacks \/ \E p \in Pack : CreditTopUp(p) \/ Lapse(p) \/ ReverseRefund(p)

LEMMA PackStepFacts ==
    ASSUME RowsInv, PackSteps
    PROVE  /\ UNCHANGED <<resv, account, reading>> /\ pack' \in [Pack -> PackType]
           /\ \A p \in Pack :
                 \/ pack'[p] = pack[p]
                 \/ pack'[p].state \in {"lapsed", "refunded"} /\ pack[p].state # "none"
                 \/ pack[p].state = "none" /\ pack'[p] = [state |-> "valid", left |-> PackMinutes]
<1>1. pack \in [Pack -> PackType] /\ PackMinutes \in Nat
  BY FundingAssumption DEF RowsInv, TypeOK, PackType, FundingAssumption
<1>2. CASE ExpirePacks
  BY <1>1, <1>2 DEF ExpirePacks, PackType
<1>3. ASSUME NEW p \in Pack, CreditTopUp(p)
      PROVE  /\ pack' \in [Pack -> PackType] /\ \A q \in Pack \ {p} : pack'[q] = pack[q]
             /\ pack[p].state = "none" /\ pack'[p] = [state |-> "valid", left |-> PackMinutes]
             /\ UNCHANGED <<resv, account, reading>>
  BY <1>1, <1>3 DEF CreditTopUp, PackType
<1>4. ASSUME NEW p \in Pack, Lapse(p)
      PROVE  /\ pack' \in [Pack -> PackType] /\ \A q \in Pack \ {p} : pack'[q] = pack[q]
             /\ pack'[p].state \in {"lapsed", "refunded"} /\ pack[p].state # "none"
             /\ UNCHANGED <<resv, account, reading>>
  <2>1. pack[p] \in PackType /\ pack[p].state = "valid" /\ UNCHANGED <<resv, account, reading>>
        /\ pack' = [pack EXCEPT ![p] = [pack[p] EXCEPT !.state = "lapsed"]]
    BY <1>1, <1>4 DEF Lapse
  <2>2. [pack[p] EXCEPT !.state = "lapsed"] \in PackType
    BY <2>1 DEF PackType
  <2> QED BY <1>1, <2>1, <2>2
<1>5. ASSUME NEW p \in Pack, ReverseRefund(p)
      PROVE  /\ pack' \in [Pack -> PackType] /\ \A q \in Pack \ {p} : pack'[q] = pack[q]
             /\ pack'[p].state \in {"lapsed", "refunded"} /\ pack[p].state # "none"
             /\ UNCHANGED <<resv, account, reading>>
  BY <1>1, <1>5 DEF ReverseRefund, PackType
<1> QED BY <1>2, <1>3, <1>4, <1>5 DEF PackSteps

LEMMA PacksTyped == ASSUME RowsInv, PackSteps PROVE RowsInv'
<1>1. UNCHANGED <<resv, account, reading>> /\ pack' \in [Pack -> PackType]
  BY PackStepFacts
<1>2. account \in AccountType /\ account.cycle \in Nat
  BY FundingAssumption DEF RowsInv, TypeOK, AccountType, FundingAssumption
<1> QED BY <1>1, <1>2, RestTyped DEF RowsInv, CyclesPast

\* The cases of a step.
LEMMA Steps ==
    ASSUME Next
    PROVE  \/ \E r \in Reservation :
                 \/ Create(r) \/ FailScan(r) \/ ReserveBlocked(r) \/ Reset(r)
                 \/ \E start \in BOOLEAN : Reserve(r, start)
                 \/ \E observed \in 1..(MinutesNeeded[r] + 1) : Settle(r, observed)
                 \/ \E nonbillable \in BOOLEAN : Stop(r, nonbillable)
           \/ Fund \/ Renew \/ Anniversary \/ Replenish \/ PackSteps
BY DEF Next, Operate, PackSteps

LEMMA UnfundingTyped ==
    ASSUME RowsInv, NEW r \in Reservation, ReserveBlocked(r) \/ Reset(r)
    PROVE  RowsInv'
<1> DEFINE again == [Unfunded(r) EXCEPT !.resets = @ + 1]
<1>1. TypeOK /\ resv[r].state # "SETTLED" /\ Unlocked' /\ UNCHANGED <<account, pack>>
  BY DEF RowsInv, ReserveBlocked, Reset, Unclaimed, Unlocked
<1>2. CASE ReserveBlocked(r)
  <2>1. resv' = [resv EXCEPT ![r] = Unfunded(r)]
    BY <1>2 DEF ReserveBlocked
  <2> QED BY <1>1, <2>1, UnfundedRow, GivenBackTyped
<1>3. CASE Reset(r)
  <2>1. resv' = [resv EXCEPT ![r] = again] /\ resv[r].resets < MaxResets
    BY <1>3 DEF Reset
  <2>2. again \in RowType /\ again.state = "WAITING" /\ again.held = Nothing
        /\ again.cycle = NoCycle /\ again.charge = resv[r].charge
    BY <1>1, <2>1, UnfundedRow
  <2> HIDE DEF again
  <2> QED BY <1>1, <2>1, <2>2, GivenBackTyped
<1> QED BY <1>2, <1>3

LEMMA RowsStep == ASSUME RowsInv, [Next]_vars PROVE RowsInv'
<1>1. CASE Next
  BY <1>1, Steps, CreateTyped, FailTyped, UnfundingTyped, ReserveTyped, SettleTyped, StopTyped, FundTyped,
     RenewTyped, CalendarTyped, PacksTyped
<1>2. CASE UNCHANGED vars
  <2>1. account \in AccountType /\ account.cycle \in Nat /\ pack \in [Pack -> PackType]
    BY FundingAssumption DEF RowsInv, TypeOK, AccountType, PackType, FundingAssumption
  <2> QED BY <1>2, <2>1, RestTyped DEF vars, RowsInv, CyclesPast
<1> QED BY <1>1, <1>2

LEMMA RowsInit == ASSUME Init PROVE RowsInv
<1>1. PICK limit \in SpendLimits, interval \in Intervals :
        account = [cycle |-> 1, granted |-> {1}, limit |-> limit, interval |-> interval,
                   graceUsed |-> 0, graceCycle |-> NoCycle]
  BY DEF Init
<1>2. MaxCycle \in Nat \ {0} /\ GraceCap \in Nat /\ PackMinutes \in Nat /\ MaxResets \in Nat
  BY FundingAssumption DEF FundingAssumption
<1>3. account \in AccountType /\ account.cycle = 1 /\ account.granted = {1}
      /\ account.graceCycle = 0
  BY <1>1, <1>2 DEF AccountType, NoCycle
<1>4. pack \in [Pack -> PackType]
  BY <1>2 DEF Init, PackType
<1>5. /\ resv \in [Reservation -> RowType]
      /\ \A r \in Reservation : resv[r].held = Nothing /\ resv[r].charge = Nothing
                              /\ resv[r].cycle = 0
  BY <1>2, NothingHeld DEF Init, RowType, States, NoCycle
<1>6. Unlocked
  BY DEF Init, Unlocked
<1>7. TypeOK
  BY <1>3, <1>4, <1>5, <1>6, NothingHeld, Sources DEF TypeOK, RowType, AccountType, PackType
<1>8. ChargedIsSettled /\ CyclesPast /\ ReadingFirm
  BY <1>3, <1>5, <1>6, NothingHeld DEF ChargedIsSettled, Uncharged, CyclesPast, ReadingFirm
<1> QED BY <1>7, <1>8 DEF RowsInv

LEMMA RowsAlways == Spec => []RowsInv
<1>1. Init => RowsInv
  BY RowsInit
<1>2. RowsInv /\ [Next]_vars => RowsInv'
  BY RowsStep
<1> QED BY <1>1, <1>2, PTL DEF Spec

\* Every row stays well formed: no reservation holds grace and overage, no charge is
\* beyond what was funded, no pack is overdrawn, grace stays within its cap.
THEOREM FundingTypes == Spec => []TypeOK
<1>1. RowsInv => TypeOK
  BY DEF RowsInv
<1> QED BY <1>1, RowsAlways, PTL

-----------------------------------------------------------------------------
(* What is promised and spent, of one reservation and of the others *)

HeldIn(rv, S)        == {q \in S : rv[q].state \in HELD}
OfCycle(rv, c)       == {q \in Reservation : rv[q].cycle = c}
PromisedOf(rv, S, i) == HeldOf(rv, HeldIn(rv, S), i)
Keeps(row, i)        == IF row.state \in HELD THEN row.held[i] ELSE 0

LEMMA Bridges ==
    ASSUME NEW S \in SUBSET Reservation, NEW i, NEW c
    PROVE  /\ HeldBy(S, i) = HeldOf(resv, S, i) /\ Promised(S, i) = PromisedOf(resv, S, i)
           /\ Spent(S, i) = ChargedOf(resv, S, i) /\ ChargedTo(S, i) = ChargedOf(resv, S, i)
           /\ InCycle(Reservation, c) = OfCycle(resv, c)
BY DEF HeldBy, Promised, Spent, ChargedTo, PromisedOf, HeldOf, ChargedOf, HeldIn, InCycle, OfCycle

LEMMA BridgesNext ==
    ASSUME NEW S \in SUBSET Reservation, NEW i, NEW c
    PROVE  /\ Promised(S, i)' = PromisedOf(resv', S, i)
           /\ Spent(S, i)' = ChargedOf(resv', S, i)
           /\ InCycle(Reservation, c)' = OfCycle(resv', c)
BY DEF HeldBy, Promised, Spent, ChargedTo, PromisedOf, HeldOf, ChargedOf, HeldIn, InCycle, OfCycle

LEMMA PromisedSplit ==
    ASSUME NEW rv \in Rows, NEW S \in SUBSET Reservation, NEW i \in Source, NEW r \in S
    PROVE  /\ PromisedOf(rv, S, i) = Keeps(rv[r], i) + PromisedOf(rv, S \ {r}, i)
           /\ PromisedOf(rv, S, i) \in Nat /\ PromisedOf(rv, S \ {r}, i) \in Nat
           /\ Keeps(rv[r], i) \in Nat
<1> DEFINE A == HeldIn(rv, S)
           B == HeldIn(rv, S \ {r})
<1>1. A \in SUBSET Reservation /\ B \in SUBSET Reservation
  BY DEF HeldIn
<1>2. HeldOf(rv, A, i) \in Nat /\ HeldOf(rv, B, i) \in Nat
  BY <1>1, RowSums
<1>3. Keeps(rv[r], i) \in Nat
  BY DEF Keeps, Rows, Minutes
<1>4. CASE rv[r].state \in HELD
  <2>1. r \in A /\ B = A \ {r}
    BY <1>4 DEF HeldIn
  <2> HIDE DEF A, B
  <2>2. HeldOf(rv, A, i) = rv[r].held[i] + HeldOf(rv, A \ {r}, i)
    BY <1>1, <2>1, RowSplit
  <2> QED BY <1>2, <1>3, <1>4, <2>1, <2>2 DEF PromisedOf, Keeps, A, B
<1>5. CASE rv[r].state \notin HELD
  <2>1. B = A
    BY <1>5 DEF HeldIn
  <2> HIDE DEF A, B
  <2> QED BY <1>2, <1>3, <1>5, <2>1 DEF PromisedOf, Keeps, A, B
<1> QED BY <1>4, <1>5

LEMMA PromisedKept ==
    ASSUME NEW rv \in Rows, NEW rw, NEW S \in SUBSET Reservation, NEW i \in Source,
           \A q \in S : rw[q] = rv[q]
    PROVE  PromisedOf(rw, S, i) = PromisedOf(rv, S, i)
<1>1. HeldIn(rw, S) = HeldIn(rv, S) /\ HeldIn(rv, S) \in SUBSET Reservation
  BY DEF HeldIn
<1>2. \A q \in HeldIn(rv, S) : rw[q] = rv[q]
  BY DEF HeldIn
<1>3. HeldOf(rw, HeldIn(rv, S), i) = HeldOf(rv, HeldIn(rv, S), i)
  BY <1>1, <1>2, RowsKept
<1> QED BY <1>1, <1>3 DEF PromisedOf

\* When one row is written the account's sums change by that row.
LEMMA AllRows ==
    ASSUME NEW rv \in Rows, NEW rw \in Rows, NEW r \in Reservation, NEW i \in Source,
           \A q \in Reservation \ {r} : rw[q] = rv[q]
    PROVE  LET p0 == PromisedOf(rv, Reservation, i)
               p1 == PromisedOf(rw, Reservation, i)
               s0 == ChargedOf(rv, Reservation, i)
               s1 == ChargedOf(rw, Reservation, i)
           IN  /\ p0 \in Nat /\ p1 \in Nat /\ s0 \in Nat /\ s1 \in Nat
               /\ Keeps(rv[r], i) \in Nat /\ Keeps(rw[r], i) \in Nat
               /\ p1 = p0 - Keeps(rv[r], i) + Keeps(rw[r], i)
               /\ s1 = s0 - rv[r].charge[i] + rw[r].charge[i]
<1> DEFINE O == Reservation \ {r}
<1>0. O \in SUBSET Reservation /\ Reservation \in SUBSET Reservation
      /\ \A q \in O : rw[q] = rv[q]
  OBVIOUS
<1>1. /\ PromisedOf(rv, Reservation, i) = Keeps(rv[r], i) + PromisedOf(rv, O, i)
      /\ PromisedOf(rw, Reservation, i) = Keeps(rw[r], i) + PromisedOf(rw, O, i)
      /\ PromisedOf(rv, O, i) \in Nat /\ Keeps(rv[r], i) \in Nat /\ Keeps(rw[r], i) \in Nat
  BY <1>0, PromisedSplit
<1>2. /\ ChargedOf(rv, Reservation, i) = rv[r].charge[i] + ChargedOf(rv, O, i)
      /\ ChargedOf(rw, Reservation, i) = rw[r].charge[i] + ChargedOf(rw, O, i)
  BY <1>0, RowSplit
<1>3. ChargedOf(rv, O, i) \in Nat /\ rv[r].charge[i] \in Nat /\ rw[r].charge[i] \in Nat
  BY <1>0, RowSums DEF Rows, Minutes
<1> HIDE DEF O
<1>4. PromisedOf(rw, O, i) = PromisedOf(rv, O, i) /\ ChargedOf(rw, O, i) = ChargedOf(rv, O, i)
  BY <1>0, PromisedKept, RowsKept
<1> QED BY <1>1, <1>2, <1>3, <1>4

\* Of one cycle: what the others keep and spend, and the row's own part.
Own(row, c, i) == IF row.cycle = c THEN Keeps(row, i) + row.charge[i] ELSE 0
UsedOf(rv, c, i) == PromisedOf(rv, OfCycle(rv, c), i) + ChargedOf(rv, OfCycle(rv, c), i)
OthersUse(rv, r, c, i) ==
    PromisedOf(rv, OfCycle(rv, c) \ {r}, i) + ChargedOf(rv, OfCycle(rv, c) \ {r}, i)

LEMMA UsedSplit ==
    ASSUME NEW rv \in Rows, NEW r \in Reservation, NEW i \in Source, NEW c \in Int
    PROVE  /\ UsedOf(rv, c, i) = Own(rv[r], c, i) + OthersUse(rv, r, c, i)
           /\ Own(rv[r], c, i) \in Nat /\ OthersUse(rv, r, c, i) \in Nat
           /\ ChargedOf(rv, OfCycle(rv, c), i)
                = (IF rv[r].cycle = c THEN rv[r].charge[i] ELSE 0) + ChargedOf(rv, OfCycle(rv, c) \ {r}, i)
           /\ ChargedOf(rv, OfCycle(rv, c) \ {r}, i) \in Nat
<1> DEFINE S == OfCycle(rv, c)
<1>1. S \in SUBSET Reservation /\ S \ {r} \in SUBSET Reservation
  BY DEF OfCycle
<1>2. Keeps(rv[r], i) \in Nat /\ rv[r].charge[i] \in Nat
  BY DEF Keeps, Rows, Minutes
<1>3. PromisedOf(rv, S \ {r}, i) \in Nat /\ ChargedOf(rv, S \ {r}, i) \in Nat
  <2>1. HeldIn(rv, S \ {r}) \in SUBSET Reservation
    BY <1>1 DEF HeldIn
  <2> HIDE DEF S
  <2> QED BY <1>1, <2>1, RowSums DEF PromisedOf
<1>4. CASE rv[r].cycle = c
  <2>1. r \in S
    BY <1>4 DEF OfCycle
  <2> HIDE DEF S
  <2>2. PromisedOf(rv, S, i) = Keeps(rv[r], i) + PromisedOf(rv, S \ {r}, i)
    BY <1>1, <2>1, PromisedSplit
  <2>3. ChargedOf(rv, S, i) = rv[r].charge[i] + ChargedOf(rv, S \ {r}, i)
    BY <1>1, <2>1, RowSplit
  <2> DEFINE p == PromisedOf(rv, S \ {r}, i)
             q == ChargedOf(rv, S \ {r}, i)
  <2>4. UsedOf(rv, c, i) = PromisedOf(rv, S, i) + ChargedOf(rv, S, i)
    BY DEF UsedOf, S
  <2>5. OthersUse(rv, r, c, i) = p + q
    BY DEF OthersUse, S
  <2>6. Own(rv[r], c, i) = Keeps(rv[r], i) + rv[r].charge[i]
    BY <1>4 DEF Own
  <2>7. p \in Nat /\ q \in Nat
    BY <1>3
  <2> HIDE DEF p, q
  <2>8. UsedOf(rv, c, i) = (Keeps(rv[r], i) + p) + (rv[r].charge[i] + q)
    BY <2>2, <2>3, <2>4 DEF p, q
  <2>9. /\ UsedOf(rv, c, i) = Own(rv[r], c, i) + OthersUse(rv, r, c, i)
        /\ Own(rv[r], c, i) \in Nat /\ OthersUse(rv, r, c, i) \in Nat
    BY <1>2, <2>5, <2>6, <2>7, <2>8
  <2>10. ChargedOf(rv, OfCycle(rv, c), i)
           = (IF rv[r].cycle = c THEN rv[r].charge[i] ELSE 0) + ChargedOf(rv, OfCycle(rv, c) \ {r}, i)
    BY <1>4, <2>3 DEF S
  <2>11. ChargedOf(rv, OfCycle(rv, c) \ {r}, i) \in Nat
    BY <1>3 DEF S
  <2> QED BY <2>9, <2>10, <2>11
<1>5. CASE rv[r].cycle # c
  <2>1. S \ {r} = S
    BY <1>5 DEF OfCycle
  <2> HIDE DEF S
  <2> QED BY <1>3, <1>5, <2>1 DEF UsedOf, Own, OthersUse, S
<1> QED BY <1>4, <1>5

LEMMA OthersKept ==
    ASSUME NEW rv \in Rows, NEW rw \in Rows, NEW r \in Reservation, NEW i \in Source, NEW c \in Int,
           \A q \in Reservation \ {r} : rw[q] = rv[q]
    PROVE  /\ OthersUse(rw, r, c, i) = OthersUse(rv, r, c, i)
           /\ ChargedOf(rw, OfCycle(rw, c) \ {r}, i) = ChargedOf(rv, OfCycle(rv, c) \ {r}, i)
<1> DEFINE O == OfCycle(rv, c) \ {r}
<1>1. OfCycle(rw, c) \ {r} = O /\ O \in SUBSET Reservation /\ \A q \in O : rw[q] = rv[q]
  BY DEF OfCycle
<1> HIDE DEF O
<1>2. PromisedOf(rw, O, i) = PromisedOf(rv, O, i) /\ ChargedOf(rw, O, i) = ChargedOf(rv, O, i)
  BY <1>1, PromisedKept, RowsKept
<1> QED BY <1>1, <1>2 DEF OthersUse, O

LEMMA UsedChange ==
    ASSUME NEW rv \in Rows, NEW rw \in Rows, NEW r \in Reservation, NEW i \in Source, NEW c \in Int,
           \A q \in Reservation \ {r} : rw[q] = rv[q]
    PROVE  /\ UsedOf(rw, c, i) = UsedOf(rv, c, i) - Own(rv[r], c, i) + Own(rw[r], c, i)
           /\ UsedOf(rv, c, i) \in Nat /\ UsedOf(rw, c, i) \in Nat
           /\ Own(rv[r], c, i) \in Nat /\ Own(rw[r], c, i) \in Nat
<1>1. /\ UsedOf(rv, c, i) = Own(rv[r], c, i) + OthersUse(rv, r, c, i)
      /\ Own(rv[r], c, i) \in Nat /\ OthersUse(rv, r, c, i) \in Nat
  BY UsedSplit
<1>2. /\ UsedOf(rw, c, i) = Own(rw[r], c, i) + OthersUse(rw, r, c, i)
      /\ Own(rw[r], c, i) \in Nat
  BY UsedSplit
<1>3. OthersUse(rw, r, c, i) = OthersUse(rv, r, c, i)
  BY OthersKept
<1> QED BY <1>1, <1>2, <1>3

\* A reservation that gives back: it keeps no more than before, and its charge.
GivesBack(r) ==
    /\ KeepsOthers(r)
    /\ resv'[r].charge = resv[r].charge
    /\ \A i \in Source : /\ resv'[r].held[i] <= resv[r].held[i]
                          /\ Keeps(resv'[r], i) <= Keeps(resv[r], i)
    /\ \/ resv'[r].cycle = resv[r].cycle /\ resv'[r].late = resv[r].late
       \/ resv'[r].cycle = NoCycle /\ Uncharged(resv[r])
    /\ UNCHANGED <<account, pack>>

LEMMA UnfundingGives ==
    ASSUME RowsInv, NEW r \in Reservation, NEW row \in RowType, resv' = [resv EXCEPT ![r] = row],
           row.held = Nothing, row.cycle = NoCycle, row.state = "WAITING", row.charge = resv[r].charge,
           resv[r].state # "SETTLED", UNCHANGED <<account, pack>>
    PROVE  GivesBack(r)
<1>1. resv'[r] = row /\ KeepsOthers(r)
  BY RowWritten DEF RowsInv
<1>2. Uncharged(resv[r])
  BY DEF RowsInv, ChargedIsSettled
<1>3. \A i \in Source : resv[r].held[i] \in Nat /\ Keeps(resv[r], i) \in Nat
  BY RowFacts DEF RowType, Minutes, Keeps
<1>4. \A i \in Source : row.held[i] = 0 /\ Keeps(row, i) = 0
  BY NothingHeld DEF Keeps, HELD
<1> QED BY <1>1, <1>2, <1>3, <1>4 DEF GivesBack

LEMMA GivingSteps ==
    ASSUME RowsInv, NEW r \in Reservation,
           \/ Create(r) \/ FailScan(r) \/ ReserveBlocked(r) \/ Reset(r)
           \/ \E nonbillable \in BOOLEAN : Stop(r, nonbillable)
    PROVE  GivesBack(r)
<1>1. resv[r] \in RowType /\ TypeOK /\ resv \in [Reservation -> RowType]
  BY RowFacts, RowsTyped DEF RowsInv
<1>2. \A i \in Source : resv[r].held[i] \in Nat
  BY <1>1 DEF RowType, Minutes
<1>3. CASE Create(r)
  <2>1. resv'[r] = [resv[r] EXCEPT !.state = "WAITING"] /\ KeepsOthers(r)
        /\ UNCHANGED <<account, pack>>
    BY <1>1, <1>3 DEF Create, KeepsOthers
  <2>2. /\ resv'[r].held = resv[r].held /\ resv'[r].charge = resv[r].charge
        /\ resv'[r].cycle = resv[r].cycle /\ resv'[r].state = "WAITING"
        /\ resv'[r].late = resv[r].late
    BY <1>1, <2>1 DEF RowType
  <2> QED BY <1>2, <2>1, <2>2 DEF GivesBack, Keeps, HELD
<1>4. ASSUME NEW nonbillable \in BOOLEAN, Stop(r, nonbillable) PROVE GivesBack(r)
  <2>1. resv' = [resv EXCEPT ![r].state = Disposed(@, nonbillable), ![r].stopped = TRUE]
        /\ UNCHANGED <<account, pack>>
        /\ resv[r].state \in {"WAITING", "RESERVED", "RUNNING", "SETTLED"}
    BY <1>4 DEF Stop
  <2>2. /\ resv'[r].held = resv[r].held /\ resv'[r].charge = resv[r].charge
        /\ resv'[r].cycle = resv[r].cycle /\ resv'[r].late = resv[r].late
        /\ resv'[r].state = Disposed(resv[r].state, nonbillable) /\ KeepsOthers(r)
    BY <1>1, <2>1 DEF RowType, KeepsOthers
  <2>3. resv'[r].state \in HELD => resv[r].state \in HELD
    BY <2>1, <2>2 DEF Disposed, HELD, Unclaimed
  <2>4. \A i \in Source : Keeps(resv'[r], i) <= Keeps(resv[r], i)
    BY <1>2, <2>2, <2>3 DEF Keeps
  <2>5. \A i \in Source : resv'[r].held[i] <= resv[r].held[i]
    BY <1>2, <2>2
  <2> QED BY <2>1, <2>2, <2>4, <2>5 DEF GivesBack
<1>5. CASE ReserveBlocked(r)
  <2>1. resv' = [resv EXCEPT ![r] = Unfunded(r)] /\ resv[r].state # "SETTLED"
        /\ UNCHANGED <<account, pack>>
    BY <1>5 DEF ReserveBlocked, Unclaimed
  <2> QED BY <1>1, <2>1, UnfundedRow, UnfundingGives
<1>6. CASE Reset(r)
  <2> DEFINE again == [Unfunded(r) EXCEPT !.resets = @ + 1]
  <2>1. resv' = [resv EXCEPT ![r] = again] /\ resv[r].resets < MaxResets
        /\ resv[r].state # "SETTLED" /\ UNCHANGED <<account, pack>>
    BY <1>6 DEF Reset, Unclaimed
  <2>2. again \in RowType /\ again.state = "WAITING" /\ again.held = Nothing
        /\ again.cycle = NoCycle /\ again.charge = resv[r].charge
    BY <1>1, <2>1, UnfundedRow
  <2> HIDE DEF again
  <2> QED BY <2>1, <2>2, UnfundingGives
<1>7. CASE FailScan(r)
  <2>1. resv'[r] = [resv[r] EXCEPT !.failed = TRUE] /\ KeepsOthers(r)
        /\ UNCHANGED <<account, pack>>
    BY <1>1, <1>7 DEF FailScan, KeepsOthers
  <2>2. /\ resv'[r].held = resv[r].held /\ resv'[r].charge = resv[r].charge
        /\ resv'[r].cycle = resv[r].cycle /\ resv'[r].state = resv[r].state
        /\ resv'[r].late = resv[r].late
    BY <1>1, <2>1 DEF RowType
  <2> QED BY <1>2, <2>1, <2>2 DEF GivesBack, Keeps
<1> QED BY <1>3, <1>4, <1>5, <1>6, <1>7

LEMMA FundSteps ==
    ASSUME RowsInv, Fund
    PROVE  /\ reading.by \in Reservation /\ Uncharged(resv[reading.by])
           /\ KeepsOthers(reading.by) /\ UNCHANGED <<account, pack>>
           /\ \/ GivesBack(reading.by) /\ resv'[reading.by].held = Nothing
                                       /\ resv'[reading.by].cycle = NoCycle
              \/ FundedRow(reading.by, resv'[reading.by]) /\ resv'[reading.by] \in RowType
<1> DEFINE r == reading.by
<1>1. ~Unlocked /\ UNCHANGED <<account, pack>> /\ TypeOK
  BY DEF Fund, RowsInv
<1>2. r \in Reservation /\ resv[r].state # "SETTLED"
  BY <1>1, CycleReadFacts DEF Unclaimed
<1>3. Uncharged(resv[r])
  BY <1>2 DEF RowsInv, ChargedIsSettled
<1>4. CASE resv' = [resv EXCEPT ![r] = Unfunded(r)]
  <2>1. Unfunded(r) \in RowType
    BY <1>1, <1>2, UnfundedRow
  <2>2. GivesBack(r)
    BY <1>1, <1>2, <1>4, <2>1, UnfundedRow, UnfundingGives
  <2>3. resv'[r] = Unfunded(r) /\ KeepsOthers(r)
    BY <1>1, <1>2, <1>4, <2>1, RowWritten
  <2> QED BY <1>1, <1>2, <1>3, <2>2, <2>3, UnfundedRow
<1>5. ASSUME NEW row \in RowType, FundedRow(r, row), resv' = [resv EXCEPT ![r] = row]
      PROVE  FundedRow(r, resv'[r]) /\ resv'[r] \in RowType /\ KeepsOthers(r)
  <2>1. resv'[r] = row /\ KeepsOthers(r)
    BY <1>1, <1>2, <1>5, RowWritten
  <2> QED BY <1>5, <2>1
<1> QED BY <1>1, <1>2, <1>3, <1>4, <1>5, FundFacts

-----------------------------------------------------------------------------
(* Packs *)

PacksInv == RowsInv /\ UnsoldIsUnheld /\ PacksCovered

\* What PacksCovered and UnsoldIsUnheld say of one pack.
PackKept(rv, pk, p) ==
    /\ pk[p].state = "none" => \A r \in Reservation : rv[r].held[p] = 0
    /\ pk[p].state = "valid" =>
          /\ PromisedOf(rv, Reservation, p) <= pk[p].left
          /\ pk[p].left + ChargedOf(rv, Reservation, p) = PackMinutes

LEMMA PacksKept ==
    /\ UnsoldIsUnheld /\ PacksCovered <=> \A p \in Pack : PackKept(resv, pack, p)
    /\ UnsoldIsUnheld' /\ PacksCovered' <=> \A p \in Pack : PackKept(resv', pack', p)
<1>1. Reservation \in SUBSET Reservation
  OBVIOUS
<1>2. \A p \in Pack : /\ Promised(Reservation, p) = PromisedOf(resv, Reservation, p)
                      /\ Spent(Reservation, p) = ChargedOf(resv, Reservation, p)
  BY <1>1, Bridges
<1>3. \A p \in Pack : /\ Promised(Reservation, p)' = PromisedOf(resv', Reservation, p)
                      /\ Spent(Reservation, p)' = ChargedOf(resv', Reservation, p)
  BY <1>1, BridgesNext
<1>4. UnsoldIsUnheld /\ PacksCovered <=> \A p \in Pack : PackKept(resv, pack, p)
  BY <1>2 DEF UnsoldIsUnheld, PacksCovered, PackKept
<1>5. UnsoldIsUnheld' /\ PacksCovered' <=> \A p \in Pack : PackKept(resv', pack', p)
  BY <1>3 DEF UnsoldIsUnheld, PacksCovered, PackKept
<1> QED BY <1>4, <1>5

\* When no row has minutes of a source, their sums are nothing.
LEMMA ZeroRows ==
    ASSUME NEW rv \in Rows, NEW S \in SUBSET Reservation, NEW i \in Source,
           \A r \in Reservation : rv[r].held[i] = 0 /\ rv[r].charge[i] = 0
    PROVE  PromisedOf(rv, S, i) = 0 /\ ChargedOf(rv, S, i) = 0
<1>1. HeldIn(rv, S) \in SUBSET Reservation
  BY DEF HeldIn
<1>2. IsFiniteSet(HeldIn(rv, S)) /\ IsFiniteSet(S)
  BY <1>1, ReservationSets
<1>3. \A q \in HeldIn(rv, S) : [r \in HeldIn(rv, S) |-> rv[r].held[i]][q] = 0
  BY <1>1
<1>4. \A q \in S : [r \in S |-> rv[r].charge[i]][q] = 0
  OBVIOUS
<1> QED BY <1>2, <1>3, <1>4, SumZero DEF PromisedOf, HeldOf, ChargedOf

LEMMA PacksGive ==
    ASSUME PacksInv, RowsInv', NEW r \in Reservation, GivesBack(r)
    PROVE  UnsoldIsUnheld' /\ PacksCovered'
<1>1. resv \in Rows /\ resv' \in Rows
  BY RowsTyped, RowsTypedNext DEF PacksInv, RowsInv
<1>2. KeepsOthers(r) /\ pack' = pack
  BY DEF GivesBack
<1>3. ASSUME NEW p \in Pack PROVE PackKept(resv', pack', p)
  <2>1. p \in Source /\ pack[p].left \in Int
    BY Sources, FundingAssumption DEF PacksInv, RowsInv, TypeOK, FundingAssumption
  <2>2. PackKept(resv, pack, p)
    BY PacksKept DEF PacksInv
  <2>3. /\ PromisedOf(resv', Reservation, p)
             = PromisedOf(resv, Reservation, p) - Keeps(resv[r], p) + Keeps(resv'[r], p)
        /\ PromisedOf(resv, Reservation, p) \in Nat /\ Keeps(resv[r], p) \in Nat
        /\ Keeps(resv'[r], p) \in Nat /\ ChargedOf(resv, Reservation, p) \in Nat
        /\ ChargedOf(resv', Reservation, p)
             = ChargedOf(resv, Reservation, p) - resv[r].charge[p] + resv'[r].charge[p]
    BY <1>1, <1>2, <2>1, AllRows DEF KeepsOthers
  <2>4. Keeps(resv'[r], p) <= Keeps(resv[r], p) /\ resv'[r].charge = resv[r].charge
        /\ resv[r].charge[p] \in Nat
    BY <1>1, <2>1 DEF GivesBack, Rows, Minutes
  <2>5. /\ PromisedOf(resv', Reservation, p) <= PromisedOf(resv, Reservation, p)
        /\ ChargedOf(resv', Reservation, p) = ChargedOf(resv, Reservation, p)
        /\ PromisedOf(resv', Reservation, p) \in Int
    BY <2>3, <2>4
  <2>6. \A q \in Reservation : resv[q].held[p] = 0 => resv'[q].held[p] = 0
    <3>1. \A q \in Reservation : resv'[q].held[p] \in Nat
      BY <1>1, <2>1 DEF Rows, Minutes
    <3> QED BY <1>2, <2>1, <3>1 DEF GivesBack, KeepsOthers
  <2> QED BY <1>2, <2>1, <2>2, <2>3, <2>5, <2>6 DEF PackKept
<1> QED BY <1>3, PacksKept

LEMMA PacksSettle ==
    ASSUME PacksInv, RowsInv', NEW r \in Reservation,
           NEW observed \in 1..(MinutesNeeded[r] + 1), Settle(r, observed)
    PROVE  UnsoldIsUnheld' /\ PacksCovered'
<1>0. RowsInv /\ resv[r].state = "RUNNING"
  BY DEF PacksInv, Settle
<1>1. PICK charge \in Minutes :
        /\ \A i \in Source : charge[i] <= resv[r].held[i]
        /\ resv' = [resv EXCEPT ![r] = [resv[r] EXCEPT !.state = "SETTLED", !.charge = charge]]
        /\ pack' = [p \in Pack |-> [pack[p] EXCEPT !.left = @ - charge[p]]]
  BY <1>0, SettleFacts
<1>2. resv \in Rows /\ resv' \in Rows /\ pack \in [Pack -> PackType]
  <2>1. TypeOK /\ TypeOK'
    BY DEF PacksInv, RowsInv
  <2>2. pack \in [Pack -> PackType]
    BY <2>1 DEF TypeOK, PackType
  <2> QED BY <2>1, <2>2, RowsTyped, RowsTypedNext
<1>3. /\ resv'[r].held = resv[r].held /\ resv'[r].charge = charge /\ resv'[r].state = "SETTLED"
      /\ \A q \in Reservation \ {r} : resv'[q] = resv[q]
  BY <1>1, <1>2 DEF Rows
<1>4. Uncharged(resv[r])
  BY <1>0 DEF RowsInv, ChargedIsSettled
<1>5. ASSUME NEW p \in Pack PROVE PackKept(resv', pack', p)
  <2>1. p \in Source /\ pack[p].left \in Int /\ charge[p] \in Nat
    BY <1>2, Sources, FundingAssumption DEF PackType, Minutes, FundingAssumption
  <2>2. PackKept(resv, pack, p)
    BY PacksKept DEF PacksInv
  <2>3. /\ PromisedOf(resv', Reservation, p)
             = PromisedOf(resv, Reservation, p) - Keeps(resv[r], p) + Keeps(resv'[r], p)
        /\ PromisedOf(resv, Reservation, p) \in Nat /\ ChargedOf(resv, Reservation, p) \in Nat
        /\ ChargedOf(resv', Reservation, p)
             = ChargedOf(resv, Reservation, p) - resv[r].charge[p] + resv'[r].charge[p]
    BY <1>2, <1>3, <2>1, AllRows
  <2>4. Keeps(resv'[r], p) = 0 /\ Keeps(resv[r], p) = resv[r].held[p] /\ resv[r].held[p] \in Nat
        /\ charge[p] <= resv[r].held[p] /\ resv[r].charge[p] = 0 /\ resv'[r].charge[p] = charge[p]
    BY <1>0, <1>1, <1>2, <1>3, <1>4, <2>1 DEF Keeps, HELD, Uncharged, Rows, Minutes
  <2>5. pack'[p].state = pack[p].state /\ pack'[p].left = pack[p].left - charge[p]
    BY <1>1, <1>2, <2>1 DEF PackType
  <2>6. \A q \in Reservation : resv'[q].held = resv[q].held
    BY <1>3
  <2>7. /\ PromisedOf(resv', Reservation, p) <= PromisedOf(resv, Reservation, p) - charge[p]
        /\ ChargedOf(resv', Reservation, p) = ChargedOf(resv, Reservation, p) + charge[p]
        /\ PromisedOf(resv', Reservation, p) \in Int /\ ChargedOf(resv', Reservation, p) \in Int
    BY <2>1, <2>3, <2>4
  <2> QED BY <2>1, <2>2, <2>3, <2>5, <2>6, <2>7 DEF PackKept
<1> QED BY <1>5, PacksKept

\* The others' promises are among what Available subtracts.
LEMMA OthersHold ==
    ASSUME TypeOK, NEW r \in Reservation, NEW i \in Source, NEW c \in Int
    PROVE  /\ PromisedOf(resv, Reservation \ {r}, i) <= HeldBy(Holders \ {r}, i)
           /\ PromisedOf(resv, OfCycle(resv, c) \ {r}, i) <= HeldBy(InCycle(Holders \ {r}, c), i)
           /\ HeldBy(Holders \ {r}, i) \in Nat /\ HeldBy(InCycle(Holders \ {r}, c), i) \in Nat
<1>1. resv \in Rows
  BY RowsTyped
<1>2. ASSUME NEW S \in SUBSET Reservation, NEW T \in SUBSET Reservation, HeldIn(resv, S) \subseteq T
      PROVE  PromisedOf(resv, S, i) <= HeldBy(T, i) /\ HeldBy(T, i) \in Nat
  <2>1. HeldOf(resv, HeldIn(resv, S), i) <= HeldOf(resv, T, i)
    BY <1>1, <1>2, FewerRows
  <2>2. HeldBy(T, i) = HeldOf(resv, T, i) /\ HeldOf(resv, T, i) \in Nat
    BY <1>1, Bridges, RowSums
  <2> QED BY <2>1, <2>2 DEF PromisedOf
<1>3. /\ Holders \ {r} \in SUBSET Reservation /\ InCycle(Holders \ {r}, c) \in SUBSET Reservation
      /\ Reservation \ {r} \in SUBSET Reservation /\ OfCycle(resv, c) \ {r} \in SUBSET Reservation
      /\ HeldIn(resv, Reservation \ {r}) \subseteq Holders \ {r}
      /\ HeldIn(resv, OfCycle(resv, c) \ {r}) \subseteq InCycle(Holders \ {r}, c)
  BY DEF Holders, InCycle, OfCycle, HeldIn
<1> QED BY <1>2, <1>3

LEMMA PacksFund ==
    ASSUME PacksInv, RowsInv', Fund
    PROVE  UnsoldIsUnheld' /\ PacksCovered'
<1> DEFINE r == reading.by
           free == Available(r, CycleRead, reading.used)
           row == resv'[r]
<1>0. RowsInv /\ TypeOK /\ ~Unlocked
  BY DEF PacksInv, RowsInv, Fund
<1>1. /\ r \in Reservation /\ Uncharged(resv[r]) /\ KeepsOthers(r) /\ pack' = pack
      /\ GivesBack(r) \/ FundedRow(r, row)
  BY <1>0, FundSteps
<1>2. CASE GivesBack(r)
  BY <1>1, <1>2, PacksGive
<1>3. CASE FundedRow(r, row)
  <2>1. resv \in Rows /\ resv' \in Rows
    BY RowsTyped, RowsTypedNext DEF PacksInv, RowsInv
  <2>2. CycleRead \in Int /\ reading.used \in Int
    BY <1>0, CycleReadFacts, FundingAssumption DEF ReadingType, FundingAssumption
  <2>3. /\ free \in Minutes
        /\ \A p \in Pack :
              \/ free[p] = 0
              \/ pack[p].state = "valid" /\ free[p] <= pack[p].left - HeldBy(Holders \ {r}, p)
    BY <1>0, <1>1, <2>2, FreeMinutes
  <2>4. row.held \in Minutes /\ (\A i \in Source : row.held[i] <= free[i])
        /\ row.state \in HELD /\ row.charge = resv[r].charge
    BY <1>3 DEF FundedRow, HELD
  <2> HIDE DEF free, row
  <2>5. ASSUME NEW p \in Pack PROVE PackKept(resv', pack', p)
    <3>1. p \in Source /\ pack[p].left \in Int /\ row.held[p] \in Nat /\ free[p] \in Nat
      <4>1. p \in Source
        BY Sources
      <4>2. pack[p] \in PackType /\ PackMinutes \in Nat
        BY <1>0, FundingAssumption DEF TypeOK, PackType, FundingAssumption
      <4>3. row.held[p] \in Nat /\ free[p] \in Nat
        BY <2>3, <2>4, <4>1 DEF Minutes
      <4> QED BY <4>1, <4>2, <4>3 DEF PackType
    <3>2. PackKept(resv, pack, p)
      BY PacksKept DEF PacksInv
    <3>3. /\ PromisedOf(resv', Reservation, p) = Keeps(row, p) + PromisedOf(resv', Reservation \ {r}, p)
          /\ PromisedOf(resv, Reservation, p) = Keeps(resv[r], p) + PromisedOf(resv, Reservation \ {r}, p)
          /\ PromisedOf(resv, Reservation \ {r}, p) \in Nat /\ Keeps(resv[r], p) \in Nat
      <4>1. Reservation \in SUBSET Reservation /\ p \in Source /\ r \in Reservation
        BY <1>1, <3>1
      <4> QED BY <2>1, <4>1, PromisedSplit DEF row
    <3>4. PromisedOf(resv', Reservation \ {r}, p) = PromisedOf(resv, Reservation \ {r}, p)
      BY <1>1, <2>1, <3>1, PromisedKept DEF KeepsOthers
    <3>5. Keeps(row, p) = row.held[p] /\ row.held[p] <= free[p]
      BY <2>4, <3>1 DEF Keeps
    <3>6. PromisedOf(resv, Reservation \ {r}, p) <= HeldBy(Holders \ {r}, p)
          /\ HeldBy(Holders \ {r}, p) \in Nat
      BY <1>0, <1>1, <3>1, OthersHold
    <3>7. ChargedOf(resv', Reservation, p) = ChargedOf(resv, Reservation, p)
      <4>1. /\ ChargedOf(resv', Reservation, p)
                 = ChargedOf(resv, Reservation, p) - resv[r].charge[p] + resv'[r].charge[p]
            /\ ChargedOf(resv, Reservation, p) \in Nat
        BY <1>1, <2>1, <3>1, AllRows DEF KeepsOthers
      <4>2. resv[r].charge[p] = 0 /\ resv'[r].charge[p] = 0
        BY <1>1, <2>4, <3>1 DEF Uncharged, row
      <4> QED BY <4>1, <4>2
    <3>8. ASSUME pack[p].state = "valid" PROVE PromisedOf(resv', Reservation, p) <= pack[p].left
      <4>1. PromisedOf(resv, Reservation, p) <= pack[p].left
        BY <3>2, <3>8 DEF PackKept
      <4>2. free[p] = 0 \/ free[p] <= pack[p].left - HeldBy(Holders \ {r}, p)
        BY <2>3
      <4> QED BY <3>1, <3>3, <3>4, <3>5, <3>6, <4>1, <4>2
    <3>9. ASSUME pack[p].state = "none", NEW q \in Reservation PROVE resv'[q].held[p] = 0
      <4>1. free[p] = 0 /\ resv[q].held[p] = 0
        BY <2>3, <3>2, <3>9 DEF PackKept
      <4>2. row.held[p] = 0
        BY <3>1, <3>5, <4>1
      <4> QED BY <1>1, <4>1, <4>2 DEF KeepsOthers, row
    <3> QED BY <1>1, <3>2, <3>7, <3>8, <3>9 DEF PackKept
  <2> QED BY <2>5, PacksKept
<1> QED BY <1>1, <1>2, <1>3

LEMMA PacksMarket ==
    ASSUME PacksInv, PackSteps
    PROVE  UnsoldIsUnheld' /\ PacksCovered'
<1>0. RowsInv /\ resv \in Rows /\ resv' = resv
  BY PackStepFacts, RowsTyped DEF PacksInv, RowsInv
<1>1. ASSUME NEW p \in Pack PROVE PackKept(resv', pack', p)
  <2>1. PackKept(resv, pack, p) /\ p \in Source
    BY PacksKept, Sources DEF PacksInv
  <2>2. CASE pack'[p] = pack[p]
    BY <1>0, <2>1, <2>2 DEF PackKept
  <2>3. CASE pack'[p].state \in {"lapsed", "refunded"}
    BY <2>3 DEF PackKept
  <2>4. CASE pack[p].state = "none" /\ pack'[p] = [state |-> "valid", left |-> PackMinutes]
    <3>1. \A q \in Reservation : resv[q].held[p] = 0
      BY <2>1, <2>4 DEF PackKept
    <3>2. \A q \in Reservation : resv[q].charge[p] = 0
      <4>1. \A q \in Reservation : resv[q].charge[p] <= resv[q].held[p]
        BY <1>0, <2>1 DEF RowsInv, TypeOK
      <4>2. \A q \in Reservation : resv[q].charge[p] \in Nat
        BY <1>0, <2>1 DEF Rows, Minutes
      <4> QED BY <3>1, <4>1, <4>2
    <3>3. PromisedOf(resv, Reservation, p) = 0 /\ ChargedOf(resv, Reservation, p) = 0
      BY <1>0, <2>1, <3>1, <3>2, ZeroRows
    <3> QED BY <1>0, <2>4, <3>3, FundingAssumption DEF PackKept, FundingAssumption
  <2> QED BY <1>0, <2>2, <2>3, <2>4, PackStepFacts
<1> QED BY <1>1, PacksKept

\* Reserving, the calendar and a step of nobody leave rows and packs alone.
LEMMA StillSteps ==
    \/ Renew \/ Anniversary \/ Replenish \/ UNCHANGED vars
    \/ \E r \in Reservation, start \in BOOLEAN : Reserve(r, start)
    => resv' = resv /\ pack' = pack
BY DEF Renew, Anniversary, Replenish, Reserve, vars

LEMMA PacksStep == ASSUME PacksInv, [Next]_vars PROVE PacksInv'
<1>0. RowsInv'
  BY RowsStep DEF PacksInv
<1>1. ASSUME resv' = resv, pack' = pack PROVE UnsoldIsUnheld' /\ PacksCovered'
  BY <1>1, PacksKept DEF PacksInv
<1>2. ASSUME NEW r \in Reservation, GivesBack(r) PROVE UnsoldIsUnheld' /\ PacksCovered'
  BY <1>0, <1>2, PacksGive
<1>3. UnsoldIsUnheld' /\ PacksCovered'
  <2>1. CASE Next
    BY <1>0, <1>1, <1>2, <2>1, Steps, GivingSteps, StillSteps, PacksSettle, PacksFund, PacksMarket
       DEF PacksInv
  <2>2. CASE UNCHANGED vars
    BY <1>1, <2>2, StillSteps
  <2> QED BY <2>1, <2>2
<1> QED BY <1>0, <1>3 DEF PacksInv

\* A pack that may still be drawn on has every minute that reviews hold of it, of any
\* cycle, and has lost what was charged and nothing else: no settlement finds it short.
THEOREM PacksHold == Spec => []PacksCovered
<1>1. Init => PacksInv
  <2> SUFFICES ASSUME Init PROVE PacksInv
    OBVIOUS
  <2>1. RowsInv
    BY RowsInit
  <2>2. UnsoldIsUnheld /\ PacksCovered
    BY NothingHeld, Sources DEF Init, UnsoldIsUnheld, PacksCovered
  <2> QED BY <2>1, <2>2 DEF PacksInv
<1>2. PacksInv /\ [Next]_vars => PacksInv'
  BY PacksStep
<1>3. PacksInv => PacksCovered
  BY DEF PacksInv
<1> QED BY <1>1, <1>2, <1>3, PTL DEF Spec

-----------------------------------------------------------------------------
(* Review holds *)

LEMMA TotalMono ==
    ASSUME NEW m \in Minutes, NEW n \in Minutes, \A i \in Source : m[i] <= n[i]
    PROVE  Total(m) <= Total(n)
<1>1. IsFiniteSet(Source) /\ Counted(m, Source) /\ Counted(n, Source)
  BY Sources, SourceSums
<1> QED BY <1>1, SumMono DEF Total

\* Only the funding of a reservation lets any review hold more.
LEMMA NobodyGains ==
    ASSUME RowsInv, [Next]_vars, ~Fund
    PROVE  \A r \in Reservation : \A i \in Source : resv'[r].held[i] <= resv[r].held[i]
<1>0. \A r \in Reservation : \A i \in Source : resv[r].held[i] \in Nat
  BY RowFacts DEF RowType, Minutes
<1>1. ASSUME resv' = resv
      PROVE  \A r \in Reservation : \A i \in Source : resv'[r].held[i] <= resv[r].held[i]
  BY <1>0, <1>1
<1>2. ASSUME NEW q \in Reservation, GivesBack(q)
      PROVE  \A r \in Reservation : \A i \in Source : resv'[r].held[i] <= resv[r].held[i]
  BY <1>0, <1>2 DEF GivesBack, KeepsOthers
<1>3. ASSUME NEW q \in Reservation, NEW observed \in 1..(MinutesNeeded[q] + 1), Settle(q, observed)
      PROVE  \A r \in Reservation : \A i \in Source : resv'[r].held[i] <= resv[r].held[i]
  <2>1. PICK charge \in Minutes :
          resv' = [resv EXCEPT ![q] = [resv[q] EXCEPT !.state = "SETTLED", !.charge = charge]]
    BY <1>3, SettleFacts
  <2>2. resv \in Rows
    BY RowsTyped DEF RowsInv
  <2>3. \A r \in Reservation : resv'[r].held = resv[r].held
    BY <2>1, <2>2 DEF Rows
  <2> QED BY <1>0, <2>3
<1>4. CASE Next
  BY <1>1, <1>2, <1>3, <1>4, Steps, GivingSteps, StillSteps, PackStepFacts
<1>5. CASE UNCHANGED vars
  BY <1>1, <1>5, StillSteps
<1> QED BY <1>4, <1>5

\* While one review is held for review of its billing, no other gains minutes, not
\* even the one whose reservation was under way.
THEOREM ReviewsFreeze == Spec => ReviewFreezes
<1>1. RowsInv /\ RowsInv' /\ [Next]_vars =>
        [\A q, r \in Reservation :
           resv[q].state = "REVIEW_REQUIRED" /\ r # q =>
             Total(resv'[r].held) <= Total(resv[r].held)]_vars
  <2> SUFFICES ASSUME RowsInv, RowsInv', [Next]_vars, NEW q \in Reservation, NEW r \in Reservation,
                      resv[q].state = "REVIEW_REQUIRED"
               PROVE  Total(resv'[r].held) <= Total(resv[r].held)
    OBVIOUS
  <2>1. ~Fund
    BY CycleReadFacts DEF Fund, ReviewHeld
  <2>2. \A i \in Source : resv'[r].held[i] <= resv[r].held[i]
    BY <2>1, NobodyGains
  <2>3. resv[r].held \in Minutes /\ resv'[r].held \in Minutes
    BY RowsTyped, RowsTypedNext DEF RowsInv, Rows
  <2> QED BY <2>2, <2>3, TotalMono
<1> QED BY <1>1, RowsAlways, PTL DEF Spec, ReviewFreezes

-----------------------------------------------------------------------------
(* The allowance of a cycle *)

Shared             == {Pool, Overage, Grace}
GrantedSince(acc, c) == PoolGrant * Cardinality({g \in acc.granted : g >= c})
LimitOf(acc, c, i) ==
    IF i = Pool THEN GrantedSince(acc, c) ELSE IF i = Overage THEN acc.limit ELSE GraceCap

(* The rows as if those that were funded late were of no cycle at all. *)
OnTime(row) == IF row.late THEN [row EXCEPT !.cycle = NoCycle] ELSE row
Timely(rv)  == [q \in Reservation |-> OnTime(rv[q])]

AllowInv == RowsInv /\ ReadingKept /\ GraceCounted /\ AllowanceCovered

SpentAt(rv, c) == ChargedOf(rv, OfCycle(rv, c), Grace)

CyclesKept(rv, acc) ==
    \A c \in 1..acc.cycle : \A i \in Shared : UsedOf(rv, c, i) <= LimitOf(acc, c, i)
TimelyKept(rv, acc) == \A c \in 1..acc.cycle : UsedOf(Timely(rv), c, Pool) <= PoolGrant
GraceKept(rv, acc)  == SpentAt(rv, acc.cycle) <= acc.graceUsed

\* The timely rows are those of the cycle that are not late.
LEMMA TimelyRows ==
    ASSUME NEW rv \in Rows, NEW c \in Int, c >= 1, NEW i \in Source
    PROVE  LET S == {q \in OfCycle(rv, c) : ~rv[q].late}
           IN  /\ Timely(rv) \in Rows
               /\ UsedOf(Timely(rv), c, i) = PromisedOf(rv, S, i) + ChargedOf(rv, S, i)
               /\ UsedOf(Timely(rv), c, i) <= UsedOf(rv, c, i)
               /\ UsedOf(Timely(rv), c, i) \in Nat /\ UsedOf(rv, c, i) \in Nat
<1> DEFINE S == {q \in OfCycle(rv, c) : ~rv[q].late}
           A == OfCycle(rv, c)
<1>1. ASSUME NEW q \in Reservation PROVE OnTime(rv[q]) \in [state : States, cycle : Int, held : Minutes,
             charge : Minutes, stopped : BOOLEAN, resets : Int, failed : BOOLEAN, late : BOOLEAN]
             /\ OnTime(rv[q]).cycle = IF rv[q].late THEN NoCycle ELSE rv[q].cycle
  BY DEF Rows, OnTime, NoCycle
<1>2. Timely(rv) \in Rows
  BY <1>1 DEF Timely, Rows
<1>3. OfCycle(Timely(rv), c) = S
  BY <1>1 DEF OfCycle, Timely, NoCycle
<1>4. S \in SUBSET Reservation /\ A \in SUBSET Reservation /\ S \in SUBSET A
  BY DEF OfCycle
<1>5. \A q \in S : Timely(rv)[q] = rv[q]
  BY DEF OfCycle, Timely, OnTime
<1> HIDE DEF S, A
<1>6. /\ PromisedOf(Timely(rv), S, i) = PromisedOf(rv, S, i)
      /\ ChargedOf(Timely(rv), S, i) = ChargedOf(rv, S, i)
  BY <1>4, <1>5, PromisedKept, RowsKept
<1>7. UsedOf(Timely(rv), c, i) = PromisedOf(rv, S, i) + ChargedOf(rv, S, i)
  BY <1>3, <1>6 DEF UsedOf
<1>8. /\ HeldIn(rv, S) \in SUBSET HeldIn(rv, A) /\ HeldIn(rv, A) \in SUBSET Reservation
      /\ HeldIn(rv, S) \in SUBSET Reservation
  BY <1>4 DEF HeldIn
<1>9. PromisedOf(rv, S, i) <= PromisedOf(rv, A, i) /\ ChargedOf(rv, S, i) <= ChargedOf(rv, A, i)
  BY <1>4, <1>8, FewerRows DEF PromisedOf
<1>10. /\ PromisedOf(rv, S, i) \in Nat /\ ChargedOf(rv, S, i) \in Nat
       /\ PromisedOf(rv, A, i) \in Nat /\ ChargedOf(rv, A, i) \in Nat
  BY <1>4, <1>8, RowSums DEF PromisedOf
<1>11. UsedOf(rv, c, i) = PromisedOf(rv, A, i) + ChargedOf(rv, A, i)
  BY DEF UsedOf, A
<1> QED BY <1>2, <1>7, <1>9, <1>10, <1>11 DEF S

\* What a row that is not late has of a cycle; a late one has nothing.
LEMMA OwnOnTime ==
    ASSUME NEW rv \in Rows, NEW r \in Reservation, NEW c \in Int, c >= 1, NEW i \in Source
    PROVE  Own(Timely(rv)[r], c, i) = IF rv[r].late THEN 0 ELSE Own(rv[r], c, i)
<1>1. Timely(rv)[r] = OnTime(rv[r])
  BY DEF Timely
<1>2. rv[r].late => OnTime(rv[r]).cycle = NoCycle
  BY DEF Rows, OnTime
<1>3. ~rv[r].late => OnTime(rv[r]) = rv[r]
  BY DEF OnTime
<1> QED BY <1>1, <1>2, <1>3 DEF Own, NoCycle

\* Of one cycle, what the property says and what the sums over the rows say.
LEMMA CycleKept ==
    ASSUME RowsInv, NEW c \in 1..account.cycle
    PROVE  LET ours       == InCycle(Reservation, c)
               timely     == {r \in ours : ~resv[r].late}
               Used(S, i) == Promised(S, i) + Spent(S, i)
           IN  /\ \A i : Used(ours, i) = UsedOf(resv, c, i)
               /\ Used(timely, Pool) = UsedOf(Timely(resv), c, Pool)
<1>1. resv \in Rows /\ c \in Int /\ c >= 1 /\ Pool \in Source
  BY RowsTyped, Sources, FundingAssumption DEF RowsInv, TypeOK, FundingAssumption
<1> DEFINE S == {q \in OfCycle(resv, c) : ~resv[q].late}
<1>2. UsedOf(Timely(resv), c, Pool) = PromisedOf(resv, S, Pool) + ChargedOf(resv, S, Pool)
  BY <1>1, TimelyRows
<1>3. InCycle(Reservation, c) = OfCycle(resv, c) /\ S \in SUBSET Reservation
      /\ OfCycle(resv, c) \in SUBSET Reservation
  BY DEF InCycle, OfCycle
<1>4. S = {r \in InCycle(Reservation, c) : ~resv[r].late}
  BY <1>3
<1> HIDE DEF S
<1>5. Promised(S, Pool) = PromisedOf(resv, S, Pool) /\ Spent(S, Pool) = ChargedOf(resv, S, Pool)
  BY <1>3, Bridges
<1>6. \A i : /\ Promised(OfCycle(resv, c), i) = PromisedOf(resv, OfCycle(resv, c), i)
             /\ Spent(OfCycle(resv, c), i) = ChargedOf(resv, OfCycle(resv, c), i)
  BY <1>3, Bridges
<1> QED BY <1>2, <1>3, <1>4, <1>5, <1>6 DEF UsedOf

LEMMA CycleKeptNext ==
    ASSUME RowsInv', NEW c \in 1..account'.cycle
    PROVE  LET ours       == InCycle(Reservation, c)
               timely     == {r \in ours : ~resv[r].late}
               Used(S, i) == Promised(S, i) + Spent(S, i)
           IN  /\ \A i : Used(ours, i)' = UsedOf(resv', c, i)
               /\ Used(timely, Pool)' = UsedOf(Timely(resv'), c, Pool)
<1>1. resv' \in Rows /\ c \in Int /\ c >= 1 /\ Pool \in Source
  BY RowsTypedNext, Sources, FundingAssumption DEF RowsInv, TypeOK, FundingAssumption
<1> DEFINE S == {q \in OfCycle(resv', c) : ~resv'[q].late}
<1>2. UsedOf(Timely(resv'), c, Pool) = PromisedOf(resv', S, Pool) + ChargedOf(resv', S, Pool)
  BY <1>1, TimelyRows
<1>3. InCycle(Reservation, c)' = OfCycle(resv', c)
  BY DEF InCycle, OfCycle
<1>4. S = {r \in InCycle(Reservation, c) : ~resv[r].late}'
  BY <1>3
<1>5. \A i : (Promised(InCycle(Reservation, c), i) + Spent(InCycle(Reservation, c), i))'
                  = UsedOf(resv', c, i)
  BY DEF UsedOf, InCycle, OfCycle, Promised, Spent, ChargedTo, HeldBy, PromisedOf, HeldOf,
         ChargedOf, HeldIn
<1>6. (Promised({r \in InCycle(Reservation, c) : ~resv[r].late}, Pool)
         + Spent({r \in InCycle(Reservation, c) : ~resv[r].late}, Pool))'
      = PromisedOf(resv', S, Pool) + ChargedOf(resv', S, Pool)
  BY <1>4 DEF Promised, Spent, ChargedTo, HeldBy, PromisedOf, HeldOf, ChargedOf, HeldIn
<1> QED BY <1>2, <1>5, <1>6

LEMMA AllowanceKept ==
    ASSUME AllowInv
    PROVE  CyclesKept(resv, account) /\ TimelyKept(resv, account) /\ GraceKept(resv, account)
<1>1. RowsInv /\ AllowanceCovered /\ GraceCounted
  BY DEF AllowInv
<1>2. CyclesKept(resv, account)
  BY <1>1, CycleKept, Sources DEF AllowanceCovered, CyclesKept, Shared, LimitOf, GrantedSince
<1>3. TimelyKept(resv, account)
  BY <1>1, CycleKept DEF AllowanceCovered, TimelyKept
<1>4. GraceKept(resv, account)
  BY <1>1 DEF GraceCounted, GraceKept, SpentAt, InCycle, OfCycle, Spent, ChargedTo, ChargedOf
<1> QED BY <1>2, <1>3, <1>4

LEMMA AllowanceNow ==
    ASSUME RowsInv, CyclesKept(resv, account), TimelyKept(resv, account), GraceKept(resv, account)
    PROVE  AllowanceCovered /\ GraceCounted
<1>1. AllowanceCovered
  <2> SUFFICES ASSUME NEW c \in 1..account.cycle
               PROVE  LET ours       == InCycle(Reservation, c)
                          timely     == {r \in ours : ~resv[r].late}
                          Used(S, i) == Promised(S, i) + Spent(S, i)
                      IN  /\ Used(timely, Pool) <= PoolGrant
                          /\ Used(ours, Pool) <= PoolGrant * Cardinality({g \in account.granted : g >= c})
                          /\ Used(ours, Overage) <= account.limit
                          /\ Used(ours, Grace) <= GraceCap
    BY DEF AllowanceCovered
  <2>1. /\ UsedOf(Timely(resv), c, Pool) <= PoolGrant
        /\ UsedOf(resv, c, Pool) <= PoolGrant * Cardinality({g \in account.granted : g >= c})
        /\ UsedOf(resv, c, Overage) <= account.limit /\ UsedOf(resv, c, Grace) <= GraceCap
    BY Sources DEF CyclesKept, TimelyKept, Shared, LimitOf, GrantedSince
  <2> QED BY <2>1, CycleKept
<1>2. GraceCounted
  BY DEF GraceCounted, GraceKept, SpentAt, InCycle, OfCycle, Spent, ChargedTo, ChargedOf
<1> QED BY <1>1, <1>2

LEMMA AllowanceNext ==
    ASSUME RowsInv', CyclesKept(resv', account'), TimelyKept(resv', account'),
           GraceKept(resv', account')
    PROVE  AllowanceCovered' /\ GraceCounted'
<1>1. AllowanceCovered'
  <2> SUFFICES ASSUME NEW c \in 1..account'.cycle
               PROVE  LET ours       == InCycle(Reservation, c)
                          timely     == {r \in ours : ~resv[r].late}
                          Used(S, i) == Promised(S, i) + Spent(S, i)
                      IN  /\ Used(timely, Pool)' <= PoolGrant
                          /\ Used(ours, Pool)'
                                <= PoolGrant * Cardinality({g \in account'.granted : g >= c})
                          /\ Used(ours, Overage)' <= account'.limit
                          /\ Used(ours, Grace)' <= GraceCap
    BY DEF AllowanceCovered
  <2>1. /\ UsedOf(Timely(resv'), c, Pool) <= PoolGrant
        /\ UsedOf(resv', c, Pool) <= PoolGrant * Cardinality({g \in account'.granted : g >= c})
        /\ UsedOf(resv', c, Overage) <= account'.limit /\ UsedOf(resv', c, Grace) <= GraceCap
    BY Sources DEF CyclesKept, TimelyKept, Shared, LimitOf, GrantedSince
  <2> QED BY <2>1, CycleKeptNext
<1>2. GraceCounted'
  BY DEF GraceCounted, GraceKept, SpentAt, InCycle, OfCycle, Spent, ChargedTo, ChargedOf
<1> QED BY <1>1, <1>2

\* More cycles that were granted are at least as many minutes.
LEMMA GrantedGrows ==
    ASSUME NEW acc \in AccountType, NEW bcc \in AccountType, acc.granted \subseteq bcc.granted,
           NEW c \in Int
    PROVE  GrantedSince(acc, c) \in Nat /\ GrantedSince(acc, c) <= GrantedSince(bcc, c)
<1> DEFINE S == {g \in acc.granted : g >= c}
           T == {g \in bcc.granted : g >= c}
           n == Cardinality(S)
           m == Cardinality(T)
<1>1. MaxCycle \in Nat /\ PoolGrant \in Nat /\ bcc.granted \in SUBSET (1..MaxCycle)
  BY FundingAssumption DEF AccountType, FundingAssumption
<1>2. IsFiniteSet(1..MaxCycle) /\ T \in SUBSET (1..MaxCycle) /\ S \in SUBSET T
  BY <1>1, FS_Interval
<1> HIDE DEF S, T
<1>3. IsFiniteSet(T) /\ IsFiniteSet(S) /\ n <= m /\ n \in Nat /\ m \in Nat
  BY <1>2, FS_Subset, FS_CardinalityType
<1> HIDE DEF n, m
<1>4. \A a, b, k \in Nat : a <= b => k * a \in Nat /\ k * a <= k * b
  <2> TAKE a, b, k \in Nat
  <2> HAVE a <= b
  <2>1. k * b = k * a + k * (b - a) /\ k * (b - a) \in Nat /\ k * a \in Nat
    OBVIOUS
  <2> QED BY <2>1
<1> QED BY <1>1, <1>3, <1>4 DEF GrantedSince, n, m, S, T

LEMMA SharedFacts ==
    ASSUME account \in AccountType, NEW i \in Shared, NEW c \in Int
    PROVE  i \in Source /\ LimitOf(account, c, i) \in Nat /\ account.graceUsed \in Nat
<1>1. account.limit \in Nat /\ PoolGrant \in Nat /\ GraceCap \in Nat /\ account.graceUsed \in Nat
  <2>1. account.limit \in SpendLimits /\ account.graceUsed \in 0..GraceCap
    BY DEF AccountType
  <2>2. SpendLimits \subseteq Nat /\ PoolGrant \in Nat /\ GraceCap \in Nat
    BY FundingAssumption DEF FundingAssumption
  <2>3. account.limit \in Nat
    BY <2>1, <2>2
  <2>4. account.graceUsed \in Nat
    BY <2>1, <2>2
  <2> QED BY <2>2, <2>3, <2>4
<1>2. GrantedSince(account, c) \in Nat
  BY GrantedGrows
<1> QED BY <1>1, <1>2, Sources DEF Shared, LimitOf

\* A step that writes one row: what becomes of a cycle that the row gains nothing of.
LEMMA CycleLess ==
    ASSUME AllowInv, RowsInv', NEW r \in Reservation, KeepsOthers(r),
           NEW c \in 1..account.cycle, NEW i \in Shared, Own(resv'[r], c, i) <= Own(resv[r], c, i)
    PROVE  UsedOf(resv', c, i) <= LimitOf(account, c, i)
<1>1. resv \in Rows /\ resv' \in Rows /\ account \in AccountType /\ c \in Int
  BY RowsTyped, RowsTypedNext, FundingAssumption
     DEF AllowInv, RowsInv, TypeOK, AccountType, FundingAssumption
<1>2. i \in Source /\ LimitOf(account, c, i) \in Nat
  BY <1>1, SharedFacts
<1>3. /\ UsedOf(resv', c, i) = UsedOf(resv, c, i) - Own(resv[r], c, i) + Own(resv'[r], c, i)
      /\ UsedOf(resv, c, i) \in Nat /\ UsedOf(resv', c, i) \in Nat
      /\ Own(resv[r], c, i) \in Nat /\ Own(resv'[r], c, i) \in Nat
  BY <1>1, <1>2, UsedChange DEF KeepsOthers
<1>4. UsedOf(resv, c, i) <= LimitOf(account, c, i)
  BY AllowanceKept DEF CyclesKept
<1> QED BY <1>2, <1>3, <1>4

\* The same of the timely rows and the pool.
LEMMA TimelyLess ==
    ASSUME AllowInv, RowsInv', NEW r \in Reservation, KeepsOthers(r),
           NEW c \in 1..account.cycle,
           \/ resv'[r].late \/ Own(resv'[r], c, Pool) = 0
           \/ resv'[r].late = resv[r].late /\ Own(resv'[r], c, Pool) <= Own(resv[r], c, Pool)
    PROVE  UsedOf(Timely(resv'), c, Pool) <= PoolGrant
<1>1. resv \in Rows /\ resv' \in Rows /\ account \in AccountType /\ c \in Int /\ c >= 1
      /\ PoolGrant \in Nat /\ Pool \in Source
  <2>1. resv \in Rows /\ resv' \in Rows /\ account \in AccountType
    BY RowsTyped, RowsTypedNext DEF AllowInv, RowsInv, TypeOK, AccountType
  <2>2. account.cycle \in Int
    BY <2>1, FundingAssumption DEF AccountType, FundingAssumption
  <2>3. c \in Int /\ c >= 1
    BY <2>2
  <2>4. PoolGrant \in Nat
    BY FundingAssumption DEF FundingAssumption
  <2>5. Pool \in Source
    BY Sources
  <2> QED BY <2>1, <2>3, <2>4, <2>5
<1>2. /\ Timely(resv) \in Rows /\ Timely(resv') \in Rows
      /\ \A q \in Reservation \ {r} : Timely(resv')[q] = Timely(resv)[q]
  BY <1>1, TimelyRows DEF KeepsOthers, Timely
<1> DEFINE o0 == Own(Timely(resv)[r], c, Pool)
           o1 == Own(Timely(resv')[r], c, Pool)
<1>3. /\ UsedOf(Timely(resv'), c, Pool) = UsedOf(Timely(resv), c, Pool) - o0 + o1
      /\ UsedOf(Timely(resv), c, Pool) \in Nat /\ o0 \in Nat /\ o1 \in Nat
  BY <1>1, <1>2, UsedChange
<1>4. /\ o0 = IF resv[r].late THEN 0 ELSE Own(resv[r], c, Pool)
      /\ o1 = IF resv'[r].late THEN 0 ELSE Own(resv'[r], c, Pool)
  BY <1>1, OwnOnTime
<1> HIDE DEF o0, o1
<1>5. o1 <= o0
  BY <1>3, <1>4
<1>6. UsedOf(Timely(resv), c, Pool) <= PoolGrant
  BY AllowanceKept DEF TimelyKept
<1> QED BY <1>1, <1>3, <1>5, <1>6

\* A step that writes one row and raises its part of no cycle.
LEMMA AllowanceLess ==
    ASSUME AllowInv, RowsInv', NEW r \in Reservation, KeepsOthers(r),
           account'.cycle = account.cycle, account'.limit = account.limit,
           account'.granted = account.granted,
           \A c \in 1..account.cycle : \A i \in Shared : Own(resv'[r], c, i) <= Own(resv[r], c, i),
           \/ resv'[r].late = resv[r].late
           \/ \A c \in 1..account.cycle : Own(resv'[r], c, Pool) = 0
    PROVE  CyclesKept(resv', account') /\ TimelyKept(resv', account')
<1>1. \A c, i : LimitOf(account', c, i) = LimitOf(account, c, i)
  BY DEF LimitOf, GrantedSince
<1>2. \A c \in 1..account.cycle : \A i \in Shared : UsedOf(resv', c, i) <= LimitOf(account, c, i)
  BY CycleLess
<1>3. \A c \in 1..account.cycle : UsedOf(Timely(resv'), c, Pool) <= PoolGrant
  <2> SUFFICES ASSUME NEW c \in 1..account.cycle PROVE UsedOf(Timely(resv'), c, Pool) <= PoolGrant
    OBVIOUS
  <2>1. Pool \in Shared
    BY DEF Shared
  <2> QED BY <2>1, TimelyLess
<1> QED BY <1>1, <1>2, <1>3 DEF CyclesKept, TimelyKept

LEMMA AllowanceGive ==
    ASSUME AllowInv, RowsInv', NEW r \in Reservation, GivesBack(r)
    PROVE  /\ AllowanceCovered' /\ GraceCounted'
           /\ \A c \in Int : c >= 1 => SpentAt(resv', c) = SpentAt(resv, c)
<1>1. resv \in Rows /\ resv' \in Rows /\ account \in AccountType /\ account.cycle \in Nat \ {0}
  BY RowsTyped, RowsTypedNext, FundingAssumption
     DEF AllowInv, RowsInv, TypeOK, AccountType, FundingAssumption
<1>2. /\ KeepsOthers(r) /\ account' = account /\ resv'[r].charge = resv[r].charge
      /\ \/ resv'[r].cycle = resv[r].cycle /\ resv'[r].late = resv[r].late
         \/ resv'[r].cycle = NoCycle /\ Uncharged(resv[r])
      /\ \A i \in Source : Keeps(resv'[r], i) <= Keeps(resv[r], i)
  BY DEF GivesBack
<1>3. ASSUME NEW c \in 1..account.cycle, NEW i \in Shared
      PROVE  /\ Own(resv'[r], c, i) <= Own(resv[r], c, i)
             /\ resv'[r].cycle = NoCycle => Own(resv'[r], c, i) = 0
  <2>1. i \in Source /\ c \in Int /\ c >= 1
    BY <1>1, SharedFacts
  <2>2. /\ resv[r].charge[i] \in Nat /\ Keeps(resv[r], i) \in Nat /\ Keeps(resv'[r], i) \in Nat
    BY <1>1, <2>1 DEF Rows, Minutes, Keeps
  <2>3. resv'[r].cycle = NoCycle => Own(resv'[r], c, i) = 0
    BY <2>1 DEF Own, NoCycle
  <2>4. CASE resv'[r].cycle = resv[r].cycle
    BY <1>2, <2>1, <2>2, <2>3, <2>4 DEF Own
  <2>5. CASE resv'[r].cycle = NoCycle
    BY <2>2, <2>3, <2>5 DEF Own
  <2> QED BY <1>2, <2>3, <2>4, <2>5
<1>4. CyclesKept(resv', account') /\ TimelyKept(resv', account')
  <2>1. Pool \in Shared
    BY DEF Shared
  <2>2. \/ resv'[r].late = resv[r].late
        \/ \A c \in 1..account.cycle : Own(resv'[r], c, Pool) = 0
    BY <1>2, <1>3, <2>1
  <2> QED BY <1>2, <1>3, <2>2, AllowanceLess
<1>5. ASSUME NEW c \in Int, c >= 1 PROVE SpentAt(resv', c) = SpentAt(resv, c)
  <2> DEFINE mine(row) == IF row.cycle = c THEN row.charge[Grace] ELSE 0
             rest(rv) == ChargedOf(rv, OfCycle(rv, c) \ {r}, Grace)
  <2>1. Grace \in Source
    BY Sources
  <2>2. /\ SpentAt(resv, c) = mine(resv[r]) + rest(resv)
        /\ SpentAt(resv', c) = mine(resv'[r]) + rest(resv')
    BY <1>1, <2>1, UsedSplit DEF SpentAt
  <2>3. rest(resv') = rest(resv)
    BY <1>1, <1>2, <2>1, OthersKept DEF KeepsOthers
  <2>4. mine(resv'[r]) = mine(resv[r])
    <3>1. CASE resv'[r].cycle = resv[r].cycle
      BY <1>2, <3>1
    <3>2. CASE resv'[r].cycle = NoCycle /\ Uncharged(resv[r])
      BY <1>5, <2>1, <3>2 DEF NoCycle, Uncharged
    <3> QED BY <1>2, <3>1, <3>2
  <2> HIDE DEF mine, rest
  <2> QED BY <2>2, <2>3, <2>4
<1>6. GraceKept(resv', account')
  <2>1. SpentAt(resv', account.cycle) = SpentAt(resv, account.cycle)
    BY <1>1, <1>5
  <2> QED BY <1>2, <2>1, AllowanceKept DEF GraceKept
<1> QED BY <1>4, <1>5, <1>6, AllowanceNext

\* What the current cycle has charged to grace, when one row is written.
GraceOf(row, c) == IF row.cycle = c THEN row.charge[Grace] ELSE 0

LEMMA GraceChange ==
    ASSUME NEW rv \in Rows, NEW rw \in Rows, NEW r \in Reservation, NEW c \in Int,
           \A q \in Reservation \ {r} : rw[q] = rv[q]
    PROVE  /\ ChargedOf(rw, OfCycle(rw, c), Grace)
                 = ChargedOf(rv, OfCycle(rv, c), Grace) - GraceOf(rv[r], c) + GraceOf(rw[r], c)
           /\ ChargedOf(rv, OfCycle(rv, c), Grace) \in Nat
           /\ GraceOf(rv[r], c) \in Nat /\ GraceOf(rw[r], c) \in Nat
<1>0. Grace \in Source
  BY Sources
<1>1. /\ ChargedOf(rv, OfCycle(rv, c), Grace)
            = GraceOf(rv[r], c) + ChargedOf(rv, OfCycle(rv, c) \ {r}, Grace)
      /\ ChargedOf(rv, OfCycle(rv, c) \ {r}, Grace) \in Nat
  BY <1>0, UsedSplit DEF GraceOf
<1>2. /\ ChargedOf(rw, OfCycle(rw, c), Grace)
            = GraceOf(rw[r], c) + ChargedOf(rw, OfCycle(rw, c) \ {r}, Grace)
  BY <1>0, UsedSplit DEF GraceOf
<1>3. ChargedOf(rw, OfCycle(rw, c) \ {r}, Grace) = ChargedOf(rv, OfCycle(rv, c) \ {r}, Grace)
  BY <1>0, OthersKept
<1>4. GraceOf(rv[r], c) \in Nat /\ GraceOf(rw[r], c) \in Nat
  BY <1>0 DEF GraceOf, Rows, Minutes
<1> QED BY <1>1, <1>2, <1>3, <1>4

LEMMA AllowanceSettle ==
    ASSUME AllowInv, RowsInv', NEW r \in Reservation,
           NEW observed \in 1..(MinutesNeeded[r] + 1), Settle(r, observed)
    PROVE  AllowanceCovered' /\ GraceCounted'
<1>0. RowsInv /\ resv[r].state = "RUNNING" /\ CyclesPast
  BY DEF AllowInv, RowsInv, Settle
<1>1. PICK charge \in Minutes :
        /\ \A i \in Source : charge[i] <= resv[r].held[i]
        /\ resv' = [resv EXCEPT ![r] = [resv[r] EXCEPT !.state = "SETTLED", !.charge = charge]]
        /\ account' = IF CountsGrace(r, charge)
                      THEN [account EXCEPT !.graceUsed = @ + charge[Grace],
                                           !.graceCycle = resv[r].cycle]
                      ELSE account
  BY <1>0, SettleFacts
<1>2. resv \in Rows /\ resv' \in Rows /\ account \in AccountType
  BY RowsTyped, RowsTypedNext DEF AllowInv, RowsInv, TypeOK, AccountType
<1>3. /\ resv'[r].held = resv[r].held /\ resv'[r].charge = charge /\ resv'[r].state = "SETTLED"
      /\ resv'[r].cycle = resv[r].cycle /\ resv'[r].late = resv[r].late
      /\ \A q \in Reservation \ {r} : resv'[q] = resv[q]
  BY <1>1, <1>2 DEF Rows
<1>4. Uncharged(resv[r])
  BY <1>0 DEF RowsInv, ChargedIsSettled
<1>5. account'.cycle = account.cycle /\ account'.limit = account.limit
      /\ account'.granted = account.granted
  BY <1>1, <1>2 DEF AccountType
<1>6. ASSUME NEW c \in 1..account.cycle, NEW i \in Shared
      PROVE  Own(resv'[r], c, i) <= Own(resv[r], c, i)
  <2>1. i \in Source
    BY Sources DEF Shared
  <2>2. /\ Keeps(resv'[r], i) = 0 /\ Keeps(resv[r], i) = resv[r].held[i]
        /\ resv[r].charge[i] = 0 /\ resv[r].held[i] \in Nat /\ charge[i] \in Nat
        /\ charge[i] <= resv[r].held[i]
    BY <1>0, <1>1, <1>2, <1>3, <1>4, <2>1 DEF Keeps, HELD, Uncharged, Rows, Minutes
  <2> QED BY <1>3, <2>2 DEF Own
<1>7. CyclesKept(resv', account') /\ TimelyKept(resv', account')
  BY <1>3, <1>5, <1>6, AllowanceLess DEF KeepsOthers
<1>8. GraceKept(resv', account')
  <2> DEFINE c == account.cycle
             s0 == ChargedOf(resv, OfCycle(resv, c), Grace)
             s1 == ChargedOf(resv', OfCycle(resv', c), Grace)
  <2>0. /\ c \in Nat /\ account.graceUsed \in Nat /\ account.graceCycle \in Nat
        /\ resv[r].cycle \in Nat /\ resv[r].cycle <= c /\ charge[Grace] \in Nat
        /\ account.graceCycle <= c
    <3>1. account.cycle \in 1..MaxCycle /\ account.graceUsed \in 0..GraceCap
          /\ account.graceCycle \in 0..MaxCycle
      BY <1>2 DEF AccountType, NoCycle
    <3>2. resv[r].cycle \in 0..MaxCycle
      BY <1>0, RowFacts DEF RowType, NoCycle
    <3>3. MaxCycle \in Nat /\ GraceCap \in Nat /\ charge[Grace] \in Nat
      BY FundingAssumption, Sources DEF FundingAssumption, Minutes
    <3>4. resv[r].cycle <= c /\ account.graceCycle <= c
      BY <1>0 DEF CyclesPast
    <3> QED BY <3>1, <3>2, <3>3, <3>4
  <2>1. s1 = s0 - GraceOf(resv[r], c) + GraceOf(resv'[r], c) /\ s0 \in Nat
    BY <1>2, <1>3, <2>0, GraceChange
  <2>2. s0 <= account.graceUsed
    BY AllowanceKept DEF GraceKept, SpentAt
  <2>3. GraceOf(resv[r], c) = 0
    BY <1>4, Sources DEF GraceOf, Uncharged
  <2>4. GraceOf(resv'[r], c) = IF resv[r].cycle = c THEN charge[Grace] ELSE 0
    BY <1>3 DEF GraceOf
  <2>5. CASE CountsGrace(r, charge)
    <3>1. account' = [account EXCEPT !.graceUsed = account.graceUsed + charge[Grace],
                                     !.graceCycle = resv[r].cycle]
      BY <1>1, <2>5
    <3>2. account'.graceUsed = account.graceUsed + charge[Grace]
      BY <1>2, <3>1 DEF AccountType
    <3> HIDE DEF s0, s1
    <3>3. s1 <= account.graceUsed + charge[Grace]
      BY <2>0, <2>1, <2>2, <2>3, <2>4
    <3> QED BY <1>5, <3>2, <3>3 DEF GraceKept, SpentAt, s1
  <2>6. CASE ~CountsGrace(r, charge)
    <3>1. charge[Grace] = 0 \/ resv[r].cycle # c
      BY <2>0, <2>6 DEF CountsGrace, NoCycle
    <3>2. GraceOf(resv'[r], c) = 0
      BY <2>4, <3>1
    <3>3. account' = account
      BY <1>1, <2>6
    <3> HIDE DEF s0, s1
    <3>4. s1 <= account.graceUsed
      BY <2>1, <2>2, <2>3, <3>2
    <3> QED BY <3>3, <3>4 DEF GraceKept, SpentAt, s1
  <2> QED BY <2>5, <2>6
<1> QED BY <1>7, <1>8, AllowanceNext

\* What the reservation under way covers of the grace its cycle has charged.
LEMMA ReadingSpent ==
    /\ ReadingKept <=> (~Unlocked => SpentAt(resv, CycleRead) <= reading.used)
    /\ ReadingKept' <=> (~Unlocked' => SpentAt(resv', CycleRead') <= reading'.used)
BY DEF ReadingKept, SpentAt, InCycle, OfCycle, Spent, ChargedTo, ChargedOf

\* A reservation takes of its cycle what nobody has of it.
LEMMA FundedWithin ==
    ASSUME AllowInv, RowsInv', ~Unlocked, NEW r \in Reservation, r = reading.by,
           Uncharged(resv[r]), KeepsOthers(r), FundedRow(r, resv'[r]), NEW i \in Shared,
           NEW c \in 1..account.cycle, c = CycleRead
    PROVE  UsedOf(resv', c, i) <= LimitOf(account, c, i)
<1> DEFINE free  == Available(r, c, reading.used)
           same  == InCycle(Holders \ {r}, c)
           grant == PoolGrant * Cardinality({g \in account.granted : g >= c})
           others == OfCycle(resv, c) \ {r}
           row   == resv'[r]
<1>0. /\ RowsInv /\ TypeOK /\ CycleRead = c
      /\ SpentAt(resv, c) <= reading.used /\ reading.used \in Nat
  <2>1. RowsInv /\ TypeOK /\ ReadingKept
    BY DEF AllowInv, RowsInv
  <2>2. reading.used \in 0..GraceCap /\ GraceCap \in Nat
    BY <2>1, CycleReadFacts, FundingAssumption DEF ReadingType, FundingAssumption
  <2>3. SpentAt(resv, c) <= reading.used
    BY <2>1, ReadingSpent
  <2> QED BY <2>1, <2>2, <2>3
<1>1. /\ resv \in Rows /\ resv' \in Rows /\ account \in AccountType
      /\ \A q \in Reservation \ {r} : resv'[q] = resv[q]
  BY RowsTyped, RowsTypedNext DEF AllowInv, RowsInv, TypeOK, AccountType, KeepsOthers
<1>2. i \in Source /\ LimitOf(account, c, i) \in Nat /\ c \in Int
  <2>1. c \in Int
    BY <1>1, FundingAssumption DEF AccountType, FundingAssumption
  <2> QED BY <1>1, <2>1, SharedFacts
<1>3. /\ row.held \in Minutes /\ \A k \in Source : row.held[k] <= free[k]
      /\ row.cycle = c /\ row.state \in HELD /\ row.charge = resv[r].charge
  BY <1>0 DEF FundedRow, HELD
<1>4. /\ free \in Minutes
      /\ free[Pool] = 0 \/ free[Pool] <= grant - ChargedSince(c, Pool) - HeldBy(same, Pool)
      /\ \/ free[Overage] = 0
         \/ free[Overage] <= account.limit - ChargedSince(c, Overage) - HeldBy(same, Overage)
      /\ free[Grace] = 0 \/ free[Grace] <= GraceCap - reading.used - HeldBy(same, Grace)
  <2>1. TypeOK /\ c \in Int /\ reading.used \in Int
    BY <1>0, <1>2
  <2> QED BY <2>1, FreeMinutes
<1>5. grant \in Nat /\ grant = GrantedSince(account, c) /\ account.limit \in Nat
      /\ GraceCap \in Nat
  <2>1. account.limit \in SpendLimits /\ SpendLimits \subseteq Nat /\ PoolGrant \in Nat
        /\ GraceCap \in Nat
    BY <1>1, FundingAssumption DEF AccountType, FundingAssumption
  <2>2. grant \in Nat /\ grant = GrantedSince(account, c)
    BY <1>0, <1>2, GrantedMinutes DEF GrantedSince
  <2> HIDE DEF grant
  <2> QED BY <2>1, <2>2
<1>6. /\ PromisedOf(resv, others, i) <= HeldBy(same, i) /\ HeldBy(same, i) \in Nat
  BY <1>0, <1>2, OthersHold
<1>7. /\ ChargedOf(resv, others, i) <= ChargedSince(c, i) /\ ChargedSince(c, i) \in Nat
      /\ ChargedOf(resv, others, i) \in Nat
  <2> DEFINE later == {q \in Reservation : resv[q].cycle >= c}
  <2>1. \A q \in Reservation : resv[q].cycle \in Int
    BY <1>1 DEF Rows
  <2>2. later \in SUBSET Reservation /\ others \in SUBSET later /\ others \in SUBSET Reservation
    BY <1>2, <2>1 DEF OfCycle
  <2>3. ChargedSince(c, i) = ChargedOf(resv, later, i)
    BY <2>2, Bridges DEF ChargedSince
  <2> HIDE DEF later, others
  <2> QED BY <1>1, <1>2, <2>2, <2>3, FewerRows, RowSums
<1>8. /\ UsedOf(resv', c, i) = UsedOf(resv, c, i) - Own(resv[r], c, i) + Own(row, c, i)
      /\ UsedOf(resv, c, i) = Own(resv[r], c, i) + OthersUse(resv, r, c, i)
      /\ UsedOf(resv, c, i) \in Nat /\ Own(resv[r], c, i) \in Nat /\ Own(row, c, i) \in Nat
      /\ OthersUse(resv, r, c, i) \in Nat
  <2>1. /\ UsedOf(resv', c, i) = UsedOf(resv, c, i) - Own(resv[r], c, i) + Own(row, c, i)
        /\ UsedOf(resv, c, i) \in Nat /\ Own(resv[r], c, i) \in Nat /\ Own(row, c, i) \in Nat
    <3>1. /\ UsedOf(resv', c, i)
               = UsedOf(resv, c, i) - Own(resv[r], c, i) + Own(resv'[r], c, i)
          /\ UsedOf(resv, c, i) \in Nat
          /\ Own(resv[r], c, i) \in Nat /\ Own(resv'[r], c, i) \in Nat
      <4>1. /\ resv \in Rows /\ resv' \in Rows /\ i \in Source /\ c \in Int
            /\ \A q \in Reservation \ {r} : resv'[q] = resv[q]
        BY <1>1, <1>2
      <4> HIDE DEF free, same, grant, others, row
      <4> QED BY ONLY <4>1, r \in Reservation, UsedChange
    <3> QED BY <3>1
  <2>2. /\ UsedOf(resv, c, i) = Own(resv[r], c, i) + OthersUse(resv, r, c, i)
        /\ OthersUse(resv, r, c, i) \in Nat
    BY <1>1, <1>2, UsedSplit
  <2> QED BY <2>1, <2>2
<1>9. OthersUse(resv, r, c, i) = PromisedOf(resv, others, i) + ChargedOf(resv, others, i)
  BY DEF OthersUse
<1>10. Own(row, c, i) = row.held[i] /\ row.held[i] \in Nat /\ free[i] \in Nat /\ row.held[i] <= free[i]
  BY <1>2, <1>3, <1>4 DEF Own, Keeps, Uncharged, Minutes
<1>11. PromisedOf(resv, others, i) \in Nat
  <2>1. HeldIn(resv, others) \in SUBSET Reservation
    BY DEF HeldIn, OfCycle
  <2> HIDE DEF others
  <2> QED BY <1>1, <1>2, <2>1, RowSums DEF PromisedOf
<1>12. UsedOf(resv, c, i) <= LimitOf(account, c, i)
  BY AllowanceKept DEF CyclesKept
<1> DEFINE p == PromisedOf(resv, others, i)
           s == ChargedOf(resv, others, i)
<1>13. UsedOf(resv', c, i) = p + s + row.held[i] /\ p + s <= LimitOf(account, c, i)
  <2> HIDE DEF row, others
  <2> QED BY <1>2, <1>7, <1>8, <1>9, <1>10, <1>11, <1>12
<1>14. i = Grace => s <= reading.used
  <2>1. s = ChargedOf(resv, OfCycle(resv, c), i) \/ r \in OfCycle(resv, c)
    <3>1. r \notin OfCycle(resv, c) => others = OfCycle(resv, c)
      OBVIOUS
    <3> QED BY <3>1
  <2>2. ChargedOf(resv, OfCycle(resv, c), Grace) <= reading.used
    BY <1>0 DEF SpentAt
  <2>3. OfCycle(resv, c) \in SUBSET Reservation /\ others \in SUBSET OfCycle(resv, c)
    BY DEF OfCycle
  <2>4. s <= ChargedOf(resv, OfCycle(resv, c), i) /\ ChargedOf(resv, OfCycle(resv, c), i) \in Nat
    BY <1>1, <1>2, <2>3, FewerRows, RowSums
  <2> HIDE DEF s
  <2> QED BY <1>0, <1>7, <2>2, <2>4 DEF s
<1> HIDE DEF p, s, row, free, same, grant
<1>15. CASE free[i] = 0
  BY <1>10, <1>13, <1>15, <1>2, <1>7, <1>11 DEF p, s
<1>16. CASE free[i] # 0
  <2>1. p \in Nat /\ s \in Nat /\ row.held[i] \in Nat /\ free[i] \in Nat /\ row.held[i] <= free[i]
        /\ p <= HeldBy(same, i) /\ s <= ChargedSince(c, i) /\ HeldBy(same, i) \in Nat
        /\ ChargedSince(c, i) \in Nat
    BY <1>6, <1>7, <1>10, <1>11 DEF p, s, same
  <2>2. CASE i = Pool
    BY <1>4, <1>5, <1>13, <1>16, <2>1, <2>2 DEF LimitOf
  <2>3. CASE i = Overage
    <3>1. LimitOf(account, c, i) = account.limit
      BY <2>3, Sources DEF LimitOf
    <3>2. free[i] <= account.limit - ChargedSince(c, i) - HeldBy(same, i)
      BY <1>4, <1>16, <2>3
    <3> QED BY <1>5, <1>13, <2>1, <3>1, <3>2
  <2>4. CASE i = Grace
    <3>1. LimitOf(account, c, i) = GraceCap
      BY <2>4, Sources DEF LimitOf
    <3>2. free[i] <= GraceCap - reading.used - HeldBy(same, i)
      BY <1>4, <1>16, <2>4
    <3>3. s <= reading.used
      BY <1>14, <2>4
    <3> QED BY <1>0, <1>5, <1>13, <2>1, <3>1, <3>2, <3>3
  <2> QED BY <2>2, <2>3, <2>4 DEF Shared
<1> QED BY <1>15, <1>16

LEMMA AllowanceFund ==
    ASSUME AllowInv, RowsInv', Fund
    PROVE  AllowanceCovered' /\ GraceCounted'
<1>0. /\ RowsInv /\ TypeOK /\ CyclesPast /\ ~Unlocked /\ CycleRead \in 1..account.cycle
      /\ account.cycle \in Nat
  <2>1. RowsInv /\ TypeOK /\ CyclesPast /\ ~Unlocked
    BY DEF AllowInv, RowsInv, Fund
  <2>2. CycleRead \in 1..MaxCycle /\ CycleRead <= account.cycle /\ account.cycle \in 1..MaxCycle
    BY <2>1, CycleReadFacts DEF TypeOK
  <2> QED BY <2>1, <2>2, FundingAssumption DEF FundingAssumption
<1>1. ASSUME NEW r \in Reservation, r = reading.by, Uncharged(resv[r]), KeepsOthers(r),
             account' = account, FundedRow(r, resv'[r])
      PROVE  AllowanceCovered' /\ GraceCounted'
  <2>1. /\ resv \in Rows /\ resv' \in Rows /\ account \in AccountType
        /\ \A q \in Reservation \ {r} : resv'[q] = resv[q]
    BY <1>1, RowsTyped, RowsTypedNext DEF AllowInv, RowsInv, TypeOK, AccountType, KeepsOthers
  <2>2. /\ resv'[r].cycle = CycleRead /\ resv'[r].charge = resv[r].charge
        /\ resv'[r].late = (CycleRead # account.cycle)
    BY <1>1 DEF FundedRow
  <2>3. ASSUME NEW c \in 1..account.cycle, NEW i \in Shared
        PROVE  UsedOf(resv', c, i) <= LimitOf(account, c, i)
    <3>1. CASE c = CycleRead
      BY <1>0, <1>1, <3>1, FundedWithin
    <3>2. CASE c # CycleRead
      <4>1. Own(resv'[r], c, i) = 0
        BY <2>2, <3>2 DEF Own
      <4>2. i \in Source /\ c \in Int
        BY Sources DEF Shared
      <4>3. Own(resv[r], c, i) \in Nat
        BY <2>1, <4>2, UsedSplit
      <4> QED BY <1>1, <4>1, <4>3, CycleLess
    <3> QED BY <3>1, <3>2
  <2>4. CyclesKept(resv', account')
    BY <1>1, <2>3 DEF CyclesKept
  <2>5. ASSUME NEW c \in 1..account.cycle PROVE UsedOf(Timely(resv'), c, Pool) <= PoolGrant
    <3>1. CASE CycleRead # account.cycle
      BY <1>1, <2>2, <3>1, TimelyLess
    <3>2. CASE CycleRead = account.cycle /\ c # account.cycle
      <4>1. Own(resv'[r], c, Pool) = 0
        BY <2>2, <3>2 DEF Own
      <4> QED BY <1>1, <4>1, TimelyLess
    <3>3. CASE c = account.cycle
      <4>1. c \in Int /\ c >= 1 /\ Pool \in Source /\ Pool \in Shared /\ PoolGrant \in Nat
        BY Sources, FundingAssumption DEF Shared, FundingAssumption
      <4>2. UsedOf(Timely(resv'), c, Pool) <= UsedOf(resv', c, Pool)
            /\ UsedOf(Timely(resv'), c, Pool) \in Nat /\ UsedOf(resv', c, Pool) \in Nat
        BY <2>1, <4>1, TimelyRows
      <4>3. UsedOf(resv', c, Pool) <= GrantedSince(account, c)
        BY <2>3, <4>1 DEF LimitOf
      <4>4. GrantedSince(account, c) <= PoolGrant /\ GrantedSince(account, c) \in Nat
        BY <1>0, <3>3, <4>1, GrantedMinutes DEF GrantedSince
      <4> QED BY <4>1, <4>2, <4>3, <4>4
    <3> QED BY <3>1, <3>2, <3>3
  <2>6. TimelyKept(resv', account')
    BY <1>1, <2>5 DEF TimelyKept
  <2>7. GraceKept(resv', account')
    <3>1. GraceOf(resv[r], account.cycle) = 0 /\ GraceOf(resv'[r], account.cycle) = 0
      BY <1>1, <2>2, Sources DEF GraceOf, Uncharged
    <3>2. /\ SpentAt(resv', account.cycle)
                = SpentAt(resv, account.cycle)
                    - GraceOf(resv[r], account.cycle) + GraceOf(resv'[r], account.cycle)
          /\ SpentAt(resv, account.cycle) \in Nat
      BY <1>0, <2>1, GraceChange DEF SpentAt
    <3>3. SpentAt(resv', account.cycle) = SpentAt(resv, account.cycle)
      BY <3>1, <3>2
    <3> QED BY <1>1, <3>3, AllowanceKept DEF GraceKept
  <2> QED BY <2>4, <2>6, <2>7, AllowanceNext
<1>2. CASE GivesBack(reading.by)
  BY <1>0, <1>2, AllowanceGive, FundSteps
<1> QED BY <1>0, <1>1, <1>2, FundSteps

\* Of a cycle that has not begun, nothing is promised and nothing spent.
LEMMA NewCycle ==
    ASSUME RowsInv, NEW c \in Int, c = account.cycle + 1
    PROVE  /\ \A i : UsedOf(resv, c, i) = 0
           /\ SpentAt(resv, c) = 0
<1>1. CyclesPast /\ resv \in Rows /\ account.cycle \in Nat
  BY RowsTyped, FundingAssumption DEF RowsInv, TypeOK, FundingAssumption
<1>2. \A q \in Reservation : resv[q].cycle \in Int /\ resv[q].cycle <= account.cycle
  BY <1>1 DEF Rows, CyclesPast
<1>3. OfCycle(resv, c) = {}
  BY <1>1, <1>2 DEF OfCycle
<1>4. HeldIn(resv, {}) = {}
  BY DEF HeldIn
<1>5. \A i : HeldOf(resv, {}, i) = 0 /\ ChargedOf(resv, {}, i) = 0
  BY NoRows
<1>6. \A i : UsedOf(resv, c, i) = 0
  BY <1>3, <1>4, <1>5 DEF UsedOf, PromisedOf
<1>7. SpentAt(resv, c) = 0
  BY <1>3, <1>5 DEF SpentAt
<1> QED BY <1>6, <1>7

\* The calendar takes nothing of the cycles that were, and begins one with nothing.
LEMMA AllowanceCalendar ==
    ASSUME AllowInv, RowsInv', resv' = resv, account'.limit = account.limit,
           account.granted \subseteq account'.granted,
           \/ account'.cycle = account.cycle /\ account'.graceUsed = account.graceUsed
           \/ account'.cycle = account.cycle + 1
    PROVE  AllowanceCovered' /\ GraceCounted'
<1> DEFINE n == account.cycle + 1
<1>1. /\ RowsInv /\ resv \in Rows /\ account \in AccountType /\ account' \in AccountType
      /\ account.cycle \in Nat /\ PoolGrant \in Nat /\ n \in Int /\ n >= 1
  BY RowsTyped, FundingAssumption DEF AllowInv, RowsInv, TypeOK, AccountType, FundingAssumption
<1>2. ASSUME NEW c \in Int, NEW i \in Shared
      PROVE  LimitOf(account, c, i) <= LimitOf(account', c, i)
             /\ LimitOf(account, c, i) \in Nat /\ LimitOf(account', c, i) \in Nat
  <2>1. GrantedSince(account, c) \in Nat /\ GrantedSince(account, c) <= GrantedSince(account', c)
        /\ GrantedSince(account', c) \in Nat
    BY <1>1, GrantedGrows
  <2>2. LimitOf(account, c, i) \in Nat
    BY <1>1, SharedFacts
  <2> QED BY <2>1, <2>2 DEF LimitOf
<1>3. CyclesKept(resv, account) /\ TimelyKept(resv, account) /\ GraceKept(resv, account)
  BY AllowanceKept
<1>4. ASSUME NEW c \in 1..account'.cycle PROVE c \in Int /\ c >= 1 /\ (c \in 1..account.cycle \/ c = n)
  BY <1>1
<1>5. CyclesKept(resv', account')
  <2> SUFFICES ASSUME NEW c \in 1..account'.cycle, NEW i \in Shared
               PROVE  UsedOf(resv, c, i) <= LimitOf(account', c, i)
    BY DEF CyclesKept
  <2>1. LimitOf(account, c, i) <= LimitOf(account', c, i) /\ LimitOf(account, c, i) \in Nat
        /\ LimitOf(account', c, i) \in Nat
    BY <1>2, <1>4
  <2>2. CASE c \in 1..account.cycle
    <3>1. UsedOf(resv, c, i) <= LimitOf(account, c, i)
      BY <1>3, <2>2 DEF CyclesKept
    <3>2. UsedOf(resv, c, i) \in Nat
      BY <1>1, <1>4, TimelyRows, Sources DEF Shared
    <3> QED BY <2>1, <3>1, <3>2
  <2>3. CASE c = n
    BY <1>1, <2>1, <2>3, NewCycle
  <2> QED BY <1>4, <2>2, <2>3
<1>6. TimelyKept(resv', account')
  <2> SUFFICES ASSUME NEW c \in 1..account'.cycle PROVE UsedOf(Timely(resv), c, Pool) <= PoolGrant
    BY DEF TimelyKept
  <2>1. CASE c \in 1..account.cycle
    BY <1>3, <2>1 DEF TimelyKept
  <2>2. CASE c = n
    <3>1. UsedOf(resv, c, Pool) = 0
      BY <1>1, <2>2, NewCycle
    <3>2. UsedOf(Timely(resv), c, Pool) <= UsedOf(resv, c, Pool) /\ UsedOf(Timely(resv), c, Pool) \in Nat
      BY <1>1, <1>4, TimelyRows, Sources
    <3> QED BY <1>1, <3>1, <3>2
  <2> QED BY <1>4, <2>1, <2>2
<1>7. GraceKept(resv', account')
  <2>1. CASE account'.cycle = account.cycle /\ account'.graceUsed = account.graceUsed
    BY <1>3, <2>1 DEF GraceKept
  <2>2. CASE account'.cycle = n
    <3>1. account'.graceUsed \in 0..GraceCap
      BY <1>1 DEF AccountType
    <3>2. SpentAt(resv, n) = 0
      BY <1>1, NewCycle
    <3> QED BY <2>2, <3>1, <3>2 DEF GraceKept
  <2> QED BY <2>1, <2>2
<1> QED BY <1>5, <1>6, <1>7, AllowanceNext

LEMMA CalendarFacts ==
    ASSUME RowsInv, Renew \/ Anniversary \/ Replenish
    PROVE  /\ resv' = resv /\ account'.limit = account.limit /\ reading' = reading
           /\ account'.interval = account.interval
           /\ account.granted \subseteq account'.granted
           /\ \/ account'.cycle = account.cycle /\ account'.graceUsed = account.graceUsed
              \/ account'.cycle = account.cycle + 1
<1>1. account \in AccountType
  BY DEF RowsInv, TypeOK, AccountType
<1>2. CASE Renew
  <2> DEFINE acc == [account EXCEPT !.cycle = account.cycle + 1,
                                    !.granted = @ \cup {account.cycle + 1}]
  <2>1. acc.cycle = account.cycle + 1 /\ acc.limit = account.limit /\ acc.interval = account.interval
        /\ account.granted \subseteq acc.granted
    BY <1>1 DEF AccountType
  <2>2. account' = acc \/ account' = [acc EXCEPT !.graceUsed = 0, !.graceCycle = NoCycle]
    BY <1>2 DEF Renew, GraceReset
  <2>3. account'.cycle = acc.cycle /\ account'.limit = acc.limit /\ account'.interval = acc.interval
        /\ account'.granted = acc.granted
    BY <1>1, <2>2 DEF AccountType
  <2> HIDE DEF acc
  <2>4. resv' = resv /\ reading' = reading
    BY <1>2 DEF Renew
  <2> QED BY <2>1, <2>3, <2>4
<1>3. CASE Anniversary
  BY <1>1, <1>3 DEF Anniversary, AccountType
<1>4. CASE Replenish
  BY <1>1, <1>4 DEF Replenish, AccountType
<1> QED BY <1>2, <1>3, <1>4

\* What the reservation under way has read keeps covering its cycle: a settlement waits
\* for the lock, and a new cycle has charged nothing yet.
LEMMA ReadingStep ==
    ASSUME AllowInv, [Next]_vars
    PROVE  ReadingKept'
<1>0. RowsInv /\ ReadingKept
  BY DEF AllowInv
<1> SUFFICES ASSUME ~Unlocked' PROVE SpentAt(resv', CycleRead') <= reading'.used
  BY ReadingSpent
<1>1. account.cycle \in Nat /\ account.cycle >= 1
  BY <1>0, FundingAssumption DEF RowsInv, TypeOK, FundingAssumption
<1>2. ASSUME reading' = reading, CycleRead' = CycleRead,
             SpentAt(resv', CycleRead) = SpentAt(resv, CycleRead)
      PROVE  SpentAt(resv', CycleRead') <= reading'.used
  <2>1. ~Unlocked
    BY <1>2 DEF Unlocked
  <2> QED BY <1>0, <1>2, <2>1, ReadingSpent
<1>3. ASSUME NEW r \in Reservation, GivesBack(r), reading' = reading
      PROVE  SpentAt(resv', CycleRead') <= reading'.used
  <2>1. ~Unlocked /\ account' = account
    BY <1>3 DEF Unlocked, GivesBack
  <2>2. CycleRead \in Int /\ CycleRead >= 1
    BY <1>0, <2>1, CycleReadFacts
  <2>3. CycleRead' = CycleRead
    BY <1>3, <2>1 DEF CycleRead
  <2>4. SpentAt(resv', CycleRead) = SpentAt(resv, CycleRead)
    BY <1>0, <1>3, <2>2, AllowanceGive, RowsStep
  <2> QED BY <1>2, <1>3, <2>3, <2>4
<1>4. ASSUME resv' = resv, reading' = reading, account' = account
      PROVE  SpentAt(resv', CycleRead') <= reading'.used
  BY <1>2, <1>4 DEF CycleRead
<1>5. ASSUME Renew \/ Anniversary \/ Replenish PROVE SpentAt(resv', CycleRead') <= reading'.used
  <2>1. resv' = resv /\ reading' = reading /\ ~Unlocked
        /\ account'.interval = account.interval
        /\ (account'.cycle = account.cycle \/ account'.cycle = account.cycle + 1)
    BY <1>0, <1>5, CalendarFacts DEF Unlocked
  <2>2. CASE account.interval = "annual" /\ account'.cycle = account.cycle + 1
    <3>1. CycleRead' = account.cycle + 1
      BY <2>1, <2>2 DEF CycleRead
    <3>2. SpentAt(resv, account.cycle + 1) = 0
      BY <1>0, <1>1, NewCycle
    <3>3. reading.used \in 0..GraceCap
      BY <1>0, <2>1, CycleReadFacts DEF ReadingType
    <3> QED BY <2>1, <3>1, <3>2, <3>3
  <2>3. CASE account.interval # "annual" \/ account'.cycle = account.cycle
    <3>1. CycleRead' = CycleRead
      BY <2>1, <2>3 DEF CycleRead
    <3> QED BY <1>2, <2>1, <3>1
  <2> QED BY <2>1, <2>2, <2>3
<1>6. ASSUME NEW r \in Reservation, NEW start \in BOOLEAN, Reserve(r, start)
      PROVE  SpentAt(resv', CycleRead') <= reading'.used
  <2>1. /\ reading' = [by |-> r, start |-> start, cycle |-> account.cycle, used |-> account.graceUsed]
        /\ account' = account /\ resv' = resv
    BY <1>6 DEF Reserve
  <2>2. CycleRead' = account.cycle /\ reading'.used = account.graceUsed
    BY <2>1 DEF CycleRead
  <2> QED BY <2>1, <2>2, AllowanceKept DEF GraceKept
<1>7. ASSUME NEW r \in Reservation
      PROVE  /\ Create(r) \/ FailScan(r) => reading' = reading /\ GivesBack(r)
             /\ ~ReserveBlocked(r) /\ ~Reset(r)
             /\ \A observed \in 1..(MinutesNeeded[r] + 1) : ~Settle(r, observed)
             /\ \A nonbillable \in BOOLEAN : ~Stop(r, nonbillable)
  <2>1. ~ReserveBlocked(r) /\ ~Reset(r)
        /\ (\A observed \in 1..(MinutesNeeded[r] + 1) : ~Settle(r, observed))
        /\ (\A nonbillable \in BOOLEAN : ~Stop(r, nonbillable))
    BY DEF ReserveBlocked, Reset, Settle, Stop, Unlocked
  <2>2. Create(r) \/ FailScan(r) => reading' = reading
    BY DEF Create, FailScan
  <2> QED BY <1>0, <2>1, <2>2, GivingSteps
<1>8. ~Fund
  BY DEF Fund, Unlocked
<1>9. CASE Next
  <2>1. PackSteps => resv' = resv /\ reading' = reading /\ account' = account
    BY <1>0, PackStepFacts
  <2> QED BY <1>3, <1>4, <1>5, <1>6, <1>7, <1>8, <1>9, <2>1, Steps
<1>10. CASE UNCHANGED vars
  BY <1>4, <1>10 DEF vars
<1> QED BY <1>9, <1>10

LEMMA AllowanceStep ==
    ASSUME AllowInv, [Next]_vars
    PROVE  AllowInv'
<1>0. RowsInv' /\ RowsInv
  BY RowsStep DEF AllowInv
<1>1. ASSUME NEW r \in Reservation, GivesBack(r) PROVE AllowanceCovered' /\ GraceCounted'
  BY <1>0, <1>1, AllowanceGive
<1>2. ASSUME resv' = resv, account' = account PROVE AllowanceCovered' /\ GraceCounted'
  BY <1>0, <1>2, AllowanceCalendar
<1>3. ASSUME Renew \/ Anniversary \/ Replenish PROVE AllowanceCovered' /\ GraceCounted'
  BY <1>0, <1>3, AllowanceCalendar, CalendarFacts
<1>4. ASSUME NEW r \in Reservation, NEW start \in BOOLEAN, Reserve(r, start)
      PROVE  AllowanceCovered' /\ GraceCounted'
  BY <1>2, <1>4 DEF Reserve
<1>5. AllowanceCovered' /\ GraceCounted'
  <2>1. CASE Next
    BY <1>0, <1>1, <1>2, <1>3, <1>4, <2>1, Steps, GivingSteps, AllowanceSettle, AllowanceFund,
       PackStepFacts
  <2>2. CASE UNCHANGED vars
    BY <1>2, <2>2 DEF vars
  <2> QED BY <2>1, <2>2
<1> QED BY <1>0, <1>5, ReadingStep DEF AllowInv

LEMMA AllowanceAlways == Spec => []AllowInv
<1>1. Init => AllowInv
  <2> SUFFICES ASSUME Init PROVE AllowInv
    OBVIOUS
  <2>1. RowsInv /\ ReadingKept
    BY RowsInit DEF Init, ReadingKept, Unlocked
  <2>2. resv \in Rows /\ account \in AccountType /\ account.cycle = 1 /\ Pool \in Source
        /\ account.graceUsed = 0 /\ PoolGrant \in Nat
    BY <2>1, RowsTyped, Sources, FundingAssumption
       DEF RowsInv, TypeOK, AccountType, Init, FundingAssumption
  <2>3. \A q \in Reservation : resv[q].cycle = 0
    BY DEF Init, NoCycle
  <2>4. \A c \in 1..account.cycle : OfCycle(resv, c) = {}
    BY <2>2, <2>3 DEF OfCycle
  <2>5. HeldIn(resv, {}) = {}
    BY DEF HeldIn
  <2>6. ASSUME NEW c \in 1..account.cycle
        PROVE  c \in Int /\ c >= 1 /\ SpentAt(resv, c) = 0 /\ \A i : UsedOf(resv, c, i) = 0
    BY <2>4, <2>5, NoRows DEF UsedOf, PromisedOf, SpentAt
  <2>7. CyclesKept(resv, account)
    <3> SUFFICES ASSUME NEW c \in 1..account.cycle, NEW i \in Shared
                 PROVE  UsedOf(resv, c, i) <= LimitOf(account, c, i)
      BY DEF CyclesKept
    <3>1. LimitOf(account, c, i) \in Nat
      BY <2>2, <2>6, SharedFacts
    <3> QED BY <2>6, <3>1
  <2>8. TimelyKept(resv, account)
    <3> SUFFICES ASSUME NEW c \in 1..account.cycle PROVE UsedOf(Timely(resv), c, Pool) <= PoolGrant
      BY DEF TimelyKept
    <3>1. UsedOf(Timely(resv), c, Pool) <= UsedOf(resv, c, Pool) /\ UsedOf(Timely(resv), c, Pool) \in Nat
      BY <2>2, <2>6, TimelyRows
    <3> QED BY <2>2, <2>6, <3>1
  <2>9. GraceKept(resv, account)
    BY <2>2, <2>6 DEF GraceKept
  <2> QED BY <2>1, <2>7, <2>8, <2>9, AllowanceNow DEF AllowInv
<1>2. AllowInv /\ [Next]_vars => AllowInv'
  BY AllowanceStep
<1> QED BY <1>1, <1>2, PTL DEF Spec

\* No cycle's reviews together hold and spend more than its spend limit or its grace,
\* nor, when funded before their cycle ended, more than its pool: through claims,
\* settlements and retries, and renewals at any time, also inside a reservation.
THEOREM AllowanceHolds == Spec => []AllowanceCovered
<1>1. AllowInv => AllowanceCovered
  BY DEF AllowInv
<1> QED BY <1>1, AllowanceAlways, PTL

\* What is free of the pool, the packs and paid overage does not depend on grace.
LEMMA FreeButGrace ==
    ASSUME NEW r \in Reservation, NEW c \in Int, NEW a \in Int, NEW b \in Int,
           NEW i \in Source, i # Grace
    PROVE  Available(r, c, a)[i] = Available(r, c, b)[i]
BY Sources DEF Available

\* A reservation draws on dearer minutes only when it has taken all there is of the
\* cheaper ones, as they are when it is written, not as they were when it asked.
THEOREM DrawsCheapestFirst == Spec => CheapestFirst
<1>1. RowsInv /\ [Next]_vars =>
        [\A r \in Reservation : \A i, j \in Source :
           /\ reading.by = r /\ Unlocked' /\ resv'[r].held[j] > 0 /\ i < j
           => resv'[r].held[i] = Available(r, resv'[r].cycle, account.graceUsed)[i]]_vars
  <2> SUFFICES ASSUME RowsInv, [Next]_vars, NEW r \in Reservation, NEW i \in Source, NEW j \in Source,
                      reading.by = r, Unlocked', resv'[r].held[j] > 0, i < j
               PROVE  resv'[r].held[i] = Available(r, resv'[r].cycle, account.graceUsed)[i]
    OBVIOUS
  <2>1. ~Unlocked /\ r # 0
    BY DEF Unlocked, Idle, Reservation
  <2>2. /\ reading.used \in Int /\ account.graceUsed \in Int /\ CycleRead \in Int
    BY <2>1, CycleReadFacts, FundingAssumption DEF ReadingType, RowsInv, TypeOK, FundingAssumption
  <2>3. Fund
    <3>1. reading' # reading
      BY <2>1 DEF Unlocked
    <3>2. \A q \in Reservation : /\ ~Create(q) /\ ~FailScan(q) /\ ~ReserveBlocked(q) /\ ~Reset(q)
                                 /\ \A start \in BOOLEAN : ~Reserve(q, start)
                                 /\ \A observed \in 1..(MinutesNeeded[q] + 1) : ~Settle(q, observed)
                                 /\ \A nonbillable \in BOOLEAN : ~Stop(q, nonbillable)
      BY <2>1, <3>1 DEF Create, FailScan, ReserveBlocked, Reset, Reserve, Settle, Stop
    <3>3. ~Renew /\ ~Anniversary /\ ~Replenish /\ ~PackSteps /\ ~UNCHANGED vars
      BY <3>1, CalendarFacts, PackStepFacts DEF vars
    <3> QED BY <3>2, <3>3, Steps
  <2>4. CASE resv'[r].held = Nothing
    BY <2>4, NothingHeld
  <2>5. CASE FundedRow(r, resv'[r])
    <3>1. resv'[r].held[i] = Available(r, CycleRead, reading.used)[i] /\ resv'[r].cycle = CycleRead
      BY <2>5 DEF FundedRow
    <3>2. i # Grace
      BY Sources DEF Source, Pool, Grace
    <3>3. Available(r, CycleRead, reading.used)[i] = Available(r, CycleRead, account.graceUsed)[i]
      BY <2>2, <3>2, FreeButGrace
    <3> QED BY <3>1, <3>3
  <2> QED BY <2>3, <2>4, <2>5, FundSteps
<1> QED BY <1>1, RowsAlways, PTL DEF Spec, CheapestFirst

=============================================================================

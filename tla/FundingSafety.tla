---------------------------- MODULE FundingSafety ----------------------------
(***************************************************************************)
(* What the account of CapacityFunding promises.                           *)
(***************************************************************************)
EXTENDS CapacityFunding

Minutes == [Source -> Nat]

(* Rows are well formed: the funding check of the migration (no negative part, *)
(* grace or overage but not both, no charge beyond what was funded) and what   *)
(* the guarded debits keep (packs, and the grace counter within its cap).      *)
TypeOK ==
    /\ resv \in [Reservation -> [state : States, cycle : NoCycle..MaxCycle, held : Minutes,
                                 charge : Minutes, stopped : BOOLEAN, resets : 0..MaxResets,
                                 failed : BOOLEAN, late : BOOLEAN]]
    /\ \A r \in Reservation :
          /\ resv[r].held[Grace] = 0 \/ resv[r].held[Overage] = 0
          /\ \A i \in Source : resv[r].charge[i] <= resv[r].held[i]
    /\ account \in [cycle : 1..MaxCycle, granted : SUBSET (1..MaxCycle), limit : SpendLimits,
                    interval : Intervals, graceUsed : 0..GraceCap, graceCycle : NoCycle..MaxCycle]
    /\ pack \in [Pack -> [state : {"none", "valid", "lapsed", "refunded"}, left : 0..PackMinutes]]
    /\ \/ Unlocked
       \/ reading \in [by : Reservation, start : BOOLEAN, cycle : 1..MaxCycle, used : 0..GraceCap]

Promised(S, i) == HeldBy({r \in S : resv[r].state \in HELD}, i)
Spent(S, i)    == ChargedTo(S, i)

(* The reviews of one cycle together never hold and spend more than the spend   *)
(* limit or the grace of one cycle, nor more of the pool than the cycles that   *)
(* have begun since were granted; those funded before their cycle ended never   *)
(* more than its own pool: "Reservation excludes capacity held by concurrent    *)
(* sponsored scans".  A renewal between the two reads of a reservation makes it *)
(* late: it may be lent the new cycle's pool as well (README, section 5).       *)
AllowanceCovered ==
    \A c \in 1..account.cycle :
        LET ours       == InCycle(Reservation, c)
            timely     == {r \in ours : ~resv[r].late}
            Used(S, i) == Promised(S, i) + Spent(S, i)
        IN  /\ Used(timely, Pool) <= PoolGrant
            /\ Used(ours, Pool) <= PoolGrant * Cardinality({g \in account.granted : g >= c})
            /\ Used(ours, Overage) <= account.limit
            /\ Used(ours, Grace) <= GraceCap

(* A pack that was neither refunded nor swept still has every minute that any  *)
(* review holds of it, whatever the cycle, and has lost only what was charged. *)
PacksCovered ==
    \A p \in Pack :
        pack[p].state = "valid" =>
            /\ Promised(Reservation, p) <= pack[p].left
            /\ pack[p].left + Spent(Reservation, p) = PackMinutes

(* While one review of the account is held for review of its billing, no other *)
(* review gains minutes, not by a claim, a retry or a reservation under way.   *)
ReviewFreezes ==
    [][\A q, r \in Reservation :
          resv[q].state = "REVIEW_REQUIRED" /\ r # q => Total(resv'[r].held) <= Total(resv[r].held)]_vars

(* Dearer minutes are held only when the cheaper ones are gone: a reservation  *)
(* that gains packs, overage or grace leaves nothing usable of the pool of its *)
(* cycle or of an older pack (a tail below one multiplied minute excepted).    *)
CheapestFirst ==
    [][\A r \in Reservation : \A i, j \in Source :
          /\ reading.by = r /\ Unlocked' /\ resv'[r].held[j] > 0 /\ i < j
          => resv'[r].held[i] = Available(r, resv'[r].cycle, account.graceUsed)[i]]_vars

(* A review waits for ever only behind a review hold, behind a waiting review   *)
(* of a scan that has failed (no capacity call ever removes it from the line),  *)
(* or when the account has less than one of its first waiter's minutes to give. *)
Short ==
    \A r \in Waiting :
        (\A q \in Waiting : r <= q) =>
            Total(Available(r, account.cycle, account.graceUsed)) < Multiplier[r]

DeadInFront(r) == \E q \in Waiting : q <= r /\ resv[q].failed

WaiterIsFunded ==
    \A r \in Reservation :
        <>[](resv[r].state = "WAITING")
            => <>[](ReviewHeld(Reservation) \/ Short \/ DeadInFront(r))
=============================================================================

----------------------------- MODULE MinuteSums -----------------------------
(***************************************************************************)
(* What a sum of minutes is, for every finite set of sources or of         *)
(* reservations.  Sum is a fold whose order is left open; here it is shown *)
(* to depend on the minutes alone, and to be split, bounded and compared   *)
(* as sums are.  An induction over the sets takes a smallest one for which *)
(* the claim fails.                                                        *)
(***************************************************************************)
EXTENDS FundingSafety, FiniteSetTheorems, WellFoundedInduction, TLAPS

\* A nonempty collection of subsets of a finite set has a smallest member.
LEMMA Smallest ==
    ASSUME NEW S, IsFiniteSet(S), NEW T \in SUBSET (SUBSET S), T # {}
    PROVE  \E s \in T : \A u \in T : u \subseteq s => u = s
<1>1. IsWellFoundedOn(StrictSubsetOrdering(S), SUBSET S)
  BY FS_FiniteSubsetsOfFinite, FS_StrictSubsetOrderingWellFounded
<1>2. \E s \in T : \A u \in T : ~ (<<u, s>> \in StrictSubsetOrdering(S))
  BY <1>1, WFMin
<1> QED BY <1>2 DEF StrictSubsetOrdering

AnyOf(s) == CHOOSE x \in s : TRUE

\* g is the fold of f over every subset of s.
IsFold(f, s, g) ==
    g = [u \in SUBSET s |-> IF u = {} THEN 0 ELSE f[AnyOf(u)] + g[u \ {AnyOf(u)}]]

LEMMA SumIsFold == ASSUME NEW f, NEW S PROVE Sum(f, S) = (CHOOSE g : IsFold(f, S, g))[S]
BY DEF Sum, MapThenSumSet, MapThenFoldSet, IsFold, AnyOf

LEMMA FoldAt ==
    ASSUME NEW f, NEW S, NEW g, IsFold(f, S, g), NEW s \in SUBSET S
    PROVE  g[s] = IF s = {} THEN 0 ELSE f[AnyOf(s)] + g[s \ {AnyOf(s)}]
BY DEF IsFold

LEMMA FoldStep ==
    ASSUME NEW f, NEW S, NEW g, IsFold(f, S, g), NEW s \in SUBSET S, s # {}
    PROVE  g[s] = f[AnyOf(s)] + g[s \ {AnyOf(s)}]
BY FoldAt

LEMMA AnyIn == ASSUME NEW s, s # {} PROVE AnyOf(s) \in s
BY DEF AnyOf

\* Two folds agree where both are defined.
LEMMA FoldUnique ==
    ASSUME NEW f, NEW A, NEW B, NEW g, NEW h, IsFiniteSet(A), IsFold(f, A, g), IsFold(f, B, h),
           NEW s \in SUBSET (A \cap B)
    PROVE  g[s] = h[s]
<1> DEFINE T == {u \in SUBSET (A \cap B) : g[u] # h[u]}
<1>1. ASSUME T # {} PROVE FALSE
  <2>1. T \in SUBSET (SUBSET A)
    OBVIOUS
  <2>2. PICK u \in T : \A v \in T : v \subseteq u => v = u
    <3> HIDE DEF T
    <3> QED BY <1>1, <2>1, Smallest
  <2>3. u # {}
    BY <2>2, FoldAt
  <2>4. AnyOf(u) \in u
    BY <2>3, AnyIn
  <2>5. g[u \ {AnyOf(u)}] = h[u \ {AnyOf(u)}]
    BY <2>2, <2>4
  <2>6. u \in SUBSET A /\ u \in SUBSET B
    OBVIOUS
  <2>7. g[u] # h[u]
    OBVIOUS
  <2> HIDE DEF T
  <2>8. g[u] = f[AnyOf(u)] + g[u \ {AnyOf(u)}]
    BY <2>3, <2>6, FoldStep
  <2>9. h[u] = f[AnyOf(u)] + h[u \ {AnyOf(u)}]
    BY <2>3, <2>6, FoldStep
  <2> QED BY <2>5, <2>7, <2>8, <2>9
<1> QED BY <1>1

\* The fold exists over every finite set.
LEMMA FoldExists ==
    ASSUME NEW f, NEW S, IsFiniteSet(S)
    PROVE  \E g : IsFold(f, S, g)
<1> DEFINE T == {s \in SUBSET S : ~ \E g : IsFold(f, s, g)}
<1>1. ASSUME T # {} PROVE FALSE
  <2>1. PICK s \in T : \A u \in T : u \subseteq s => u = s
    <3>1. T \in SUBSET (SUBSET S)
      OBVIOUS
    <3> HIDE DEF T
    <3> QED BY <1>1, <3>1, Smallest
  <2> DEFINE E(u) == CHOOSE g : IsFold(f, u, g)
             G == [u \in SUBSET s |->
                     IF u = {} THEN 0 ELSE f[AnyOf(u)] + E(u \ {AnyOf(u)})[u \ {AnyOf(u)}]]
  <2>2. ASSUME NEW u \in SUBSET s, u # s PROVE IsFold(f, u, E(u)) /\ IsFiniteSet(u)
    <3>1. \E g : IsFold(f, u, g)
      BY <2>1, <2>2
    <3>2. IsFiniteSet(u)
      BY FS_Subset
    <3> QED BY <3>1, <3>2
  <2>3. ASSUME NEW u \in SUBSET s, u # {} PROVE u \ {AnyOf(u)} \in SUBSET s /\ u \ {AnyOf(u)} # s
    BY <2>3, AnyIn
  <2>4. ASSUME NEW v \in SUBSET s, v # s PROVE E(v)[v] = G[v]
    <3>1. IsFold(f, v, E(v)) /\ IsFiniteSet(v)
      BY <2>2, <2>4
    <3>2. CASE v = {}
      <4>1. E(v)[v] = 0
        BY <3>1, <3>2, FoldAt
      <4>2. G[v] = 0
        BY <3>2
      <4> QED BY <4>1, <4>2
    <3>3. CASE v # {}
      <4> DEFINE w == v \ {AnyOf(v)}
      <4>1. w \in SUBSET s /\ w # s /\ w \in SUBSET v
        BY <2>3, <3>3
      <4>2. IsFold(f, w, E(w)) /\ IsFiniteSet(w)
        BY <2>2, <4>1
      <4>3. E(v)[v] = f[AnyOf(v)] + E(v)[w]
        BY <3>1, <3>3, FoldAt
      <4>4. w \in SUBSET (v \cap w)
        BY <4>1
      <4> HIDE DEF E
      <4>5. E(v)[w] = E(w)[w]
        BY <3>1, <4>2, <4>4, FoldUnique
      <4>6. G[v] = f[AnyOf(v)] + E(w)[w]
        BY <3>3
      <4> QED BY <4>3, <4>5, <4>6
    <3> QED BY <3>2, <3>3
  <2> HIDE DEF E
  <2>5. \A u \in SUBSET s : G[u] = IF u = {} THEN 0 ELSE f[AnyOf(u)] + G[u \ {AnyOf(u)}]
    BY <2>3, <2>4
  <2>6. G = [u \in SUBSET s |-> G[u]]
    OBVIOUS
  <2> HIDE DEF G
  <2>7. IsFold(f, s, G)
    BY <2>5, <2>6 DEF IsFold
  <2> QED BY <2>1, <2>7
<1> QED BY <1>1

LEMMA SumFold ==
    ASSUME NEW f, NEW S, IsFiniteSet(S)
    PROVE  \E g : IsFold(f, S, g) /\ \A s \in SUBSET S : Sum(f, s) = g[s]
<1> DEFINE E(u) == CHOOSE g : IsFold(f, u, g)
<1>1. \A u \in SUBSET S : IsFiniteSet(u) /\ IsFold(f, u, E(u))
  BY FoldExists, FS_Subset
<1>2. \A u \in SUBSET S : Sum(f, u) = E(u)[u]
  BY SumIsFold
<1> HIDE DEF E
<1>3. \A u \in SUBSET S : E(u)[u] = E(S)[u]
  <2> SUFFICES ASSUME NEW u \in SUBSET S PROVE E(u)[u] = E(S)[u]
    OBVIOUS
  <2>1. u \in SUBSET (u \cap S)
    OBVIOUS
  <2> QED BY <1>1, <2>1, FoldUnique
<1> QED BY <1>1, <1>2, <1>3

LEMMA SumEmpty == ASSUME NEW f PROVE Sum(f, {}) = 0
<1>1. PICK g : IsFold(f, {}, g) /\ \A s \in SUBSET {} : Sum(f, s) = g[s]
  BY SumFold, FS_EmptySet
<1>2. g[{}] = 0
  BY <1>1, FoldAt
<1> QED BY <1>1, <1>2

LEMMA SumStep ==
    ASSUME NEW f, NEW S, IsFiniteSet(S), S # {}
    PROVE  AnyOf(S) \in S /\ Sum(f, S) = f[AnyOf(S)] + Sum(f, S \ {AnyOf(S)})
<1>1. PICK g : IsFold(f, S, g) /\ \A s \in SUBSET S : Sum(f, s) = g[s]
  BY SumFold
<1>2. g[S] = f[AnyOf(S)] + g[S \ {AnyOf(S)}]
  BY <1>1, FoldAt
<1>3. S \in SUBSET S /\ S \ {AnyOf(S)} \in SUBSET S
  OBVIOUS
<1> QED BY <1>1, <1>2, <1>3, AnyIn
-----------------------------------------------------------------------------
(***************************************************************************)
(* The order of the fold is of no consequence.                             *)
(***************************************************************************)
Counted(f, S) == \A i \in S : f[i] \in Nat

LEMMA SumNat ==
    ASSUME NEW f, NEW S, IsFiniteSet(S), Counted(f, S)
    PROVE  Sum(f, S) \in Nat
<1> DEFINE T == {s \in SUBSET S : Sum(f, s) \notin Nat}
<1>1. ASSUME T # {} PROVE FALSE
  <2>1. T \in SUBSET (SUBSET S)
    OBVIOUS
  <2>2. PICK s \in T : \A v \in T : v \subseteq s => v = s
    <3> HIDE DEF T
    <3> QED BY <1>1, <2>1, Smallest
  <2>3. s \in SUBSET S /\ IsFiniteSet(s)
    BY FS_Subset
  <2>4. s # {}
    BY SumEmpty
  <2>5. AnyOf(s) \in s /\ Sum(f, s) = f[AnyOf(s)] + Sum(f, s \ {AnyOf(s)})
    BY <2>3, <2>4, SumStep
  <2>6. Sum(f, s \ {AnyOf(s)}) \in Nat
    BY <2>2, <2>3, <2>5
  <2>7. f[AnyOf(s)] \in Nat
    BY <2>3, <2>5 DEF Counted
  <2> QED BY <2>5, <2>6, <2>7
<1>2. S \in SUBSET S
  OBVIOUS
<1> QED BY <1>1, <1>2

\* Any member may be taken out of a sum.
LEMMA SumRemove ==
    ASSUME NEW f, NEW S, IsFiniteSet(S), Counted(f, S), NEW x \in S
    PROVE  Sum(f, S) = f[x] + Sum(f, S \ {x})
<1> DEFINE T == {s \in SUBSET S : \E z \in s : Sum(f, s) # f[z] + Sum(f, s \ {z})}
<1>1. ASSUME T # {} PROVE FALSE
  <2>1. T \in SUBSET (SUBSET S)
    OBVIOUS
  <2>2. PICK s \in T : \A v \in T : v \subseteq s => v = s
    <3> HIDE DEF T
    <3> QED BY <1>1, <2>1, Smallest
  <2>3. s \in SUBSET S
    OBVIOUS
  <2>4. ASSUME NEW u \in SUBSET s
        PROVE  /\ IsFiniteSet(u) /\ Counted(f, u) /\ Sum(f, u) \in Nat
               /\ u # s => \A z \in u : Sum(f, u) = f[z] + Sum(f, u \ {z})
    <3>1. IsFiniteSet(u) /\ Counted(f, u)
      BY <2>3, FS_Subset DEF Counted
    <3> QED BY <2>2, <2>3, <3>1, SumNat
  <2>5. PICK z \in s : Sum(f, s) # f[z] + Sum(f, s \ {z})
    OBVIOUS
  <2> HIDE DEF T
  <2> DEFINE y == AnyOf(s)
             rest == s \ {y, z}
  <2>6. y \in s /\ Sum(f, s) = f[y] + Sum(f, s \ {y})
    BY <2>4, <2>5, SumStep
  <2> HIDE DEF y
  <2>7. y # z
    BY <2>5, <2>6
  <2>8. Sum(f, s \ {y}) = f[z] + Sum(f, rest)
    <3>1. s \ {y} \in SUBSET s /\ s \ {y} # s /\ z \in s \ {y} /\ (s \ {y}) \ {z} = rest
      BY <2>6, <2>7
    <3> QED BY <2>4, <3>1
  <2>9. Sum(f, s \ {z}) = f[y] + Sum(f, rest)
    <3>1. s \ {z} \in SUBSET s /\ s \ {z} # s /\ y \in s \ {z} /\ (s \ {z}) \ {y} = rest
      BY <2>6, <2>7
    <3> QED BY <2>4, <3>1
  <2>10. f[y] \in Nat /\ f[z] \in Nat /\ Sum(f, rest) \in Nat
    BY <2>4, <2>6 DEF Counted
  <2> HIDE DEF rest
  <2> QED BY <2>5, <2>6, <2>8, <2>9, <2>10
<1>2. S \in SUBSET S
  OBVIOUS
<1> QED BY <1>1, <1>2
-----------------------------------------------------------------------------
(***************************************************************************)
(* Sums compared                                                           *)
(***************************************************************************)
\* Fewer members with smaller parts have a smaller sum.
LEMMA SumMono ==
    ASSUME NEW f, NEW g, NEW A, NEW B, IsFiniteSet(B), A \subseteq B, Counted(f, A), Counted(g, B),
           \A i \in A : f[i] <= g[i]
    PROVE  Sum(f, A) <= Sum(g, B)
<1> DEFINE T == {s \in SUBSET B : ~ (Sum(f, s \cap A) <= Sum(g, s))}
<1>1. ASSUME T # {} PROVE FALSE
  <2>1. T \in SUBSET (SUBSET B)
    OBVIOUS
  <2>2. PICK s \in T : \A v \in T : v \subseteq s => v = s
    <3> HIDE DEF T
    <3> QED BY <1>1, <2>1, Smallest
  <2>3. s \in SUBSET B /\ IsFiniteSet(s) /\ IsFiniteSet(s \cap A)
    BY FS_Subset
  <2>4. s # {}
    BY SumEmpty
  <2>5. PICK x \in s : TRUE
    BY <2>4
  <2>6. Sum(f, (s \ {x}) \cap A) <= Sum(g, s \ {x})
    BY <2>2, <2>3
  <2>7. ~ (Sum(f, s \cap A) <= Sum(g, s))
    BY <2>2
  <2> HIDE DEF T
  <2>8. Counted(g, s) /\ Counted(f, s \cap A) /\ IsFiniteSet(s \ {x}) /\ IsFiniteSet((s \ {x}) \cap A)
        /\ Counted(g, s \ {x}) /\ Counted(f, (s \ {x}) \cap A)
    BY <2>3, FS_Subset DEF Counted
  <2>9. Sum(g, s) = g[x] + Sum(g, s \ {x}) /\ g[x] \in Nat /\ Sum(g, s \ {x}) \in Nat
        /\ Sum(f, (s \ {x}) \cap A) \in Nat
    BY <2>3, <2>8, SumRemove, SumNat DEF Counted
  <2>10. CASE x \in A
    <3>1. Sum(f, s \cap A) = f[x] + Sum(f, (s \cap A) \ {x})
      BY <2>3, <2>8, <2>10, SumRemove
    <3>2. (s \cap A) \ {x} = (s \ {x}) \cap A
      OBVIOUS
    <3>3. f[x] \in Nat /\ f[x] <= g[x]
      BY <2>10 DEF Counted
    <3>4. Sum(f, s \cap A) = f[x] + Sum(f, (s \ {x}) \cap A)
      BY <3>1, <3>2
    <3>5. Sum(f, s \cap A) <= Sum(g, s)
      BY <2>6, <2>9, <3>3, <3>4
    <3> QED BY <2>7, <3>5
  <2>11. CASE x \notin A
    <3>1. (s \ {x}) \cap A = s \cap A
      BY <2>11
    <3>2. Sum(f, s \cap A) <= Sum(g, s \ {x}) /\ Sum(f, s \cap A) \in Nat
      BY <2>6, <2>9, <3>1
    <3>3. Sum(f, s \cap A) <= Sum(g, s)
      BY <2>9, <3>2
    <3> QED BY <2>7, <3>3
  <2> QED BY <2>10, <2>11
<1>2. B \in SUBSET B /\ B \cap A = A
  OBVIOUS
<1> QED BY <1>1, <1>2

LEMMA SumSame ==
    ASSUME NEW f, NEW g, NEW S, IsFiniteSet(S), Counted(f, S), \A i \in S : f[i] = g[i]
    PROVE  Sum(f, S) = Sum(g, S)
<1>1. Counted(g, S) /\ (\A i \in S : f[i] <= g[i] /\ g[i] <= f[i])
  BY DEF Counted
<1>2. Sum(f, S) <= Sum(g, S) /\ Sum(g, S) <= Sum(f, S)
  BY <1>1, SumMono
<1>3. Sum(f, S) \in Nat /\ Sum(g, S) \in Nat
  BY <1>1, SumNat
<1> QED BY <1>2, <1>3

LEMMA SumZero ==
    ASSUME NEW f, NEW S, IsFiniteSet(S), \A i \in S : f[i] = 0
    PROVE  Sum(f, S) = 0
<1> DEFINE T == {s \in SUBSET S : Sum(f, s) # 0}
<1>1. ASSUME T # {} PROVE FALSE
  <2>1. T \in SUBSET (SUBSET S)
    OBVIOUS
  <2>2. PICK s \in T : \A v \in T : v \subseteq s => v = s
    <3> HIDE DEF T
    <3> QED BY <1>1, <2>1, Smallest
  <2>3. s \in SUBSET S /\ IsFiniteSet(s) /\ s # {}
    BY FS_Subset, SumEmpty
  <2>4. AnyOf(s) \in s /\ Sum(f, s) = f[AnyOf(s)] + Sum(f, s \ {AnyOf(s)})
    BY <2>3, SumStep
  <2>5. Sum(f, s \ {AnyOf(s)}) = 0
    BY <2>2, <2>3, <2>4
  <2> QED BY <2>3, <2>4, <2>5
<1>2. S \in SUBSET S
  OBVIOUS
<1> QED BY <1>1, <1>2

\* One part of a sum changes: so does the sum, and by as much.
LEMMA SumChange ==
    ASSUME NEW f, NEW g, NEW S, IsFiniteSet(S), Counted(f, S), Counted(g, S), NEW x \in S,
           \A i \in S \ {x} : f[i] = g[i]
    PROVE  Sum(g, S) = Sum(f, S) - f[x] + g[x]
<1>1. IsFiniteSet(S \ {x}) /\ Counted(f, S \ {x})
  BY FS_Subset DEF Counted
<1>2. Sum(f, S \ {x}) = Sum(g, S \ {x}) /\ Sum(f, S \ {x}) \in Nat
  BY <1>1, SumSame, SumNat
<1>3. Sum(f, S) = f[x] + Sum(f, S \ {x}) /\ Sum(g, S) = g[x] + Sum(g, S \ {x})
  BY SumRemove
<1>4. f[x] \in Nat /\ g[x] \in Nat
  BY DEF Counted
<1> QED BY <1>2, <1>3, <1>4
-----------------------------------------------------------------------------
(***************************************************************************)
(* Drawing on the sources in turn, and giving a tail back                  *)
(***************************************************************************)
LEMMA Sources ==
    /\ NumPacks \in Nat /\ Pool = 0 /\ Overage = NumPacks + 1 /\ Grace = NumPacks + 2
    /\ Source = 0..(NumPacks + 2) /\ IsFiniteSet(Source) /\ Pack \subseteq Source
    /\ Pool \in Source /\ Overage \in Source /\ Grace \in Source
    /\ Pool # Overage /\ Overage # Grace /\ Pool # Grace
    /\ Pool \notin Pack /\ Overage \notin Pack /\ Grace \notin Pack
    /\ \A i \in Source : i = Pool \/ i \in Pack \/ i = Overage \/ i = Grace
BY FundingAssumption, FS_Interval DEF FundingAssumption, Source, Pack, Pool, Overage, Grace

LEMMA SourceSums ==
    ASSUME NEW m \in Minutes, NEW S \in SUBSET Source
    PROVE  IsFiniteSet(S) /\ Counted(m, S) /\ Sum(m, S) \in Nat
<1>1. IsFiniteSet(S) /\ Counted(m, S)
  BY Sources, FS_Subset DEF Minutes, Counted
<1> QED BY <1>1, SumNat

LEMMA SmallerFloored ==
    ASSUME NEW a \in Nat, NEW b \in Int
    PROVE  /\ Floored(b) \in Nat /\ Smaller(a, Floored(b)) \in Nat /\ Smaller(a, Floored(b)) <= a
           /\ a - Smaller(a, Floored(b)) \in Nat /\ a - Smaller(a, Floored(b)) <= a
           /\ Floored(b) > 0 => Floored(b) = b
           /\ Smaller(a, Floored(b)) > 0 => b > 0
           /\ b >= a => Smaller(a, Floored(b)) = a
           /\ b <= 0 => a - Smaller(a, Floored(b)) = a
           /\ a - Smaller(a, Floored(b)) > 0 => b < a
BY DEF Smaller, Floored

LEMMA Before ==
    ASSUME NEW i \in Source
    PROVE  /\ Pool..(i - 1) \in SUBSET Source /\ i \notin Pool..(i - 1)
           /\ (i + 1)..Grace \in SUBSET Source /\ i \notin (i + 1)..Grace
BY Sources DEF Pool

LEMMA DrawAt ==
    ASSUME NEW m \in Minutes, NEW want \in Int, NEW i \in Source
    PROVE  LET drawn  == Draw(m, want)[i]
               before == Sum(m, Pool..(i - 1))
           IN  /\ before \in Nat /\ m[i] \in Nat /\ drawn \in Nat /\ drawn <= m[i]
               /\ drawn > 0 => want - before > 0
               /\ want - before >= m[i] => drawn = m[i]
<1> DEFINE before == Sum(m, Pool..(i - 1))
           b == want - before
<1>1. before \in Nat /\ m[i] \in Nat
  BY Before, SourceSums DEF Minutes
<1>2. Draw(m, want)[i] = Smaller(m[i], Floored(b))
  BY DEF Draw
<1>3. b \in Int
  BY <1>1
<1> HIDE DEF b
<1>4. /\ Smaller(m[i], Floored(b)) \in Nat /\ Smaller(m[i], Floored(b)) <= m[i]
      /\ Smaller(m[i], Floored(b)) > 0 => b > 0
      /\ b >= m[i] => Smaller(m[i], Floored(b)) = m[i]
  BY <1>1, <1>3, SmallerFloored
<1> QED BY <1>1, <1>2, <1>4 DEF b

LEMMA TrimAt ==
    ASSUME NEW m \in Minutes, NEW tail \in Int, NEW i \in Source
    PROVE  LET kept  == Trim(m, tail)[i]
               after == Sum(m, (i + 1)..Grace)
           IN  /\ after \in Nat /\ m[i] \in Nat /\ kept \in Nat /\ kept <= m[i]
               /\ kept > 0 => tail - after < m[i]
               /\ tail - after <= 0 => kept = m[i]
<1> DEFINE after == Sum(m, (i + 1)..Grace)
           b == tail - after
<1>1. after \in Nat /\ m[i] \in Nat
  BY Before, SourceSums DEF Minutes
<1>2. Trim(m, tail)[i] = m[i] - Smaller(m[i], Floored(b))
  BY DEF Trim
<1>3. b \in Int
  BY <1>1
<1> HIDE DEF b
<1>4. /\ m[i] - Smaller(m[i], Floored(b)) \in Nat /\ m[i] - Smaller(m[i], Floored(b)) <= m[i]
      /\ m[i] - Smaller(m[i], Floored(b)) > 0 => b < m[i]
      /\ b <= 0 => m[i] - Smaller(m[i], Floored(b)) = m[i]
  BY <1>1, <1>3, SmallerFloored
<1> QED BY <1>1, <1>2, <1>4 DEF b

\* No more is drawn of a source than it has.
LEMMA DrawBounded ==
    ASSUME NEW m \in Minutes, NEW want \in Int
    PROVE  Draw(m, want) \in Minutes /\ \A i \in Source : Draw(m, want)[i] <= m[i]
<1>1. ASSUME NEW i \in Source PROVE Draw(m, want)[i] \in Nat /\ Draw(m, want)[i] <= m[i]
  BY DrawAt
<1>2. Draw(m, want) = [i \in Source |-> Draw(m, want)[i]]
  BY DEF Draw
<1> QED BY <1>1, <1>2 DEF Minutes

LEMMA TrimBounded ==
    ASSUME NEW m \in Minutes, NEW tail \in Int
    PROVE  Trim(m, tail) \in Minutes /\ \A i \in Source : Trim(m, tail)[i] <= m[i]
<1>1. ASSUME NEW i \in Source PROVE Trim(m, tail)[i] \in Nat /\ Trim(m, tail)[i] <= m[i]
  BY TrimAt
<1>2. Trim(m, tail) = [i \in Source |-> Trim(m, tail)[i]]
  BY DEF Trim
<1> QED BY <1>1, <1>2 DEF Minutes

\* A dearer source is drawn on only when every cheaper one is used up ...
LEMMA DrawInOrder ==
    ASSUME NEW m \in Minutes, NEW want \in Int, NEW i \in Source, NEW j \in Source, i < j,
           Draw(m, want)[j] > 0
    PROVE  Draw(m, want)[i] = m[i]
<1>1. want > Sum(m, Pool..(j - 1))
  BY DrawAt
<1>2. Sum(m, (Pool..(i - 1)) \cup {i}) <= Sum(m, Pool..(j - 1))
  <2> DEFINE A == (Pool..(i - 1)) \cup {i}
             B == Pool..(j - 1)
  <2>1. A \subseteq B
    BY Sources
  <2>2. B \in SUBSET Source /\ A \in SUBSET Source
    BY <2>1, Before
  <2>3. IsFiniteSet(B) /\ Counted(m, A) /\ Counted(m, B)
    BY <2>2, SourceSums
  <2>4. \A k \in A : m[k] <= m[k]
    BY <2>2 DEF Minutes
  <2> HIDE DEF A, B
  <2>5. Sum(m, A) <= Sum(m, B)
    BY <2>1, <2>3, <2>4, SumMono
  <2> QED BY <2>5 DEF A, B
<1>3. Sum(m, (Pool..(i - 1)) \cup {i}) = m[i] + Sum(m, Pool..(i - 1))
  <2> DEFINE A == (Pool..(i - 1)) \cup {i}
  <2>1. A \in SUBSET Source /\ A \ {i} = Pool..(i - 1) /\ i \in A
    BY Before
  <2>2. IsFiniteSet(A) /\ Counted(m, A)
    BY <2>1, SourceSums
  <2> HIDE DEF A
  <2>3. Sum(m, A) = m[i] + Sum(m, A \ {i})
    BY <2>1, <2>2, SumRemove
  <2> QED BY <2>1, <2>3 DEF A
<1>4. m[i] \in Nat /\ Sum(m, Pool..(i - 1)) \in Nat /\ Sum(m, Pool..(j - 1)) \in Nat
  BY DrawAt
<1>5. want - Sum(m, Pool..(i - 1)) >= m[i]
  BY <1>1, <1>2, <1>3, <1>4
<1> QED BY <1>5, DrawAt

\* ... and given back first.
LEMMA TrimInOrder ==
    ASSUME NEW m \in Minutes, NEW tail \in Int, NEW i \in Source, NEW j \in Source, i < j,
           Trim(m, tail)[j] > 0
    PROVE  Trim(m, tail)[i] = m[i]
<1>1. tail - Sum(m, (j + 1)..Grace) < m[j]
  BY TrimAt
<1>2. Sum(m, ((j + 1)..Grace) \cup {j}) <= Sum(m, (i + 1)..Grace)
  <2> DEFINE A == ((j + 1)..Grace) \cup {j}
             B == (i + 1)..Grace
  <2>1. A \subseteq B
    BY Sources
  <2>2. B \in SUBSET Source /\ A \in SUBSET Source
    BY <2>1, Before
  <2>3. IsFiniteSet(B) /\ Counted(m, A) /\ Counted(m, B)
    BY <2>2, SourceSums
  <2>4. \A k \in A : m[k] <= m[k]
    BY <2>2 DEF Minutes
  <2> HIDE DEF A, B
  <2>5. Sum(m, A) <= Sum(m, B)
    BY <2>1, <2>3, <2>4, SumMono
  <2> QED BY <2>5 DEF A, B
<1>3. Sum(m, ((j + 1)..Grace) \cup {j}) = m[j] + Sum(m, (j + 1)..Grace)
  <2> DEFINE A == ((j + 1)..Grace) \cup {j}
  <2>1. A \in SUBSET Source /\ A \ {j} = (j + 1)..Grace /\ j \in A
    BY Before
  <2>2. IsFiniteSet(A) /\ Counted(m, A)
    BY <2>1, SourceSums
  <2> HIDE DEF A
  <2>3. Sum(m, A) = m[j] + Sum(m, A \ {j})
    BY <2>1, <2>2, SumRemove
  <2> QED BY <2>1, <2>3 DEF A
<1>4. m[i] \in Nat /\ m[j] \in Nat /\ Sum(m, (j + 1)..Grace) \in Nat /\ Sum(m, (i + 1)..Grace) \in Nat
  BY TrimAt
<1>5. tail - Sum(m, (i + 1)..Grace) <= 0
  BY <1>1, <1>2, <1>3, <1>4
<1> QED BY <1>5, TrimAt

LEMMA Wanted ==
    ASSUME NEW r \in Reservation
    PROVE  /\ MinutesNeeded[r] * Multiplier[r] \in Int
           /\ \A t \in Nat : t % Multiplier[r] \in Int
<1>1. MinutesNeeded[r] \in Nat /\ (Multiplier[r] = 1 \/ Multiplier[r] = 3)
  BY FundingAssumption DEF FundingAssumption
<1>2. CASE Multiplier[r] = 1
  BY <1>1, <1>2
<1>3. CASE Multiplier[r] = 3
  BY <1>1, <1>3
<1> QED BY <1>1, <1>2, <1>3

\* What a reservation is given is within what is free, the cheapest first.
LEMMA FundableBounded ==
    ASSUME NEW r \in Reservation, NEW m \in Minutes
    PROVE  /\ Fundable(r, m) \in Minutes
           /\ \A i \in Source : Fundable(r, m)[i] <= m[i]
           /\ \A i, j \in Source : i < j /\ Fundable(r, m)[j] > 0 => Fundable(r, m)[i] = m[i]
<1> DEFINE want  == MinutesNeeded[r] * Multiplier[r]
           drawn == Draw(m, want)
           tail  == Total(drawn) % Multiplier[r]
           kept  == Trim(drawn, tail)
<1>1. want \in Int
  BY Wanted
<1> HIDE DEF want
<1>2. drawn \in Minutes /\ \A i \in Source : drawn[i] <= m[i]
  BY <1>1, DrawBounded
<1>3. \A i, j \in Source : i < j /\ drawn[j] > 0 => drawn[i] = m[i]
  BY <1>1, DrawInOrder
<1> HIDE DEF drawn
<1>4. tail \in Int
  BY <1>2, SourceSums, Wanted DEF Total
<1> HIDE DEF tail
<1>5. kept \in Minutes /\ \A i \in Source : kept[i] <= drawn[i]
  BY <1>2, <1>4, TrimBounded
<1>6. \A i, j \in Source : i < j /\ kept[j] > 0 => kept[i] = drawn[i]
  BY <1>2, <1>4, TrimInOrder
<1> HIDE DEF kept
<1>7. Fundable(r, m) = kept
  BY DEF Fundable, kept, tail, drawn, want
<1>8. \A i \in Source : m[i] \in Nat /\ drawn[i] \in Nat /\ kept[i] \in Nat
  BY <1>2, <1>5 DEF Minutes
<1> QED BY <1>2, <1>3, <1>5, <1>6, <1>7, <1>8
-----------------------------------------------------------------------------
(***************************************************************************)
(* The sums over reservations                                              *)
(***************************************************************************)
Rows == [Reservation -> [state : States, cycle : Int, held : Minutes, charge : Minutes,
                         stopped : BOOLEAN, resets : Int, failed : BOOLEAN, late : BOOLEAN]]

HeldOf(rv, S, i)    == Sum([q \in S |-> rv[q].held[i]], S)
ChargedOf(rv, S, i) == Sum([q \in S |-> rv[q].charge[i]], S)

LEMMA ReservationSets == ASSUME NEW S \in SUBSET Reservation PROVE IsFiniteSet(S)
<1>1. Last \in Int /\ Reservation = 1..Last
  BY FundingAssumption DEF FundingAssumption, Reservation
<1>2. IsFiniteSet(1..Last)
  BY <1>1, FS_Interval
<1> QED BY <1>1, <1>2, FS_Subset

LEMMA RowSums ==
    ASSUME NEW rv \in Rows, NEW S \in SUBSET Reservation, NEW i \in Source
    PROVE  HeldOf(rv, S, i) \in Nat /\ ChargedOf(rv, S, i) \in Nat
<1>1. Counted([q \in S |-> rv[q].held[i]], S) /\ Counted([q \in S |-> rv[q].charge[i]], S)
  BY DEF Rows, Counted, Minutes
<1> QED BY <1>1, ReservationSets, SumNat DEF HeldOf, ChargedOf

\* One reservation and the others.
LEMMA RowSplit ==
    ASSUME NEW rv \in Rows, NEW S \in SUBSET Reservation, NEW i \in Source, NEW r \in S
    PROVE  /\ HeldOf(rv, S, i) = rv[r].held[i] + HeldOf(rv, S \ {r}, i)
           /\ ChargedOf(rv, S, i) = rv[r].charge[i] + ChargedOf(rv, S \ {r}, i)
<1> DEFINE h(T) == [q \in T |-> rv[q].held[i]]
           c(T) == [q \in T |-> rv[q].charge[i]]
<1>1. \A T \in SUBSET S : Counted(h(S), T) /\ Counted(c(S), T) /\ IsFiniteSet(T)
  BY ReservationSets DEF Rows, Counted, Minutes
<1>2. h(S)[r] = rv[r].held[i] /\ c(S)[r] = rv[r].charge[i]
  OBVIOUS
<1>3. /\ \A q \in S \ {r} : h(S)[q] = h(S \ {r})[q]
      /\ \A q \in S \ {r} : c(S)[q] = c(S \ {r})[q]
  OBVIOUS
<1> HIDE DEF h, c
<1>4. S \in SUBSET S /\ S \ {r} \in SUBSET S
  OBVIOUS
<1>5. Sum(h(S), S) = h(S)[r] + Sum(h(S), S \ {r}) /\ Sum(c(S), S) = c(S)[r] + Sum(c(S), S \ {r})
  BY <1>1, <1>4, SumRemove
<1>6. Sum(h(S), S \ {r}) = Sum(h(S \ {r}), S \ {r})
  BY <1>1, <1>3, <1>4, SumSame
<1>7. Sum(c(S), S \ {r}) = Sum(c(S \ {r}), S \ {r})
  BY <1>1, <1>3, <1>4, SumSame
<1> QED BY <1>2, <1>5, <1>6, <1>7 DEF HeldOf, ChargedOf, h, c

\* The sums over rows that do not change do not change.
LEMMA RowsKept ==
    ASSUME NEW rv \in Rows, NEW rw, NEW S \in SUBSET Reservation, NEW i \in Source,
           \A q \in S : rw[q] = rv[q]
    PROVE  HeldOf(rw, S, i) = HeldOf(rv, S, i) /\ ChargedOf(rw, S, i) = ChargedOf(rv, S, i)
<1>1. /\ [q \in S |-> rw[q].held[i]] = [q \in S |-> rv[q].held[i]]
      /\ [q \in S |-> rw[q].charge[i]] = [q \in S |-> rv[q].charge[i]]
  OBVIOUS
<1> QED BY <1>1 DEF HeldOf, ChargedOf

LEMMA FewerRows ==
    ASSUME NEW rv \in Rows, NEW S \in SUBSET Reservation, NEW T \in SUBSET S, NEW i \in Source
    PROVE  HeldOf(rv, T, i) <= HeldOf(rv, S, i) /\ ChargedOf(rv, T, i) <= ChargedOf(rv, S, i)
<1>1. /\ Counted([q \in T |-> rv[q].held[i]], T) /\ Counted([q \in S |-> rv[q].held[i]], S)
      /\ Counted([q \in T |-> rv[q].charge[i]], T) /\ Counted([q \in S |-> rv[q].charge[i]], S)
  BY DEF Rows, Counted, Minutes
<1>2. /\ \A q \in T : [p \in T |-> rv[p].held[i]][q] <= [p \in S |-> rv[p].held[i]][q]
      /\ \A q \in T : [p \in T |-> rv[p].charge[i]][q] <= [p \in S |-> rv[p].charge[i]][q]
  BY DEF Rows, Minutes
<1> QED BY <1>1, <1>2, ReservationSets, SumMono DEF HeldOf, ChargedOf

LEMMA NoRows == ASSUME NEW rv, NEW i PROVE HeldOf(rv, {}, i) = 0 /\ ChargedOf(rv, {}, i) = 0
BY SumEmpty DEF HeldOf, ChargedOf
=============================================================================

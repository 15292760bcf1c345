--------------------------- MODULE SelectionProofs ---------------------------
(***************************************************************************)
(* Selections keep the order, and each entry as often as it was there.     *)
(***************************************************************************)
EXTENDS Selections, Functions, FiniteSetTheorems, WellFoundedInduction, TLAPS

(* Every set of natural numbers that is not empty has a smallest element.  *)
LEMMA NatMin ==
  ASSUME NEW T \in SUBSET Nat, T # {}
  PROVE \E n \in T : \A k \in T : n <= k
  <1>1. \E x \in T : \A y \in T : ~ (<<y, x>> \in OpToRel(<, Nat))
    BY NatLessThanWellFounded, WFMin
  <1>2. PICK x \in T : \A y \in T : ~ (<<y, x>> \in OpToRel(<, Nat))
    BY <1>1
  <1>3. \A y \in T : ~(y < x)
    BY <1>2 DEF OpToRel
  <1> QED
    BY <1>3

-----------------------------------------------------------------------------
(* The positions of a sequence are finitely many.                          *)
LEMMA PositionsFinite ==
  ASSUME NEW n \in Nat, NEW I \in SUBSET (1..n)
  PROVE IsFiniteSet(I) /\ Cardinality(I) \in Nat
  <1>1. IsFiniteSet(1..n)
    BY FS_Interval
  <1>2. IsFiniteSet(I)
    BY <1>1, FS_Subset
  <1> QED
    BY <1>2, FS_CardinalityType

LEMMA RankRises ==
  ASSUME NEW n \in Nat, NEW I \in SUBSET (1..n), NEW i \in I, NEW j \in I
  PROVE /\ Rank(I, i) \in 1..Cardinality(I)
        /\ i < j => Rank(I, i) < Rank(I, j)
  <1> DEFINE Upto(k) == {x \in I : x <= k}
  <1>1. \A k \in I : /\ Upto(k) \in SUBSET I /\ IsFiniteSet(Upto(k)) /\ Cardinality(Upto(k)) \in Nat
                     /\ Cardinality(Upto(k)) <= Cardinality(I)
    BY PositionsFinite, FS_Subset, FS_CardinalityType
  <1>2. Cardinality(Upto(i)) # 0
    <2>1. i \in Upto(i)
      OBVIOUS
    <2> QED
      BY <2>1, <1>1, FS_EmptySet
  <1>3. ASSUME i < j PROVE Cardinality(Upto(i)) < Cardinality(Upto(j))
    <2>1. Upto(i) \in SUBSET Upto(j)
      <3>1. \A k \in I : k \in Int
        OBVIOUS
      <3>2. \A k \in I : k <= i => k <= j
        BY <3>1, <1>3
      <3> QED
        BY <3>2
    <2>2. j \in Upto(j) /\ j \notin Upto(i)
      BY <1>3
    <2>3. Cardinality(Upto(i)) <= Cardinality(Upto(j)) /\ Cardinality(Upto(i)) # Cardinality(Upto(j))
      BY <2>1, <2>2, <1>1, FS_Subset
    <2> QED
      BY <2>3, <1>1
  <1>4. Cardinality(I) \in Nat
    BY PositionsFinite
  <1> QED
    BY <1>1, <1>2, <1>3, <1>4 DEF Rank

(* Each position has a rank of its own, and each rank a position.          *)
LEMMA RankOnto ==
  ASSUME NEW n \in Nat, NEW I \in SUBSET (1..n), NEW k \in 1..Cardinality(I)
  PROVE \E i \in I : Rank(I, i) = k
  <1> DEFINE rank == [i \in I |-> Rank(I, i)]
             Ranks == 1..Cardinality(I)
  <1>1. IsFiniteSet(I) /\ Cardinality(I) \in Nat
    BY PositionsFinite
  <1>2. rank \in Injection(I, Ranks)
    <2>1. rank \in [I -> Ranks]
      BY RankRises
    <2>2. ASSUME NEW i \in I, NEW j \in I, i # j PROVE rank[i] # rank[j]
      <3>1. i < j \/ j < i
        BY <2>2
      <3>2. Rank(I, i) \in 1..Cardinality(I) /\ Rank(I, j) \in 1..Cardinality(I)
        BY RankRises
      <3>3. i < j => Rank(I, i) < Rank(I, j)
        BY RankRises
      <3>4. j < i => Rank(I, j) < Rank(I, i)
        BY RankRises
      <3> QED
        BY <3>1, <3>2, <3>3, <3>4
    <2>3. IsInjective(rank)
      BY <2>2 DEF IsInjective
    <2> QED
      BY <2>1, <2>3 DEF Injection, IsInjective
  <1>3. IsFiniteSet(Ranks) /\ Cardinality(Ranks) = Cardinality(I)
    BY <1>1, FS_Interval
  <1>4. rank \in Surjection(I, Ranks)
    <2> HIDE DEF rank, Ranks
    <2> QED
      BY <1>1, <1>2, <1>3, FS_Injection
  <1> QED
    BY <1>4 DEF Surjection

LEMMA AtRankFits ==
  ASSUME NEW n \in Nat, NEW I \in SUBSET (1..n), NEW k \in 1..Cardinality(I)
  PROVE AtRank(I, k) \in I /\ Rank(I, AtRank(I, k)) = k
  BY RankOnto DEF AtRank

LEMMA AtRankOfRank ==
  ASSUME NEW n \in Nat, NEW I \in SUBSET (1..n), NEW i \in I
  PROVE AtRank(I, Rank(I, i)) = i
  <1> DEFINE j == AtRank(I, Rank(I, i))
  <1>1. Rank(I, i) \in 1..Cardinality(I)
    BY RankRises
  <1>2. j \in I /\ Rank(I, j) = Rank(I, i)
    BY <1>1, AtRankFits
  <1> HIDE DEF j
  <1>3. i < j => Rank(I, i) < Rank(I, j)
    BY <1>2, RankRises
  <1>4. j < i => Rank(I, j) < Rank(I, i)
    BY <1>2, RankRises
  <1>5. i \in Int /\ j \in Int
    BY <1>2
  <1> QED
    BY <1>1, <1>2, <1>3, <1>4, <1>5 DEF j
-----------------------------------------------------------------------------
(* What is selected is a sequence of the entries at the given positions... *)
LEMMA SelectedIsSeq ==
  ASSUME NEW S, NEW s \in Seq(S), NEW I \in SUBSET DOMAIN s
  PROVE /\ Selected(s, I) \in Seq(S)
        /\ Len(Selected(s, I)) = Cardinality(I) /\ Cardinality(I) \in Nat
        /\ \A k \in 1..Cardinality(I) : AtRank(I, k) \in I /\ Selected(s, I)[k] = s[AtRank(I, k)]
  <1>1. I \in SUBSET (1..Len(s)) /\ Len(s) \in Nat
    OBVIOUS
  <1>2. Cardinality(I) \in Nat
    BY <1>1, PositionsFinite
  <1>3. \A k \in 1..Cardinality(I) : AtRank(I, k) \in I
    BY <1>1, AtRankFits
  <1>4. \A i \in I : s[i] \in S
    BY <1>1
  <1> QED
    BY <1>2, <1>3, <1>4 DEF Selected

(* ... in the order they had.                                              *)
LEMMA SelectedInOrder ==
  ASSUME NEW S, NEW s \in Seq(S), NEW I \in SUBSET DOMAIN s,
         NEW k \in 1..Cardinality(I), NEW l \in 1..Cardinality(I), k < l
  PROVE AtRank(I, k) < AtRank(I, l)
  <1>1. I \in SUBSET (1..Len(s)) /\ Len(s) \in Nat
    OBVIOUS
  <1>2. /\ AtRank(I, k) \in I /\ Rank(I, AtRank(I, k)) = k
        /\ AtRank(I, l) \in I /\ Rank(I, AtRank(I, l)) = l
    BY <1>1, AtRankFits
  <1>3. AtRank(I, k) \in Int /\ AtRank(I, l) \in Int
    BY <1>1, <1>2
  <1>4. AtRank(I, l) < AtRank(I, k) => l < k
    BY <1>1, <1>2, RankRises
  <1>5. AtRank(I, l) # AtRank(I, k)
    BY <1>2
  <1>6. k \in Int /\ l \in Int
    BY <1>1, PositionsFinite
  <1> QED
    BY <1>3, <1>4, <1>5, <1>6

(* An entry is there as often as it was at these positions.                *)
LEMMA SelectedCounts ==
  ASSUME NEW S, NEW s \in Seq(S), NEW I \in SUBSET DOMAIN s, NEW m
  PROVE Cardinality(PositionsOf(Selected(s, I), m)) = Cardinality(PositionsOf(s, m) \cap I)
  <1> DEFINE P == PositionsOf(s, m) \cap I
             Q == PositionsOf(Selected(s, I), m)
             at == [k \in Q |-> AtRank(I, k)]
  <1>1. I \in SUBSET (1..Len(s)) /\ Len(s) \in Nat
    OBVIOUS
  <1>2. Cardinality(I) \in Nat /\ Selected(s, I) \in Seq(S) /\ Len(Selected(s, I)) = Cardinality(I)
    BY SelectedIsSeq
  <1>3. Q = {k \in 1..Cardinality(I) : s[AtRank(I, k)] = m}
    BY <1>2, SelectedIsSeq DEF PositionsOf
  <1>4. IsFiniteSet(Q)
    BY <1>3, <1>2, PositionsFinite
  <1>5. at \in [Q -> P]
    BY <1>3, <1>1, AtRankFits DEF PositionsOf
  <1>6. ASSUME NEW k \in Q, NEW l \in Q, at[k] = at[l] PROVE k = l
    BY <1>3, <1>6, <1>1, AtRankFits
  <1>7. ASSUME NEW i \in P PROVE \E k \in Q : at[k] = i
    <2>1. Rank(I, i) \in 1..Cardinality(I) /\ AtRank(I, Rank(I, i)) = i
      BY <1>1, <1>7, RankRises, AtRankOfRank
    <2>2. Rank(I, i) \in Q
      BY <2>1, <1>3, <1>7 DEF PositionsOf
    <2> QED
      BY <2>1, <2>2
  <1>8. at \in Bijection(Q, P)
    <2> HIDE DEF P, Q
    <2>1. at \in Injection(Q, P)
      BY <1>5, <1>6 DEF Injection, IsInjective
    <2>2. at \in Surjection(Q, P)
      BY <1>5, <1>7 DEF Surjection
    <2> QED
      BY <2>1, <2>2 DEF Bijection
  <1> HIDE DEF P, Q, at
  <1>9. ExistsBijection(Q, P)
    BY <1>8 DEF ExistsBijection
  <1> QED
    BY <1>4, <1>9, FS_Bijection DEF P, Q

-----------------------------------------------------------------------------
(* How often an entry is in a list, after it was appended and removed.     *)
LEMMA CountType ==
  ASSUME NEW S, NEW s \in Seq(S), NEW P \in SUBSET DOMAIN s
  PROVE IsFiniteSet(P) /\ Cardinality(P) \in Nat
  <1>1. Len(s) \in Nat /\ P \in SUBSET (1..Len(s))
    OBVIOUS
  <1> QED
    BY <1>1, PositionsFinite

LEMMA CountEmpty == ASSUME NEW m PROVE PositionsOf(<<>>, m) = {} /\ Cardinality(PositionsOf(<<>>, m)) = 0
  <1>1. PositionsOf(<<>>, m) = {}
    BY DEF PositionsOf
  <1> QED
    BY <1>1, FS_EmptySet

LEMMA CountAppend ==
  ASSUME NEW S, NEW s \in Seq(S), NEW x \in S, NEW m
  PROVE Cardinality(PositionsOf(Append(s, x), m)) =
          Cardinality(PositionsOf(s, m)) + IF x = m THEN 1 ELSE 0
  <1> DEFINE n == Len(s) + 1
             P == PositionsOf(s, m)
  <1>1. PositionsOf(Append(s, x), m) = P \cup IF x = m THEN {n} ELSE {}
    BY DEF PositionsOf
  <1>2. n \notin P
    BY DEF PositionsOf
  <1>3. IsFiniteSet(P) /\ Cardinality(P) \in Nat
    BY CountType DEF PositionsOf
  <1> HIDE DEF P, n
  <1>4. CASE x = m
    <2>1. Cardinality(P \cup {n}) = Cardinality(P) + 1
      BY <1>2, <1>3, FS_AddElement
    <2> QED
      BY <2>1, <1>1, <1>4 DEF P
  <1>5. CASE x # m
    BY <1>1, <1>3, <1>5 DEF P
  <1> QED
    BY <1>4, <1>5

LEMMA WithoutCounts ==
  ASSUME NEW S, NEW s \in Seq(S), NEW x, NEW m
  PROVE /\ Without(s, x) \in Seq(S)
        /\ Cardinality(PositionsOf(Without(s, x), m)) =
             IF m = x THEN 0 ELSE Cardinality(PositionsOf(s, m))
        /\ s = <<>> => Without(s, x) = <<>>
  <1> DEFINE I == DOMAIN s \ PositionsOf(s, x)
  <1>1. /\ Selected(s, I) \in Seq(S)
        /\ Cardinality(PositionsOf(Selected(s, I), m)) = Cardinality(PositionsOf(s, m) \cap I)
    <2>1. I \in SUBSET DOMAIN s
      OBVIOUS
    <2> HIDE DEF I
    <2> QED
      BY <2>1, SelectedIsSeq, SelectedCounts
  <1>2. ASSUME m = x PROVE Cardinality(PositionsOf(s, m) \cap I) = 0
    <2>1. PositionsOf(s, m) \cap I = {}
      BY <1>2
    <2> QED
      BY <2>1, FS_EmptySet
  <1>3. ASSUME m # x PROVE PositionsOf(s, m) \cap I = PositionsOf(s, m)
    BY <1>3 DEF PositionsOf
  <1>4. ASSUME s = <<>> PROVE Without(s, x) = <<>>
    <2>1. I = {} /\ I \in SUBSET DOMAIN s
      BY <1>4
    <2>2. Len(Selected(s, I)) = 0
      <3> HIDE DEF I
      <3> QED
        BY <2>1, SelectedIsSeq, FS_EmptySet
    <2> QED
      BY <2>2, <1>1 DEF Without
  <1> QED
    BY <1>1, <1>2, <1>3, <1>4 DEF Without
=============================================================================

----------------------------- MODULE Selections -----------------------------
(***************************************************************************)
(* What is left of a list after some of its entries were erased: those at  *)
(* the positions I, in their order.  SelectSeq says the same with a        *)
(* recursion, of which the provers can make nothing.                       *)
(***************************************************************************)
EXTENDS Integers, Sequences, FiniteSets

Rank(I, i) == Cardinality({j \in I : j <= i})

AtRank(I, k) == CHOOSE i \in I : Rank(I, i) = k

Selected(s, I) == [k \in 1..Cardinality(I) |-> s[AtRank(I, k)]]

PositionsOf(s, m) == {i \in DOMAIN s : s[i] = m}

Without(s, m) == Selected(s, DOMAIN s \ PositionsOf(s, m))
=============================================================================

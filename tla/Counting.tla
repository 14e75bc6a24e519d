------------------------------- MODULE Counting -------------------------------
(***************************************************************************)
(* Induction over the numbers of a set.  The library states induction for  *)
(* an operator, which the installed provers cannot instantiate; a set of   *)
(* numbers is a value.                                                     *)
(***************************************************************************)
EXTENDS Naturals, WellFoundedInduction, TLAPS

\* A set of numbers that is not empty has a least one.
LEMMA LeastNatural ==
  ASSUME NEW K \in SUBSET Nat, K # {}
  PROVE  \E m \in K : \A k \in K : m <= k
<1> DEFINE R == OpToRel(<, Nat)
<1>1. IsWellFoundedOn(R, Nat)
  BY NatLessThanWellFounded
<1>2. \A x, y \in Nat : x < y => <<x, y>> \in R
  BY DEF OpToRel
<1> HIDE DEF R
<1>3. PICK m \in K : \A y \in K : ~ (<<y, m>> \in R)
  BY <1>1, WFMin
<1>4. ASSUME NEW k \in K PROVE m <= k
  <2>1. m \in Nat /\ k \in Nat /\ ~(k < m)
    BY <1>2, <1>3
  <2> QED BY <2>1
<1> QED BY <1>4

\* Induction for a set of numbers.
LEMMA UpTo ==
  ASSUME NEW N \in Nat, NEW K, 0 \in K, \A n \in 0..N : n + 1 \in 0..N /\ n \in K => n + 1 \in K
  PROVE  0..N \subseteq K
<1> SUFFICES ASSUME (0..N) \ K # {} PROVE FALSE
  OBVIOUS
<1>1. PICK m \in (0..N) \ K : \A k \in (0..N) \ K : m <= k
  <2> DEFINE J == (0..N) \ K
  <2>1. J \in SUBSET Nat /\ J # {}
    OBVIOUS
  <2> HIDE DEF J
  <2>2. \E m \in J : \A k \in J : m <= k
    BY <2>1, LeastNatural
  <2> QED BY <2>2 DEF J
<1>2. m # 0 /\ m - 1 \in 0..N /\ m - 1 \in K /\ (m - 1) + 1 = m
  BY <1>1
<1> QED BY <1>1, <1>2

===============================================================================

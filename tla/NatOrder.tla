------------------------------ MODULE NatOrder ------------------------------
(***************************************************************************)
(* The order of the natural numbers: least and greatest elements of sets,  *)
(* for the heights, cursors and positions of the other proofs.             *)
(***************************************************************************)
EXTENDS Integers, WellFoundedInduction, TLAPS

\* The order as a set of pairs, as the library's induction wants it.
Less == OpToRel(<, Nat)

\* What the library's relation says.
LEMMA LessDef == \A m, n \in Nat : <<m, n>> \in Less <=> m < n
BY SMT DEF Less, OpToRel

\* A set of natural numbers that is not empty has a least element.
LEMMA Least ==
  ASSUME NEW S \in SUBSET Nat, S # {}
  PROVE  \E m \in S : \A k \in S : m <= k
<1>1. IsWellFoundedOn(Less, Nat)
  BY NatLessThanWellFounded, Zenon DEF Less
<1>2. PICK m \in S : \A y \in S : ~ (<<y, m>> \in Less)
  BY <1>1, WFMin, Zenon
<1>3. ASSUME NEW k \in S PROVE m <= k
  <2>1. ~ (k < m)
    BY <1>2, LessDef
  <2> QED
    BY <2>1
<1> QED
  BY <1>3

\* A bounded one also has a greatest.
LEMMA Greatest ==
  ASSUME NEW n \in Nat, NEW S \in SUBSET (0..n), S # {}
  PROVE  \E m \in S : \A k \in S : k <= m
<1> DEFINE T == {k \in Nat : n - k \in S}
<1>1. T \in SUBSET Nat
  OBVIOUS
<1>2. T # {}
  <2>1. PICK k \in S : TRUE
    OBVIOUS
  <2>2. n - k \in T
    BY <2>1
  <2> QED
    BY <2>2
<1>3. PICK t \in T : \A k \in T : t <= k
  BY <1>1, <1>2, Least
<1>4. ASSUME NEW k \in S PROVE k <= n - t
  <2>1. n - k \in T
    OBVIOUS
  <2> QED
    BY <1>3, <2>1
<1> QED
  BY <1>3, <1>4
=============================================================================

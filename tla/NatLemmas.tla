------------------------------ MODULE NatLemmas ------------------------------
(***************************************************************************)
(* Facts about sets of naturals and about counting that the proofs of      *)
(* several components cite.                                                *)
(***************************************************************************)
EXTENDS Integers, FiniteSetTheorems, TLAPS

(***************************************************************************)
(* Every nonempty set of naturals has a least element, from the library's  *)
(* theorem that finite sets are well-founded under strict inclusion.       *)
(***************************************************************************)
LEMMA LeastNat ==
  ASSUME NEW S \in SUBSET Nat, S # {}
  PROVE  \E m \in S : \A n \in S : m <= n
<1> DEFINE R == StrictSubsetOrdering(Nat)
           U == FiniteSubsetsOf(Nat)
           T == {0..n : n \in S}
<1>1. IsWellFoundedOn(R, U)
  BY FS_StrictSubsetOrderingWellFounded
<1>2. T \subseteq U /\ T # {}
  <2>1. ASSUME NEW n \in S PROVE 0..n \in U
    BY FS_Interval DEF FiniteSubsetsOf
  <2> QED BY <2>1
<1> HIDE DEF R, U, T
<1>3. PICK x \in T : \A y \in T : ~ (<<y, x>> \in R)
  BY <1>1, <1>2, WFMin
<1> USE DEF T, R
<1>4. PICK m \in S : x = 0..m
  OBVIOUS
<1>5. ASSUME NEW n \in S PROVE m <= n
  <2>1. SUFFICES ASSUME n < m PROVE FALSE
    OBVIOUS
  <2>2. <<0..n, 0..m>> \notin StrictSubsetOrdering(Nat)
    BY <1>3, <1>4
  <2>3. 0..n \subseteq 0..m /\ m \in 0..m /\ m \notin 0..n /\ 0..m \subseteq Nat
    BY <2>1
  <2> QED BY <2>2, <2>3 DEF StrictSubsetOrdering
<1> QED BY <1>5

\* A set of naturals with a bound has a greatest element.
LEMMA GreatestNat ==
  ASSUME NEW N \in Nat, NEW S \in SUBSET (0..N), S # {}
  PROVE  \E m \in S : \A n \in S : n <= m
<1> DEFINE F == {N - n : n \in S}
<1>1. F \in SUBSET Nat /\ F # {}
  <2>1. ASSUME NEW n \in S PROVE N - n \in Nat
    <3>1. n \in 0..N
      OBVIOUS
    <3> QED BY <3>1
  <2> QED BY <2>1
<1>2. PICK m \in F : \A n \in F : m <= n
  <2> HIDE DEF F
  <2> QED BY <1>1, LeastNat
<1>3. PICK k \in S : m = N - k
  OBVIOUS
<1>4. ASSUME NEW n \in S PROVE n <= k
  <2>1. N - k <= N - n
    BY <1>2, <1>3
  <2> QED BY <2>1
<1> QED BY <1>4

\* One more of something that costs t costs t more, and more of it no less.
LEMMA OneMore ==
  ASSUME NEW n \in Nat, NEW t \in Nat
  PROVE  n * t \in Nat /\ (n + 1) * t = n * t + t
OBVIOUS

\* Multiplying by a natural keeps the order.
LEMMA MoreCostsMore ==
  ASSUME NEW n \in Nat, NEW m \in Nat, NEW t \in Nat, n <= m
  PROVE  n * t <= m * t
<1>1. PICK d \in Nat : m = n + d
  <2>1. m - n \in Nat /\ m = n + (m - n)
    OBVIOUS
  <2> QED BY <2>1
<1>2. (n + d) * t = n * t + d * t /\ n * t \in Nat /\ d * t \in Nat
  OBVIOUS
<1> QED BY <1>1, <1>2
============================================================================

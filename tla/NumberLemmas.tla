---------------------------- MODULE NumberLemmas ----------------------------
(***************************************************************************)
(* Induction, least and greatest elements for sets of numbers, without an  *)
(* operator for a parameter: the set to be covered, or the finite function *)
(* whose values are bounded, is what a lemma is about. The proofs of every *)
(* component that counts or orders cite them.                              *)
(***************************************************************************)
EXTENDS Integers, FiniteSetsExt, WellFoundedInduction, TLAPS

\* Induction over a set of numbers.
LEMMA SetInduction ==
  ASSUME NEW S, 0 \in S, \A n \in Nat : n \in S => n + 1 \in S
  PROVE  Nat \subseteq S
<1> DEFINE T == Nat \ S
<1> SUFFICES ASSUME T # {} PROVE FALSE
  OBVIOUS
<1>1. PICK x \in T : \A y \in T : ~(<<y, x>> \in OpToRel(<, Nat))
  BY NatLessThanWellFounded, WFMin
<1>2. x \in Nat /\ x # 0
  OBVIOUS
<1>3. x - 1 \in Nat /\ <<x - 1, x>> \in OpToRel(<, Nat)
  BY <1>2 DEF OpToRel
<1>4. x - 1 \in S
  BY <1>1, <1>3
<1>5. (x - 1) + 1 \in S
  BY <1>3, <1>4
<1> QED BY <1>2, <1>5

\* A set of natural numbers has a least one.
LEMMA LeastNumber ==
  ASSUME NEW S \in SUBSET Nat, S # {}
  PROVE  \E m \in S : \A k \in S : m <= k
<1>1. PICK m \in S : \A k \in S : ~(<<k, m>> \in OpToRel(<, Nat))
  BY NatLessThanWellFounded, WFMin
<1>2. ASSUME NEW k \in S, k < m PROVE FALSE
  <2>1. <<k, m>> \in OpToRel(<, Nat)
    BY <1>2 DEF OpToRel
  <2> QED BY <1>1, <2>1
<1> QED BY <1>2

\* Finitely many integers have an upper bound.
LEMMA FiniteImageBounded ==
  ASSUME NEW n \in Nat, NEW f \in [1..n -> Int]
  PROVE  \E b \in Nat : \A i \in 1..n : f[i] <= b
<1> DEFINE S == {m \in Nat : m <= n => \E b \in Nat : \A i \in 1..m : f[i] <= b}
<1>1. 0 \in S
  OBVIOUS
<1>2. ASSUME NEW m \in Nat, m \in S PROVE m + 1 \in S
  <2>1. SUFFICES ASSUME m + 1 <= n
        PROVE  \E b \in Nat : \A i \in 1..(m + 1) : f[i] <= b
    OBVIOUS
  <2>2. PICK b \in Nat : \A i \in 1..m : f[i] <= b
    BY <1>2, <2>1
  <2>3. f[m + 1] \in Int
    BY <2>1
  <2>4. CASE f[m + 1] <= b
    <3>1. \A i \in 1..(m + 1) : f[i] <= b
      BY <2>2, <2>4
    <3> QED BY <3>1
  <2>5. CASE f[m + 1] > b
    <3>1. f[m + 1] \in Nat /\ \A i \in 1..(m + 1) : f[i] <= f[m + 1]
      BY <2>1, <2>2, <2>3, <2>5
    <3> QED BY <3>1
  <2> QED BY <2>3, <2>4, <2>5
<1> HIDE DEF S
<1>3. n \in S
  BY <1>1, <1>2, SetInduction
<1> QED BY <1>3 DEF S

\* A nonempty set of integers with an upper bound has a maximum, and Max is it.
LEMMA MaxOfBounded ==
  ASSUME NEW S \in SUBSET Int, S # {}, NEW b \in Int, \A x \in S : x <= b
  PROVE  Max(S) \in S /\ \A x \in S : x <= Max(S)
<1> DEFINE T == {n \in Nat : b - n \in S}
<1>1. PICK x \in S : TRUE
  OBVIOUS
<1>2. b - x \in T
  BY <1>1
<1>3. PICK m \in T : \A y \in T : m <= y
  BY <1>2, LeastNumber
<1>4. ASSUME NEW y \in S PROVE b - m >= y
  <2>1. y \in Int /\ b - y \in Nat /\ b - (b - y) = y
    BY <1>4
  <2>2. b - y \in T
    BY <1>4, <2>1
  <2>3. m <= b - y
    BY <1>3, <2>2
  <2> QED BY <2>1, <2>3
<1>5. b - m \in S
  BY <1>3
<1>6. \E y \in S : \A z \in S : y >= z
  BY <1>4, <1>5
<1>7. Max(S) \in S /\ \A z \in S : Max(S) >= z
  BY <1>6 DEF Max
<1> QED BY <1>7

\* The maximum of a default and finitely many integers.
LEMMA MaxOfImage ==
  ASSUME NEW n \in Nat, NEW f \in [1..n -> Int], NEW d \in Int, NEW S,
         S = {d} \cup {f[i] : i \in 1..n}
  PROVE  Max(S) \in S /\ \A x \in S : x <= Max(S)
<1>1. PICK b \in Nat : \A i \in 1..n : f[i] <= b
  BY FiniteImageBounded
<1>2. S \in SUBSET Int /\ S # {}
  OBVIOUS
<1>3. \E c \in Int : \A x \in S : x <= c
  <2>1. CASE d <= b
    <3>1. \A x \in S : x <= b
      BY <1>1, <2>1
    <3> QED BY <3>1
  <2>2. CASE d > b
    <3>1. \A i \in 1..n : f[i] \in Int /\ f[i] <= d
      BY <1>1, <2>2
    <3> QED BY <3>1
  <2> QED BY <2>1, <2>2
<1> QED BY <1>2, <1>3, MaxOfBounded
=============================================================================

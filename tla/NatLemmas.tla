------------------------------ MODULE NatLemmas -----------------------------
(***************************************************************************)
(* What a counter that wraps runs through, where the words of a row of     *)
(* equally wide arguments lie, and induction over the naturals, with a set *)
(* in the place of the predicate.                                          *)
(***************************************************************************)
EXTENDS FiniteSetTheorems, TLAPS

LEMMA ProductOrder ==
  ASSUME NEW m \in Nat \ {0}, NEW p \in Nat, NEW q \in Nat, p < q
  PROVE  m * q - m * p >= m
<1>1. (p + 1) * m <= q * m
  OBVIOUS
<1> QED BY <1>1

LEMMA RemainderUnique ==
  ASSUME NEW m \in Nat \ {0}, NEW q \in Nat, NEW r \in 0..(m - 1)
  PROVE  (m * q + r) % m = r /\ (m * q + r) \div m = q
<1> DEFINE n == m * q + r  p == n \div m  s == n % m
<1>1. n \in Nat
  <2>1. m * q \in Nat
    OBVIOUS
  <2> QED BY <2>1
<1>2. p \in Nat /\ s \in 0..(m - 1) /\ n = m * p + s
  <2> HIDE DEF n
  <2> QED BY <1>1
<1>3. m * q - m * p = s - r
  <2> HIDE DEF p, s
  <2>1. m * q \in Int /\ m * p \in Int
    BY <1>2
  <2> QED BY <1>2, <2>1
<1> HIDE DEF p, s
<1>4. ~(p < q)
  BY <1>2, <1>3, ProductOrder
<1>5. ~(q < p)
  <2>1. m * q \in Int /\ m * p \in Int
    BY <1>2
  <2>2. q < p => m * p - m * q >= m
    BY <1>2, ProductOrder
  <2> QED BY <1>2, <1>3, <2>1, <2>2
<1>6. p = q
  BY <1>2, <1>4, <1>5
<1>7. s = r
  BY <1>2, <1>3, <1>6
<1> QED BY <1>6, <1>7 DEF p, s

LEMMA RemainderStep ==
  ASSUME NEW m \in Nat \ {0}, NEW n \in Nat
  PROVE  /\ n % m \in 0..(m - 1)
         /\ (n + 1) % m = IF (n % m) + 1 = m THEN 0 ELSE (n % m) + 1
<1> DEFINE q == n \div m  r == n % m
<1>1. q \in Nat /\ r \in 0..(m - 1) /\ n = m * q + r
  OBVIOUS
<1> HIDE DEF q, r
<1>2. CASE r + 1 = m
  <2>1. n + 1 = m * (q + 1) + 0
    BY <1>1, <1>2
  <2>2. (m * (q + 1) + 0) % m = 0
    BY <1>1, RemainderUnique, q + 1 \in Nat, 0 \in 0..(m - 1)
  <2> QED BY <1>1, <1>2, <2>1, <2>2 DEF r
<1>3. CASE r + 1 # m
  <2>1. n + 1 = m * q + (r + 1) /\ r + 1 \in 0..(m - 1)
    BY <1>1, <1>3
  <2>2. (m * q + (r + 1)) % m = r + 1
    BY <1>1, <2>1, RemainderUnique
  <2> QED BY <1>1, <1>3, <2>1, <2>2 DEF r
<1> QED BY <1>2, <1>3

LEMMA RemaindersDiffer ==
  ASSUME NEW m \in Nat \ {0}, NEW a \in Nat, NEW b \in Nat, a < b, b - a < m
  PROVE  a % m # b % m
<1> DEFINE p == a \div m  q == b \div m
<1>1. p \in Nat /\ q \in Nat /\ a = m * p + (a % m) /\ b = m * q + (b % m)
  OBVIOUS
<1>2. SUFFICES ASSUME a % m = b % m PROVE FALSE
  OBVIOUS
<1> HIDE DEF p, q
<1>3. m * p \in Int /\ m * q \in Int /\ a % m \in Int
  BY <1>1
<1>4. m * q - m * p = b - a
  BY <1>1, <1>2, <1>3
<1>5. CASE p < q
  BY <1>1, <1>4, <1>5, ProductOrder
<1>6. CASE q <= p
  <2>1. q * m <= p * m
    BY <1>1, <1>6
  <2> QED BY <2>1, <1>1, <1>3, <1>4
<1> QED BY <1>1, <1>5, <1>6
-----------------------------------------------------------------------------
(* Induction, as a fact about sets: the provers take no operator for an     *)
(* induction hypothesis, but a set they do.                                 *)
LEMMA SetInduction ==
  ASSUME NEW S, 0 \in S, \A n \in Nat : n \in S => n + 1 \in S
  PROVE  Nat \subseteq S
<1> DEFINE Below(n) == 0..(n - 1)
           T == {Below(n) : n \in Nat \ S}
           R == StrictSubsetOrdering(Nat)
<1> SUFFICES ASSUME NEW m \in Nat \ S PROVE FALSE
  OBVIOUS
<1>1. \A n \in Nat : IsFiniteSet(Below(n)) /\ Below(n) \subseteq Nat
  BY FS_Interval
<1>2. T \subseteq FiniteSubsetsOf(Nat) /\ T # {}
  BY <1>1 DEF FiniteSubsetsOf
<1>3. PICK x \in T : \A y \in T : ~(<<y, x>> \in R)
  <2>1. IsWellFoundedOn(R, FiniteSubsetsOf(Nat))
    BY FS_StrictSubsetOrderingWellFounded
  <2> HIDE DEF T, R
  <2> QED BY <1>2, <2>1, WFMin
<1>4. PICK n \in Nat \ S : x = Below(n)
  OBVIOUS
<1>5. n - 1 \in Nat /\ (n - 1) + 1 = n
  BY <1>4
<1>6. Below(n - 1) \in T
  BY <1>4, <1>5
<1>7. <<Below(n - 1), Below(n)>> \in R
  <2> DEFINE a == Below(n - 1)  b == Below(n)
  <2>1. a \subseteq b /\ a # b
    <3>1. n - 1 \in b /\ n - 1 \notin a
      BY <1>5
    <3>2. a \subseteq b
      BY <1>5
    <3> HIDE DEF a, b
    <3> QED BY <3>1, <3>2
  <2>2. a \subseteq Nat /\ b \subseteq Nat
    BY <1>4, <1>5
  <2> HIDE DEF a, b
  <2>3. <<a, b>> \in StrictSubsetOrdering(Nat)
    BY <2>1, <2>2 DEF StrictSubsetOrdering
  <2> QED BY <2>3 DEF a, b
<1> QED BY <1>3, <1>4, <1>6, <1>7

(* The same up to a bound.                                                  *)
LEMMA BoundedInduction ==
  ASSUME NEW m \in Nat, NEW S, 0 \in S,
         \A n \in 0..(m - 1) : n \in S => n + 1 \in S
  PROVE  0..m \subseteq S
<1> DEFINE T == {n \in Nat : n <= m => n \in S}
<1>1. 0 \in T
  OBVIOUS
<1>2. \A n \in Nat : n \in T => n + 1 \in T
  OBVIOUS
<1>3. Nat \subseteq T
  <2> HIDE DEF T
  <2> QED BY <1>1, <1>2, SetInduction
<1> QED BY <1>3
==============================================================================

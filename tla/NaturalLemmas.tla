---------------------------- MODULE NaturalLemmas ----------------------------
(***************************************************************************)
(* What the proofs need of natural numbers and finite sets beyond the      *)
(* library: where an argument by induction is needed, it is made with the  *)
(* least counterexample.                                                   *)
(***************************************************************************)
EXTENDS Integers, FiniteSetTheorems, TLAPS

\* A set of natural numbers that is not empty has a least element: the least
\* of the intervals 0..x is the one of the least x.
LEMMA Least ==
    ASSUME NEW S, S \subseteq Nat, S # {}
    PROVE  \E x \in S : \A y \in S : x <= y
<1> DEFINE T == {0..x : x \in S}
           F == FiniteSubsetsOf(Nat)
           R == StrictSubsetOrdering(Nat)
<1>1. T \subseteq F /\ T # {}
  <2>1. \A x \in S : 0..x \in F
    BY FS_Interval DEF FiniteSubsetsOf
  <2> QED BY <2>1
<1>2. \E X \in T : \A Y \in T : <<Y, X>> \notin R
  <2> HIDE DEF T, F, R
  <2>1. IsWellFoundedOn(R, F)
    BY FS_StrictSubsetOrderingWellFounded DEF R, F
  <2> QED BY <1>1, <2>1, WFMin
<1>3. PICK x \in S : \A y \in S : <<0..y, 0..x>> \notin R
  BY <1>2
<1>4. ASSUME NEW y \in S, y < x PROVE FALSE
  <2>1. 0..y \in SUBSET Nat /\ 0..x \in SUBSET Nat /\ 0..y \subseteq 0..x
    BY <1>4
  <2>2. x \in 0..x /\ x \notin 0..y
    BY <1>4
  <2>3. <<0..y, 0..x>> \in R
    BY <2>1, <2>2 DEF StrictSubsetOrdering
  <2> QED BY <1>3, <2>3
<1> QED BY <1>4

\* A set of natural numbers that is not empty and has a bound has a greatest
\* element: its least bound.
LEMMA Greatest ==
    ASSUME NEW S, S \subseteq Nat, S # {},
           NEW m \in Nat, \A x \in S : x <= m
    PROVE  \E x \in S : \A y \in S : y <= x
<1> DEFINE B == {u \in Nat : \A y \in S : y <= u}
<1>1. PICK u \in B : \A v \in B : u <= v
  <2>1. B \subseteq Nat /\ B # {}
    OBVIOUS
  <2> HIDE DEF B
  <2> QED BY <2>1, Least
<1>2. u \in S
  <2>1. SUFFICES ASSUME u \notin S PROVE FALSE
    OBVIOUS
  <2>2. PICK y \in S : TRUE
    OBVIOUS
  <2>3. u - 1 \in B
    BY <1>1, <2>1, <2>2
  <2> QED BY <1>1, <2>3
<1> QED BY <1>1, <1>2

\* Induction from first to last, over a set.
LEMMA Upward ==
    ASSUME NEW first \in Nat, NEW last \in Nat, NEW S, first \in S,
           \A n \in first..(last - 1) : n \in S => n + 1 \in S
    PROVE  \A n \in first..last : n \in S
<1> DEFINE T == {n \in first..last : n \notin S}
<1>1. SUFFICES ASSUME T # {} PROVE FALSE
  BY <1>1
<1>2. PICK m \in T : \A n \in T : m <= n
  <2>1. T \subseteq Nat
    OBVIOUS
  <2> HIDE DEF T
  <2> QED BY <1>1, <2>1, Least
<1>3. m - 1 \in first..(last - 1) /\ m - 1 \notin T /\ (m - 1) + 1 = m
  BY <1>2
<1>4. m - 1 \in S
  BY <1>3
<1> QED BY <1>2, <1>3, <1>4

\* Division with remainder, and that there is only one.
LEMMA Division ==
    ASSUME NEW x \in Nat, NEW k \in Nat \ {0}
    PROVE  x \div k \in Nat /\ x % k \in 0..(k - 1) /\ x = k * (x \div k) + (x % k)
OBVIOUS

LEMMA OneQuotient ==
    ASSUME NEW k \in Nat \ {0}, NEW q \in Nat, NEW m \in 0..(k - 1)
    PROVE  (k * q + m) \div k = q /\ (k * q + m) % k = m
<1> DEFINE x == k * q + m
<1>1. x \in Nat
  OBVIOUS
<1> DEFINE p == x \div k
           l == x % k
<1>2. p \in Nat /\ l \in 0..(k - 1) /\ x = k * p + l
  BY <1>1, Division
<1> HIDE DEF p, l
<1>3. k * q + m = k * p + l
  BY <1>2
<1>4. ~(q < p)
  <2>1. SUFFICES ASSUME q + 1 <= p PROVE FALSE
    BY <1>2
  <2>2. k * (q + 1) <= k * p
    BY <1>2, <2>1
  <2>3. k * (q + 1) = k * q + k
    OBVIOUS
  <2> QED BY <1>2, <1>3, <2>2, <2>3
<1>5. ~(p < q)
  <2>1. SUFFICES ASSUME p + 1 <= q PROVE FALSE
    BY <1>2
  <2>2. k * (p + 1) <= k * q
    BY <1>2, <2>1
  <2>3. k * (p + 1) = k * p + k
    BY <1>2
  <2> QED BY <1>2, <1>3, <2>2, <2>3
<1>6. p = q
  BY <1>2, <1>4, <1>5
<1>7. l = m
  BY <1>2, <1>3, <1>6
<1> QED BY <1>6, <1>7 DEF p, l
=============================================================================

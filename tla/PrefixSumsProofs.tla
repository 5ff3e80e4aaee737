-------------------------- MODULE PrefixSumsProofs --------------------------
(***************************************************************************)
(* Induction over the natural numbers for a set of them, and by it what the *)
(* recursive function in Sums is.                                           *)
(***************************************************************************)
EXTENDS PrefixSums, SequenceTheorems, WellFoundedInduction, TLAPS

(* Some number in a set of them is its least *)
LEMMA Smallest ==
  ASSUME NEW S, S \subseteq Nat, S # {}
  PROVE  \E m \in S : \A k \in S : m <= k
<1> DEFINE R == OpToRel(<, Nat)
<1>1. IsWellFoundedOn(R, Nat)
  BY NatLessThanWellFounded
<1>2. \A x, y \in Nat : x < y => <<x, y>> \in R
  BY DEF OpToRel
<1> HIDE DEF R
<1>3. PICK m \in S : \A k \in S : ~(<<k, m>> \in R)
  BY <1>1, WFMin
<1>4. ASSUME NEW k \in S  PROVE m <= k
  <2>1. m \in Nat /\ k \in Nat
    OBVIOUS
  <2>2. ~(k < m)
    BY <1>2, <1>3, <2>1
  <2> QED
    BY <2>1, <2>2
<1> QED
  BY <1>4

(* A set that zero is in, and with a number the next, has all of them *)
LEMMA AllNumbers ==
  ASSUME NEW S, 0 \in S, \A n \in Nat : n \in S => n + 1 \in S
  PROVE  Nat \subseteq S
<1> SUFFICES ASSUME Nat \ S # {}  PROVE FALSE
  OBVIOUS
<1>1. PICK m \in Nat \ S : \A k \in Nat \ S : m <= k
  BY Smallest
<1>2. m # 0 /\ m - 1 \in Nat
  BY <1>1
<1>3. m - 1 \notin Nat \ S
  BY <1>1, <1>2
<1>4. (m - 1) + 1 \in S
  BY <1>2, <1>3
<1> QED
  BY <1>1, <1>4

-----------------------------------------------------------------------------
(* Summed(s, f, n): f has the sums of the first n numbers *)
Summed(s, f, n) == f = [k \in 0..n |-> IF k = 0 THEN 0 ELSE f[k - 1] + s[k]]

LEMMA SumsExist ==
  ASSUME NEW s, NEW n \in Nat
  PROVE  \E f : Summed(s, f, n)
<1> DEFINE S == { m \in Nat : \E f : Summed(s, f, m) }
<1>1. 0 \in S
  <2> DEFINE f == [k \in {0} |-> 0]
  <2>1. Summed(s, f, 0)
    <3>1. 0..0 = {0}
      OBVIOUS
    <3> QED
      BY <3>1 DEF Summed
  <2> QED
    BY <2>1
<1>2. ASSUME NEW m \in Nat, m \in S  PROVE m + 1 \in S
  <2>1. PICK g : Summed(s, g, m)
    BY <1>2
  <2> DEFINE h == [k \in 0..(m + 1) |-> IF k = m + 1 THEN g[m] + s[m + 1] ELSE g[k]]
  <2>2. ASSUME NEW k \in 0..(m + 1)
        PROVE  h[k] = IF k = 0 THEN 0 ELSE h[k - 1] + s[k]
    <3>1. CASE k = 0
      BY <2>1, <3>1 DEF Summed
    <3>2. CASE k = m + 1
      BY <3>2
    <3>3. CASE k # 0 /\ k # m + 1
      <4>1. k \in 0..m /\ k - 1 \in 0..m /\ k - 1 # m + 1 /\ k - 1 \in 0..(m + 1)
        BY <3>3
      <4>2. h[k] = g[k] /\ h[k - 1] = g[k - 1]
        BY <3>3, <4>1
      <4>3. g[k] = IF k = 0 THEN 0 ELSE g[k - 1] + s[k]
        BY <2>1, <4>1 DEF Summed
      <4> QED
        BY <3>3, <4>2, <4>3
    <3> QED
      BY <3>1, <3>2, <3>3
  <2>3. h = [k \in 0..(m + 1) |-> h[k]]
    OBVIOUS
  <2> HIDE DEF h
  <2>4. Summed(s, h, m + 1)
    BY <2>2, <2>3 DEF Summed
  <2> QED
    BY <2>4
<1> HIDE DEF S
<1>3. n \in S
  BY <1>1, <1>2, AllNumbers
<1> QED
  BY <1>3 DEF S

(* The recursion that defines Sums *)
LEMMA SumsRecursion ==
  ASSUME NEW s, Len(s) \in Nat
  PROVE  Summed(s, Sums(s), Len(s))
<1> DEFINE P(f) == Summed(s, f, Len(s))
<1>1. Sums(s) = CHOOSE f : P(f)
  BY DEF Sums, Summed
<1>2. \E f : P(f)
  BY SumsExist
<1> HIDE DEF P
<1>3. P(Sums(s))
  BY <1>1, <1>2
<1> QED
  BY <1>3 DEF P

LEMMA SumsStep ==
  ASSUME NEW s, Len(s) \in Nat
  PROVE  /\ Sums(s)[0] = 0
         /\ \A k \in 1..Len(s) : Sums(s)[k] = Sums(s)[k - 1] + s[k]
<1>1. \A k \in 0..Len(s) : Sums(s)[k] = IF k = 0 THEN 0 ELSE Sums(s)[k - 1] + s[k]
  BY SumsRecursion DEF Summed
<1> QED
  BY <1>1

(* Sums of natural numbers are natural numbers *)
LEMMA SumsType ==
  ASSUME NEW s \in Seq(Nat)
  PROVE  \A k \in 0..Len(s) : Sums(s)[k] \in Nat
<1> DEFINE S == { k \in Nat : k <= Len(s) => Sums(s)[k] \in Nat }
<1>1. Len(s) \in Nat
  OBVIOUS
<1>2. 0 \in S
  BY <1>1, SumsStep
<1>3. ASSUME NEW k \in Nat, k \in S  PROVE k + 1 \in S
  <2>1. CASE k + 1 <= Len(s)
    <3>1. Sums(s)[k] \in Nat /\ k + 1 \in 1..Len(s) /\ (k + 1) - 1 = k
      BY <1>1, <1>3, <2>1
    <3>2. Sums(s)[k + 1] = Sums(s)[k] + s[k + 1]
      BY <1>1, <3>1, SumsStep
    <3>3. s[k + 1] \in Nat
      BY <3>1
    <3> QED
      BY <3>1, <3>2, <3>3
  <2> QED
    BY <2>1
<1>4. Nat \subseteq S
  <2> HIDE DEF S
  <2> QED
    BY <1>2, <1>3, AllNumbers
<1> QED
  BY <1>1, <1>4

(* A number in front of the others adds to every sum *)
LEMMA SumsPrepend ==
  ASSUME NEW s \in Seq(Nat), NEW x \in Nat, NEW t \in Seq(Nat), Len(t) = Len(s) + 1,
         t[1] = x, \A k \in 1..Len(s) : t[k + 1] = s[k]
  PROVE  \A k \in 0..Len(s) : Sums(t)[k + 1] = x + Sums(s)[k]
<1> DEFINE S == { k \in Nat : k <= Len(s) => Sums(t)[k + 1] = x + Sums(s)[k] }
<1>1. Len(s) \in Nat /\ Len(t) \in Nat /\ Len(t) = Len(s) + 1
  OBVIOUS
<1>2. 0 \in S
  <2>1. 1 \in 1..Len(t) /\ 1 - 1 = 0
    BY <1>1
  <2>2. Sums(t)[1] = Sums(t)[0] + t[1] /\ Sums(t)[0] = 0 /\ Sums(s)[0] = 0
    BY <1>1, <2>1, SumsStep
  <2> QED
    BY <2>2
<1>3. ASSUME NEW k \in Nat, k \in S  PROVE k + 1 \in S
  <2>1. CASE k + 1 <= Len(s)
    <3>1. /\ Sums(t)[k + 1] = x + Sums(s)[k] /\ k + 1 \in 1..Len(s) /\ k \in 0..Len(s)
          /\ (k + 1) + 1 \in 1..Len(t) /\ (k + 1) - 1 = k /\ ((k + 1) + 1) - 1 = k + 1
      BY <1>1, <1>3, <2>1
    <3>2. Sums(s)[k + 1] = Sums(s)[k] + s[k + 1]
      BY <1>1, <3>1, SumsStep
    <3>3. Sums(t)[(k + 1) + 1] = Sums(t)[k + 1] + t[(k + 1) + 1]
      BY <1>1, <3>1, SumsStep
    <3>4. t[(k + 1) + 1] = s[k + 1]
      BY <3>1
    <3>5. Sums(s)[k] \in Nat
      BY <3>1, SumsType
    <3>6. s[k + 1] \in Nat
      BY <3>1, ElementOfSeq
    <3>7. Sums(t)[(k + 1) + 1] = x + Sums(s)[k + 1]
      BY <3>1, <3>2, <3>3, <3>4, <3>5, <3>6
    <3> QED
      BY <3>7
  <2> QED
    BY <2>1
<1>4. Nat \subseteq S
  <2> HIDE DEF S
  <2> QED
    BY <1>2, <1>3, AllNumbers
<1> QED
  BY <1>1, <1>4
=============================================================================

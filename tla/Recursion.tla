----------------------------- MODULE Recursion -----------------------------
(***************************************************************************)
(* Induction and recursion over an interval of the natural numbers, stated *)
(* with sets and functions where the library's theorems have operators:    *)
(* what the proofs about replaying a log, building a batch and scanning    *)
(* need.                                                                   *)
(***************************************************************************)
EXTENDS Naturals, WellFoundedInduction, TLAPS

(* The natural numbers are well ordered.                                   *)
LEMMA LeastNat ==
  ASSUME NEW T \in SUBSET Nat, T # {}
  PROVE  \E x \in T : \A y \in T : x <= y
<1> DEFINE R == OpToRel(<, Nat)
<1>1. IsWellFoundedOn(R, Nat)
  BY NatLessThanWellFounded
<1>2. \A x, y \in Nat : x < y => <<x, y>> \in R
  BY DEF OpToRel
<1> HIDE DEF R
<1>3. PICK x \in T : \A y \in T : ~ (<<y, x>> \in R)
  BY <1>1, WFMin
<1>4. ASSUME NEW y \in T
      PROVE  x <= y
  <2>1. ~ (y < x)
    BY <1>2, <1>3, Zenon
  <2>2. QED
    BY <2>1
<1>5. QED
  BY <1>4

(* A set that contains lo and, with each number below hi, the next one.    *)
LEMMA IntervalInduction ==
  ASSUME NEW lo \in Nat, NEW hi \in Nat, NEW T,
         lo \in T, \A i \in lo..hi : i # hi /\ i \in T => i + 1 \in T
  PROVE  \A i \in lo..hi : i \in T
<1> DEFINE F == {i \in lo..hi : i \notin T}
<1>1. SUFFICES ASSUME F # {} PROVE FALSE
  OBVIOUS
<1>2. F \in SUBSET Nat
  OBVIOUS
<1>3. PICK m \in F : \A y \in F : m <= y
  BY <1>1, <1>2, LeastNat
<1>4. m # lo /\ m \in lo..hi /\ m \notin T
  OBVIOUS
<1>5. m - 1 \in lo..hi /\ m - 1 # hi /\ m - 1 + 1 = m
  BY <1>4
<1>6. m - 1 \in T
  BY <1>3, <1>5
<1>7. QED
  BY <1>4, <1>5, <1>6

(* f starts from b, and each further value comes from the one before it.   *)
IsStep(step, lo, hi, S) == step \in [lo..hi -> [S -> S]]

Follows(f, step, lo, hi, b, S) ==
  /\ f \in [lo..hi -> S]
  /\ f[lo] = b
  /\ \A i \in lo..hi : i # lo => f[i] = step[i][f[i - 1]]

(* A function that is defined by recursion exists.                         *)
LEMMA RecursionExists ==
  ASSUME NEW lo \in Nat, NEW hi \in Nat, lo <= hi, NEW S, NEW b \in S,
         NEW step, IsStep(step, lo, hi, S)
  PROVE  \E f : Follows(f, step, lo, hi, b, S)
<1> USE DEF IsStep
<1> DEFINE Up(m, f) == f[lo] = b /\ \A i \in lo..m : i # lo => f[i] = step[i][f[i - 1]]
           T == {m \in lo..hi : \E f \in [lo..hi -> S] : Up(m, f)}
<1>1. lo \in T
  <2> DEFINE f == [i \in lo..hi |-> b]
  <2>1. f \in [lo..hi -> S] /\ lo \in lo..hi
    OBVIOUS
  <2>2. Up(lo, f)
    OBVIOUS
  <2> HIDE DEF f
  <2>3. QED
    BY <2>1, <2>2
<1>2. ASSUME NEW m \in lo..hi, m # hi, m \in T
      PROVE  m + 1 \in T
  <2>1. PICK f \in [lo..hi -> S] : Up(m, f)
    BY <1>2
  <2>2. m + 1 \in lo..hi /\ m + 1 # lo /\ m \in lo..hi
    BY <1>2
  <2>3. step[m + 1][f[m]] \in S
    BY <2>1, <2>2
  <2> DEFINE g == [f EXCEPT ![m + 1] = step[m + 1][f[m]]]
  <2>4. g \in [lo..hi -> S]
    BY <2>1, <2>3
  <2>5. g[m + 1] = step[m + 1][f[m]] /\ \A i \in lo..m : g[i] = f[i]
    BY <2>1, <2>2
  <2> HIDE DEF g
  <2>6. Up(m + 1, g)
    <3>1. g[lo] = b
      BY <2>1, <2>2, <2>5
    <3>2. ASSUME NEW i \in lo..(m + 1), i # lo PROVE g[i] = step[i][g[i - 1]]
      <4>1. i - 1 \in lo..m
        BY <3>2, <2>2
      <4>2. CASE i = m + 1
        BY <2>5, <4>1, <4>2, <2>2
      <4>3. CASE i # m + 1
        <5>1. i \in lo..m
          BY <4>3, <2>2
        <5>2. QED
          BY <2>1, <2>5, <3>2, <4>1, <5>1
      <4>4. QED
        BY <4>2, <4>3
    <3>3. QED
      BY <3>1, <3>2
  <2>7. QED
    BY <2>2, <2>4, <2>6
<1> HIDE DEF T
<1>3. hi \in lo..hi
  OBVIOUS
<1>4. \A i \in lo..hi : i \in T
  BY <1>1, <1>2, IntervalInduction
<1>5. hi \in T
  BY <1>3, <1>4
<1>6. QED
  BY <1>5 DEF T, Follows
=============================================================================

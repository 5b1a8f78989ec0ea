------------------------------ MODULE Induction ------------------------------
(***************************************************************************)
(* Induction on the natural numbers in the form the provers can use: for a *)
(* set instead of a predicate.  A proof by induction on a predicate P      *)
(* defines S == {n \in Nat : P(n)} and shows that S is all of Nat.         *)
(***************************************************************************)
EXTENDS Naturals, WellFoundedInduction, TLAPS

(* A non-empty set of naturals has a least element. *)
LEMMA LeastNatural ==
    ASSUME NEW T, T \subseteq Nat, T # {}
    PROVE  \E x \in T : \A y \in T : x <= y
<1> DEFINE R == {ss \in Nat \X Nat : ss[1] < ss[2]}
<1>1. IsWellFoundedOn(R, Nat)
  BY NatLessThanWellFounded DEF OpToRel
<1>2. PICK x \in T : \A y \in T : ~(<<y, x>> \in R)
  <2> HIDE DEF R
  <2> QED BY <1>1, WFMin
<1>3. \A y \in T : ~(y < x)
  BY <1>2
<1>4. \A y \in T : x <= y
  BY <1>3, SMT
<1> QED BY <1>4

(* A set that holds 0 and with each number the next one holds them all. *)
LEMMA InductionOnNat ==
    ASSUME NEW S, 0 \in S, \A n \in Nat : n \in S => n + 1 \in S
    PROVE  Nat \subseteq S
<1> SUFFICES ASSUME Nat \ S # {} PROVE FALSE
  OBVIOUS
<1>1. PICK x \in Nat \ S : \A y \in Nat \ S : x <= y
  BY LeastNatural
<1>2. x - 1 \in Nat
  BY <1>1, SMT
<1>3. x - 1 \in S
  BY <1>1, <1>2, SMT
<1> QED BY <1>1, <1>2, <1>3, SMT

(* The same up to n, for what depends on the bound. *)
LEMMA InductionOnInterval ==
    ASSUME NEW n \in Nat, NEW S, 0 \in S, \A i \in 1..n : i - 1 \in S => i \in S
    PROVE  0..n \subseteq S
<1> DEFINE T == {k \in Nat : k <= n => k \in S}
<1>1. 0 \in T
  OBVIOUS
<1>2. ASSUME NEW k \in Nat, k \in T PROVE k + 1 \in T
  <2> SUFFICES ASSUME k + 1 <= n PROVE k + 1 \in S
    OBVIOUS
  <2>1. k + 1 \in 1..n /\ (k + 1) - 1 = k /\ k \in S
    BY <1>2
  <2> QED BY <2>1
<1>3. Nat \subseteq T
  <2> HIDE DEF T
  <2> QED BY <1>1, <1>2, InductionOnNat
<1> QED BY <1>3

(* Iterating a function n times is well defined: what makes a recursive    *)
(* function f[i \in 0..n] == IF i = 0 THEN d ELSE ... f[i - 1] ... exist.    *)
Iterates(f, n, D, d, g) ==
    f \in [0..n -> D] /\ f[0] = d /\ \A i \in 1..n : f[i] = g[i][f[i - 1]]

LEMMA IterationExists ==
    ASSUME NEW n \in Nat, NEW D, NEW d \in D, NEW g \in [1..n -> [D -> D]]
    PROVE  \E f : Iterates(f, n, D, d, g)
<1> DEFINE Runs(f, k) == f[0] = d /\ \A i \in 1..k : f[i] = g[i][f[i - 1]]
           Exist == {k \in 0..n : \E f \in [0..k -> D] : Runs(f, k)}
<1>1. 0 \in Exist
  <2> DEFINE f0 == [i \in 0..0 |-> d]
  <2>1. f0 \in [0..0 -> D] /\ Runs(f0, 0)
    OBVIOUS
  <2> HIDE DEF f0, Runs
  <2> QED BY <2>1
<1>2. ASSUME NEW k \in 1..n, k - 1 \in Exist PROVE k \in Exist
  <2>1. PICK f \in [0..(k - 1) -> D] : Runs(f, k - 1)
    BY <1>2
  <2> DEFINE h == [i \in 0..k |-> IF i = k THEN g[k][f[k - 1]] ELSE f[i]]
  <2>2. f[k - 1] \in D
    OBVIOUS
  <2>3. g[k][f[k - 1]] \in D
    BY <2>2
  <2>4. h \in [0..k -> D]
    BY <2>3
  <2>5. h[0] = d
    BY <2>1
  <2>6. ASSUME NEW i \in 1..k PROVE h[i] = g[i][h[i - 1]]
    <3>1. h[i - 1] = f[i - 1]
      OBVIOUS
    <3>2. CASE i = k
      <4>1. h[i] = g[k][f[k - 1]]
        BY <3>2
      <4> HIDE DEF h
      <4> QED BY <3>1, <3>2, <4>1
    <3>3. CASE i # k
      <4>1. h[i] = f[i] /\ i \in 1..(k - 1)
        BY <3>3
      <4>2. f[i] = g[i][f[i - 1]]
        BY <2>1, <4>1
      <4> HIDE DEF h
      <4> QED BY <3>1, <4>1, <4>2
    <3> QED BY <3>2, <3>3
  <2>7. Runs(h, k)
    BY <2>5, <2>6, Zenon
  <2> HIDE DEF h, Runs
  <2> QED BY <2>4, <2>7
<1>3. n \in Exist
  <2> HIDE DEF Exist
  <2>1. 0..n \subseteq Exist
    BY <1>1, <1>2, InductionOnInterval
  <2> QED BY <2>1
<1> QED BY <1>3 DEF Iterates
=============================================================================

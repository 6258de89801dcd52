----------------------------- MODULE Induction ------------------------------
(***************************************************************************)
(* Induction over the naturals in a form first-order provers can use: the   *)
(* induction hypothesis is a set, not an operator.                          *)
(***************************************************************************)
EXTENDS Integers, WellFoundedInduction, TLAPS

(* A set of naturals that is not empty has a least element. *)
LEMMA LeastNatural ==
    ASSUME NEW T, T \subseteq Nat, T # {}
    PROVE  \E n \in T : \A m \in T : n <= m
<1> DEFINE R == OpToRel(<, Nat)
<1>1. \A x, y \in Nat : <<x, y>> \in R <=> x < y
  BY DEF OpToRel
<1>2. IsWellFoundedOn(R, Nat)
  BY NatLessThanWellFounded
<1> HIDE DEF R
<1>3. PICK x \in T : \A y \in T : ~ (<<y, x>> \in R)
  BY Zenon, <1>2, WFMin
<1>4. ASSUME NEW y \in T PROVE x <= y
  <2>1. x \in Nat /\ y \in Nat /\ ~ (<<y, x>> \in R)
    BY <1>3
  <2>2. ~ (y < x)
    BY <1>1, <2>1
  <2> QED BY <2>1, <2>2
<1> QED BY <1>4

(* A set that holds 0 and the successor of each natural in it holds them all. *)
LEMMA NatSetInduction ==
    ASSUME NEW S, 0 \in S, \A n \in Nat : n \in S => n + 1 \in S
    PROVE  Nat \subseteq S
<1> SUFFICES ASSUME Nat \ S # {} PROVE FALSE
  OBVIOUS
<1>1. PICK n \in Nat \ S : \A m \in Nat \ S : n <= m
  BY Zenon, LeastNatural
<1>2. n - 1 \in Nat
  BY <1>1
<1>3. n - 1 \in S
  BY <1>1, <1>2
<1> QED BY <1>1, <1>2, <1>3

(* A recursive function on 0..m: g[0] = a, and the n-th of m functions on D makes
   g[n] from g[n - 1]. *)
Steps(D, a, m, h) == a \in D /\ m \in Nat /\ h \in [1..m -> [D -> D]]
Iterates(D, a, m, h, g) ==
    g \in [0..m -> D] /\ g[0] = a /\ \A n \in 1..m : g[n] = h[n][g[n - 1]]

(* Such a function exists. *)
LEMMA IterationExists ==
    ASSUME NEW D, NEW a, NEW m, NEW h, Steps(D, a, m, h)
    PROVE  \E g : Iterates(D, a, m, h, g)
<1>0. a \in D /\ m \in Nat /\ h \in [1..m -> [D -> D]]
  BY DEF Steps
<1> DEFINE Upto(g, k) == g \in [0..k -> D] /\ g[0] = a /\ \A n \in 1..k : g[n] = h[n][g[n - 1]]
           S == {k \in Nat : k <= m => \E g : Upto(g, k)}
<1>1. 0 \in S
  <2> DEFINE g == [n \in 0..0 |-> a]
  <2>1. Upto(g, 0)
    BY <1>0
  <2> HIDE DEF g, Upto
  <2> QED BY <2>1
<1>2. ASSUME NEW k \in Nat, k \in S PROVE k + 1 \in S
  <2> SUFFICES ASSUME k + 1 <= m PROVE \E g : Upto(g, k + 1)
    BY <1>0 DEF S
  <2>1. PICK f : Upto(f, k)
    BY <1>0, <1>2
  <2>2. /\ f \in [0..k -> D] /\ f[0] = a /\ \A n \in 1..k : f[n] = h[n][f[n - 1]]
    BY <2>1
  <2> DEFINE last == h[k + 1][f[k]]
             g == [n \in 0..(k + 1) |-> IF n = k + 1 THEN last ELSE f[n]]
  <2>3. last \in D
    <3>1. k + 1 \in 1..m /\ k \in 0..k
      BY <1>0
    <3>2. h[k + 1] \in [D -> D] /\ f[k] \in D
      BY <1>0, <2>2, <3>1
    <3> QED BY <3>2
  <2> HIDE DEF last
  <2>4. g \in [0..(k + 1) -> D] /\ g[0] = a
    BY <2>2, <2>3
  <2>5. ASSUME NEW n \in 1..(k + 1) PROVE g[n] = h[n][g[n - 1]]
    <3>1. CASE n = k + 1
      <4>1. g[n] = last /\ g[n - 1] = f[k]
        BY <3>1
      <4> QED BY <3>1, <4>1 DEF last
    <3>2. CASE n # k + 1
      <4>1. n \in 1..k /\ g[n] = f[n] /\ g[n - 1] = f[n - 1]
        BY <3>2
      <4> HIDE DEF g
      <4> QED BY <2>2, <4>1
    <3> QED BY <3>1, <3>2
  <2> HIDE DEF g
  <2>6. Upto(g, k + 1)
    BY <2>4, <2>5
  <2> QED BY <2>6
<1>3. Nat \subseteq S
  <2> HIDE DEF S
  <2> QED BY <1>1, <1>2, NatSetInduction
<1>4. \E g : Upto(g, m)
  BY <1>0, <1>3
<1> QED BY Zenon, <1>4 DEF Iterates
=============================================================================

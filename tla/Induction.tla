------------------------------ MODULE Induction ------------------------------
(***************************************************************************)
(* Induction on the naturals, stated of sets and functions rather than of  *)
(* predicates, and what it says of functions defined by recursion on       *)
(* 0 .. n.  The proofs of the components cite these lemmas wherever a      *)
(* definition of the model is recursive.                                   *)
(***************************************************************************)
EXTENDS Integers, WellFoundedInduction, TLAPS

(***************************************************************************)
(* A set of naturals that is not empty has a least element.                *)
(***************************************************************************)
LEMMA LeastNat ==
    ASSUME NEW T \in SUBSET Nat, T # {}
    PROVE  \E n \in T : \A m \in T : n <= m
<1> DEFINE Less == {pair \in Nat \X Nat : pair[1] < pair[2]}
<1>1. IsWellFoundedOn(Less, Nat)
  BY NatLessThanWellFounded DEF OpToRel
<1>2. PICK x \in T : \A y \in T : ~ (<<y, x>> \in Less)
  <2> HIDE DEF Less
  <2> QED BY <1>1, WFMin
<1>3. \A y \in T : ~(y < x)
  BY <1>2
<1> QED BY <1>3

(***************************************************************************)
(* A set of naturals that holds 0 and every successor holds them all.      *)
(***************************************************************************)
LEMMA InductiveSet ==
    ASSUME NEW T \in SUBSET Nat, 0 \in T, \A n \in T : n + 1 \in T
    PROVE  T = Nat
<1> SUFFICES ASSUME Nat \ T # {} PROVE FALSE
  OBVIOUS
<1>1. PICK n \in Nat \ T : \A m \in Nat \ T : n <= m
  BY LeastNat
<1>2. n # 0 /\ n - 1 \in Nat
  BY <1>1
<1>3. n - 1 \in T
  BY <1>1, <1>2
<1>4. (n - 1) + 1 \in T
  BY <1>3
<1> QED BY <1>1, <1>4

(***************************************************************************)
(* g is defined on 0 .. n by recursion: its value at 0 is c, and step[k]   *)
(* makes its value at k from the one at k - 1.                             *)
(***************************************************************************)
Steps(S) == [Nat -> [S -> S]]

Recurses(g, n, c, step) ==
    \A k \in 0 .. n : g[k] = IF k = 0 THEN c ELSE step[k][g[k - 1]]

(***************************************************************************)
(* Such a function exists, and its values stay in the set they start in.   *)
(***************************************************************************)
LEMMA RecursionExists ==
    ASSUME NEW S, NEW c, c \in S, NEW step, step \in Steps(S), NEW n, n \in Nat
    PROVE  \E g : g \in [0 .. n -> S] /\ Recurses(g, n, c, step)
<1> USE DEF Steps
<1> DEFINE
      Good(m, g) == \A k \in 0 .. m : g[k] = IF k = 0 THEN c ELSE step[k][g[k - 1]]
      T == {m \in Nat : \E g \in [0 .. m -> S] : Good(m, g)}
<1>1. 0 \in T
  <2> DEFINE g == [k \in 0 .. 0 |-> c]
  <2>1. g \in [0 .. 0 -> S] /\ Good(0, g)
    OBVIOUS
  <2> QED BY <2>1
<1>2. \A m \in T : m + 1 \in T
  <2> TAKE m \in T
  <2>1. PICK g \in [0 .. m -> S] : Good(m, g)
    OBVIOUS
  <2> DEFINE h == [k \in 0 .. m + 1 |-> IF k = m + 1 THEN step[m + 1][g[m]] ELSE g[k]]
  <2>2. m \in Nat /\ g[m] \in S /\ step[m + 1] \in [S -> S]
    BY <2>1
  <2>3. h \in [0 .. m + 1 -> S]
    BY <2>1, <2>2
  <2>4. ASSUME NEW k \in 0 .. m + 1 PROVE h[k] = IF k = 0 THEN c ELSE step[k][h[k - 1]]
    <3>1. CASE k = m + 1
      BY <3>1, <2>2
    <3>2. CASE k # m + 1
      <4>1. k \in 0 .. m /\ h[k] = g[k] /\ (k # 0 => h[k - 1] = g[k - 1])
        BY <3>2, <2>2
      <4> QED BY <4>1, <2>1
    <3> QED BY <3>1, <3>2
  <2> HIDE DEF h
  <2>5. Good(m + 1, h)
    BY <2>4
  <2> HIDE DEF Good
  <2>6. m + 1 \in Nat /\ \E f \in [0 .. m + 1 -> S] : Good(m + 1, f)
    BY <2>2, <2>3, <2>5
  <2> QED BY <2>6
<1> HIDE DEF Good
<1>3. T = Nat
  <2> HIDE DEF T
  <2>1. T \in SUBSET Nat
    BY DEF T
  <2> QED BY <1>1, <1>2, <2>1, InductiveSet
<1>4. \E g \in [0 .. n -> S] : Good(n, g)
  BY <1>3
<1> QED BY <1>4 DEF Good, Recurses

(***************************************************************************)
(* Two functions that satisfy the same recursion agree wherever both are   *)
(* defined.                                                                *)
(***************************************************************************)
LEMMA RecursionUnique ==
    ASSUME NEW c, NEW step, NEW n, n \in Nat, NEW m, m \in Nat, n <= m,
           NEW g, Recurses(g, n, c, step), NEW h, Recurses(h, m, c, step)
    PROVE  \A k \in 0 .. n : g[k] = h[k]
<1> USE DEF Recurses
<1> DEFINE T == {k \in Nat : k <= n => g[k] = h[k]}
<1>1. 0 \in T
  OBVIOUS
<1>2. \A k \in T : k + 1 \in T
  <2> SUFFICES ASSUME NEW k \in T, k + 1 <= n PROVE g[k + 1] = h[k + 1]
    OBVIOUS
  <2>1. k \in Nat /\ g[k] = h[k] /\ k + 1 \in 0 .. n /\ k + 1 \in 0 .. m /\ (k + 1) - 1 = k /\ k + 1 # 0
    OBVIOUS
  <2>2. g[k + 1] = step[k + 1][g[k]]
    BY <2>1
  <2>3. h[k + 1] = step[k + 1][h[k]]
    BY <2>1
  <2> QED BY <2>1, <2>2, <2>3
<1>3. T = Nat
  <2> HIDE DEF T
  <2>1. T \in SUBSET Nat
    BY DEF T
  <2> QED BY <1>1, <1>2, <2>1, InductiveSet
<1> QED BY <1>3
=============================================================================

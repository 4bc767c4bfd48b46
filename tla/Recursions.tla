----------------------------- MODULE Recursions -----------------------------
(***************************************************************************)
(* Induction and recursion up to a bound, first order: over a set instead  *)
(* of an operator, from the well-foundedness of the natural numbers.  What *)
(* the loops of the code compute is proved with these, where the model has *)
(* them as recursive functions.                                            *)
(***************************************************************************)
EXTENDS Integers, TLAPS, WellFoundedInduction

(* A set of natural numbers has a least element.                           *)
LEMMA LeastOf ==
  ASSUME NEW S, S \subseteq Nat, S # {}
  PROVE  \E x \in S : \A y \in S : x <= y
<1> DEFINE less == OpToRel(<, Nat)
<1>1. \E x \in S : \A y \in S : <<y, x>> \notin less
  <2>1. IsWellFoundedOn(less, Nat)
    BY NatLessThanWellFounded DEF less
  <2> QED  BY <2>1, WFMin
<1>2. \A x, y \in Nat : <<y, x>> \notin less => x <= y
  BY DEF OpToRel
<1> QED  BY <1>1, <1>2

-----------------------------------------------------------------------------
(* What holds of 0 and of the successors below N holds up to N.            *)
LEMMA Induct ==
  ASSUME NEW N \in Nat, NEW S, 0 \in S, \A n \in 0 .. N - 1 : n \in S => n + 1 \in S
  PROVE  \A n \in 0 .. N : n \in S
<1> DEFINE Bad == (0 .. N) \ S
<1> SUFFICES ASSUME Bad # {} PROVE FALSE  OBVIOUS
<1>1. Bad \subseteq Nat  OBVIOUS
<1>2. PICK n \in Bad : \A k \in Bad : n <= k  BY <1>1, LeastOf
<1>3. n # 0 /\ n - 1 \in 0 .. N - 1  OBVIOUS
<1>4. n - 1 \in S  BY <1>2, <1>3
<1>5. (n - 1) + 1 \in S  BY <1>3, <1>4
<1> QED  BY <1>3, <1>5

(* There is a function that starts somewhere and goes on by a step.        *)
Iterates(g, N, T, start, step) ==
  /\ g \in [0 .. N -> T]
  /\ g = [n \in 0 .. N |-> IF n = 0 THEN start ELSE step[<<n, g[n - 1]>>]]

LEMMA Recursion ==
  ASSUME NEW N \in Nat, NEW T, NEW start \in T, NEW step \in [(1 .. N) \X T -> T]
  PROVE  \E g : Iterates(g, N, T, start, step)
<1> DEFINE Upto(g, k) ==
             /\ g \in [0 .. k -> T] /\ g[0] = start
             /\ \A n \in 1 .. k : g[n] = step[<<n, g[n - 1]>>]
           S == {k \in 0 .. N : \E g : Upto(g, k)}
<1>1. 0 \in S
  <2> DEFINE g == [n \in 0 .. 0 |-> start]
  <2>1. g \in [0 .. 0 -> T] /\ g[0] = start  OBVIOUS
  <2> HIDE DEF g
  <2>2. Upto(g, 0)  BY <2>1
  <2>3. 0 \in 0 .. N  OBVIOUS
  <2>4. \E x : Upto(x, 0)  BY <2>2, Zenon
  <2> QED  BY <2>3, <2>4
<1>2. ASSUME NEW k \in 0 .. N - 1, k \in S  PROVE k + 1 \in S
  <2>1. PICK g : Upto(g, k)  BY <1>2
  <2> DEFINE new == step[<<k + 1, g[k]>>]
             h == [n \in 0 .. k + 1 |-> IF n = k + 1 THEN new ELSE g[n]]
  <2>2. new \in T
    <3>1. g[k] \in T /\ k + 1 \in 1 .. N  BY <2>1
    <3> QED  BY <3>1
  <2>3. h \in [0 .. k + 1 -> T]
    <3>1. \A n \in 0 .. k + 1 : n # k + 1 => n \in 0 .. k  OBVIOUS
    <3> HIDE DEF new
    <3> QED  BY <2>1, <2>2, <3>1
  <2>4. h[0] = start  BY <2>1
  <2>5. ASSUME NEW n \in 1 .. k + 1  PROVE h[n] = step[<<n, h[n - 1]>>]
    <3>1. n - 1 \in 0 .. k + 1 /\ n - 1 # k + 1  OBVIOUS
    <3>2. h[n - 1] = g[n - 1]  BY <3>1
    <3>3. CASE n = k + 1
      <4>1. h[n] = new /\ n - 1 = k  BY <3>3
      <4> QED  BY <3>2, <3>3, <4>1
    <3>4. CASE n # k + 1
      <4>1. n \in 1 .. k /\ h[n] = g[n]  BY <3>4
      <4>2. g[n] = step[<<n, g[n - 1]>>]  BY <2>1, <4>1
      <4> QED  BY <3>2, <4>1, <4>2
    <3> QED  BY <3>3, <3>4
  <2> HIDE DEF h
  <2>6. Upto(h, k + 1)  BY <2>3, <2>4, <2>5
  <2> QED  BY <2>6
<1> HIDE DEF S
<1>3. N \in S
  <2>1. \A n \in 0 .. N : n \in S  BY <1>1, <1>2, Induct
  <2> QED  BY <2>1
<1>4. PICK g : Upto(g, N)  BY <1>3 DEF S
<1>5. g \in [0 .. N -> T] /\ g = [n \in 0 .. N |-> IF n = 0 THEN start ELSE step[<<n, g[n - 1]>>]]
  <2>1. \A n \in 0 .. N : g[n] = IF n = 0 THEN start ELSE step[<<n, g[n - 1]>>]
    <3> TAKE n \in 0 .. N
    <3>1. n = 0 \/ n \in 1 .. N  OBVIOUS
    <3> QED  BY <1>4, <3>1
  <2>2. g \in [0 .. N -> T]  BY <1>4
  <2>3. g = [n \in 0 .. N |-> g[n]]  BY <2>2
  <2> QED  BY <2>1, <2>2, <2>3, Zenon
<1> QED  BY <1>5 DEF Iterates
=============================================================================

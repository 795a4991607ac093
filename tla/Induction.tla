------------------------------- MODULE Induction -------------------------------
(***************************************************************************)
(* Induction over data.  The theorems of the library that take the         *)
(* property as an operator are out of the provers' reach, so here it is a  *)
(* set: the numbers that have it.  A recursive function is what its        *)
(* equations say when some function satisfies them, which is shown here    *)
(* for a step that is itself a function.                                   *)
(***************************************************************************)
EXTENDS Integers, Sequences, WellFoundedInduction, TLAPS

\* A set of naturals that is not empty has a least element.
LEMMA LeastNatural ==
  ASSUME NEW T, T \subseteq Nat, T # {}
  PROVE  \E x \in T : \A y \in T : x <= y
<1> DEFINE less == {p \in Nat \X Nat : p[1] < p[2]}
<1>1. IsWellFoundedOn(less, Nat)
  BY NatLessThanWellFounded DEF OpToRel
<1> HIDE DEF less
<1>2. PICK x \in T : \A y \in T : ~ (<<y, x>> \in less)
  BY <1>1, WFMin
<1>3. \A y \in T : ~(y < x)
  BY <1>2 DEF less
<1> QED  BY <1>3

\* A list written out has the elements written.
LEMMA WrittenOut ==
  ASSUME NEW E, NEW a \in E, NEW b \in E, NEW c \in E, NEW d \in E, NEW e \in E
  PROVE  <<a>> \in Seq(E) /\ <<a, b, c, d, e>> \in Seq(E)
<1>1. <<a, b, c, d, e>> \in [1..5 -> E] /\ 5 \in Nat
  OBVIOUS
<1> QED  BY <1>1

\* Induction up to a bound: what holds of 0, and of each next number, holds of all.
LEMMA Induct ==
  ASSUME NEW N \in Nat, NEW T, 0 \in T, \A n \in 0..N - 1 : n \in T => n + 1 \in T
  PROVE  0..N \subseteq T
<1>1. PICK rest : rest = (0..N) \ T
  OBVIOUS
<1> SUFFICES ASSUME rest # {} PROVE FALSE
  BY <1>1
<1>2. PICK x \in rest : \A y \in rest : x <= y
  BY <1>1, LeastNatural
<1>3. x # 0 /\ x - 1 \in 0..N - 1 /\ x - 1 \in T
  BY <1>1, <1>2
<1> QED  BY <1>1, <1>2, <1>3

\* What a recursive function f on 0..n says of itself.
Solves(f, n, S, base, step) ==
  f \in [0..n -> S] /\ f[0] = base /\ \A i \in 1..n : f[i] = step[<<i, f[i - 1]>>]

\* A recursion with a function for its step has a solution.
LEMMA Recursion ==
  ASSUME NEW S, NEW N \in Nat, NEW base \in S, NEW step \in [(1..N) \X S -> S]
  PROVE  \E f : Solves(f, N, S, base, step)
<1> DEFINE T == {n \in 0..N : \E g : Solves(g, n, S, base, step)}
<1>1. 0 \in T
  <2>1. Solves([i \in 0..0 |-> base], 0, S, base, step)
    BY DEF Solves
  <2> QED  BY <2>1
<1>2. ASSUME NEW n \in 0..N - 1, n \in T PROVE n + 1 \in T
  <2>1. PICK g : Solves(g, n, S, base, step)
    BY <1>2
  <2> DEFINE next == step[<<n + 1, g[n]>>]
             h == [i \in 0..n + 1 |-> IF i = n + 1 THEN next ELSE g[i]]
  <2>2. next \in S
    BY <2>1 DEF Solves
  <2>3. h \in [0..n + 1 -> S] /\ h[0] = base
    BY <2>1, <2>2 DEF Solves
  <2>4. ASSUME NEW i \in 1..n + 1 PROVE h[i] = step[<<i, h[i - 1]>>]
    <3>1. CASE i = n + 1
      <4>1. i - 1 = n /\ n \in 0..n + 1 /\ n # n + 1 /\ i \in 0..n + 1
        BY <3>1
      <4>2. h[i] = next /\ h[n] = g[n]
        BY <3>1, <4>1
      <4> QED  BY <3>1, <4>1, <4>2
    <3>2. CASE i # n + 1
      <4>1. i \in 1..n /\ i - 1 \in 0..n /\ i - 1 # n + 1
        BY <3>2
      <4>2. h[i] = g[i] /\ h[i - 1] = g[i - 1]
        BY <3>2, <4>1
      <4> QED  BY <2>1, <4>1, <4>2 DEF Solves
    <3> QED  BY <3>1, <3>2
  <2>5. Solves(h, n + 1, S, base, step)
    BY <2>3, <2>4 DEF Solves
  <2> QED  BY <2>5
<1> HIDE DEF T
<1>3. N \in T
  BY <1>1, <1>2, Induct
<1> QED  BY <1>3 DEF T
=============================================================================

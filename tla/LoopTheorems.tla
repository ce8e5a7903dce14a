---------------------------- MODULE LoopTheorems ----------------------------
(***************************************************************************)
(* What the proofs need to know of loops.  The modules write a loop of the *)
(* code as a function of the number of turns taken, which is defined by    *)
(* recursion and so by a CHOOSE: that there is such a function has to be   *)
(* proved before anything can be said of it.  The facts are stated with    *)
(* sets and functions, not with operators as parameters, and rest on the   *)
(* least counterexample.                                                   *)
(***************************************************************************)
EXTENDS Integers, WellFoundedInduction, TLAPS

\* What a leaf that names no prover tries, one after the other.
USE SMTT(60), Z3T(60), ZenonT(20), SMTT(90), Z3T(90)

\* A set of numbers that is not empty has a least one.
LEMMA NatMin ==
    ASSUME NEW T, T \subseteq Nat, T # {}
    PROVE  \E n \in T : \A m \in T : n <= m
PROOF
<1> DEFINE R == {ss \in Nat \X Nat : ss[1] < ss[2]}
<1>1. IsWellFoundedOn(R, Nat)
  BY NatLessThanWellFounded DEF OpToRel
<1> HIDE DEF R
<1>2. \E x \in T : \A y \in T : ~ (<<y, x>> \in R)
  BY <1>1, WFMin
<1>3. \A y, x \in Nat : y < x => <<y, x>> \in R
  BY DEF R
<1>4. PICK x \in T : \A y \in T : ~ (<<y, x>> \in R)
  BY <1>2
<1>5. \A y \in T : ~(y < x)
  BY <1>3, <1>4
<1> QED BY <1>5

\* Induction, over a set in place of a predicate.
LEMMA NatInd ==
    ASSUME NEW S, 0 \in S, \A n \in Nat : n \in S => n + 1 \in S
    PROVE  \A n \in Nat : n \in S
PROOF
<1> SUFFICES ASSUME NEW k \in Nat, k \notin S PROVE FALSE
  OBVIOUS
<1> DEFINE T == {n \in Nat : n \notin S}
<1>1. PICK n \in T : \A m \in T : n <= m
  BY NatMin
<1>2. n - 1 \in Nat /\ n - 1 \in S
  BY <1>1
<1> QED BY <1>1, <1>2

\* What a loop computes whose turn n is G[n], taken from r.
Runs(f, V, r, G, N) ==
    f \in [0..N -> V] /\ f[0] = r /\ \A n \in 1..N : f[n] = G[n][f[n - 1]]

\* There is a function with the values of such a loop.
LEMMA Running ==
    ASSUME NEW V, NEW r \in V, NEW N \in Nat, NEW G \in [1..N -> [V -> V]]
    PROVE  \E f : Runs(f, V, r, G, N)
PROOF
<1> DEFINE E(f, n) == IF n = 0 THEN r ELSE G[n][f[n - 1]]
           Solves(f, k) == f \in [0..N -> V] /\ \A n \in 0..N : n <= k => f[n] = E(f, n)
           S == {k \in Nat : \E f : Solves(f, k)}
<1>1. 0 \in S
  <2>1. Solves([n \in 0..N |-> r], 0)
    OBVIOUS
  <2> QED BY <2>1
<1>2. ASSUME NEW k \in Nat, k \in S PROVE k + 1 \in S
  <2>1. PICK f : Solves(f, k)
    BY <1>2
  <2> DEFINE g == [n \in 0..N |-> IF n = k + 1 THEN G[n][f[k]] ELSE f[n]]
  <2>2. g \in [0..N -> V]
    <3> SUFFICES ASSUME NEW n \in 0..N PROVE (IF n = k + 1 THEN G[n][f[k]] ELSE f[n]) \in V
      OBVIOUS
    <3>1. n = k + 1 => n \in 1..N /\ k \in 0..N
      OBVIOUS
    <3> QED BY <2>1, <3>1
  <2>3. ASSUME NEW n \in 0..N, n <= k + 1 PROVE g[n] = E(g, n)
    <3>1. CASE n = k + 1
      <4>1. g[n] = G[n][f[k]] /\ n # 0 /\ n - 1 = k /\ k \in 0..N /\ k # k + 1
        BY <3>1
      <4>2. g[k] = f[k]
        BY <4>1
      <4> QED BY <4>1, <4>2
    <3>2. CASE n # k + 1
      <4>1. n <= k /\ g[n] = f[n] /\ f[n] = E(f, n)
        BY <2>1, <2>3, <3>2
      <4>2. n # 0 => n - 1 \in 0..N /\ n - 1 # k + 1
        BY <4>1
      <4>3. n # 0 => g[n - 1] = f[n - 1]
        BY <4>2
      <4> QED BY <4>1, <4>3
    <3> QED BY <3>1, <3>2
  <2> HIDE DEF g
  <2>4. Solves(g, k + 1)
    BY <2>2, <2>3
  <2> HIDE DEF Solves
  <2> QED BY <2>4
<1> HIDE DEF S
<1>3. N \in S
  BY <1>1, <1>2, NatInd
<1>4. PICK f : Solves(f, N)
  BY <1>3 DEF S
<1>5. f[0] = r /\ \A n \in 1..N : f[n] = G[n][f[n - 1]]
  BY <1>4
<1>6. Runs(f, V, r, G, N)
  BY <1>4, <1>5 DEF Runs
<1> QED BY <1>6

\* What a loop computes whose every turn is G, taken from r.
Iterates(f, V, r, G, N) ==
    f \in [0..N -> V] /\ f[0] = r /\ \A n \in 1..N : f[n] = G[f[n - 1]]

\* There is a function with the values of such a loop.
LEMMA Iteration ==
    ASSUME NEW V, NEW r \in V, NEW G \in [V -> V], NEW N \in Nat
    PROVE  \E f : Iterates(f, V, r, G, N)
PROOF
<1> DEFINE H == [n \in 1..N |-> G]
<1>1. H \in [1..N -> [V -> V]] /\ \A n \in 1..N : H[n] = G
  OBVIOUS
<1> HIDE DEF H
<1>2. PICK f : Runs(f, V, r, H, N)
  BY <1>1, Running
<1> QED BY <1>1, <1>2 DEF Runs, Iterates
=============================================================================

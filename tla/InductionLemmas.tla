-------------------------- MODULE InductionLemmas --------------------------
(***************************************************************************)
(* Induction over the natural numbers with a set in place of a predicate,  *)
(* the least element of a set, and the functions that a recursion over     *)
(* 0 .. n defines.                                                         *)
(***************************************************************************)
EXTENDS Integers, WellFoundedInduction, TLAPS

(* Every set of natural numbers that is not empty has a least element. *)
LEMMA LeastNatural ==
  ASSUME NEW T, T \subseteq Nat, T # {}
  PROVE  \E x \in T : \A y \in T : x <= y
<1>1. PICK x \in T : \A y \in T : ~ (<<y, x>> \in OpToRel(<, Nat))
  BY NatLessThanWellFounded, WFMin
<1>2. \A y \in T : <<y, x>> \in Nat \X Nat
  OBVIOUS
<1>3. \A y \in T : ~ (y < x)
  BY <1>1, <1>2 DEF OpToRel
<1> QED  BY <1>3

(* Induction for a property that is given as the set of what has it. *)
LEMMA SetInduction ==
  ASSUME NEW S, 0 \in S, \A n \in Nat : n \in S => n + 1 \in S
  PROVE  Nat \subseteq S
<1> SUFFICES ASSUME Nat \ S # {} PROVE FALSE
  OBVIOUS
<1>1. PICK x \in Nat \ S : \A y \in Nat \ S : x <= y
  BY LeastNatural
<1>2. x # 0 /\ x - 1 \in Nat
  BY <1>1
<1>3. x - 1 \in S
  BY <1>1, <1>2
<1>4. x - 1 + 1 \in S
  BY <1>3, <1>2
<1> QED  BY <1>1, <1>4

(* The same for the numbers up to N. *)
LEMMA BoundedInduction ==
  ASSUME NEW N \in Nat, NEW S, 0 \in S, \A n \in 0 .. N - 1 : n \in S => n + 1 \in S
  PROVE  0 .. N \subseteq S
<1> DEFINE T == {n \in Nat : n <= N => n \in S}
<1>1. 0 \in T /\ \A n \in Nat : n \in T => n + 1 \in T
  OBVIOUS
<1> HIDE DEF T
<1>2. Nat \subseteq T
  BY <1>1, SetInduction
<1> QED  BY <1>2 DEF T

(* A function that starts with a and goes on with the steps of G. *)
Step(N, V) == [1 .. N -> [V -> V]]
IsIteration(f, N, V, a, G) ==
  f \in [0 .. N -> V] /\ f[0] = a /\ \A k \in 1 .. N : f[k] = G[k][f[k - 1]]

LEMMA IterationExists ==
  ASSUME NEW N \in Nat, NEW V, NEW a \in V, NEW G \in Step(N, V)
  PROVE  \E f : IsIteration(f, N, V, a, G)
<1> USE DEF Step
<1> DEFINE P(n, f) == f[0] = a /\ \A k \in 1 .. n : f[k] = G[k][f[k - 1]]
           S == {n \in 0 .. N : \E f \in [0 .. N -> V] : P(n, f)}
<1>1. 0 \in S
  <2>1. P(0, [k \in 0 .. N |-> a])
    OBVIOUS
  <2>2. [k \in 0 .. N |-> a] \in [0 .. N -> V]
    OBVIOUS
  <2>3. 0 \in 0 .. N
    OBVIOUS
  <2> HIDE DEF P
  <2> QED  BY <2>1, <2>2, <2>3
<1>2. ASSUME NEW n \in 0 .. N - 1, n \in S PROVE n + 1 \in S
  <2>1. PICK f \in [0 .. N -> V] : P(n, f)
    BY <1>2
  <2> DEFINE g == [f EXCEPT ![n + 1] = G[n + 1][f[n]]]
  <2>2. f[n] \in V /\ n + 1 \in 1 .. N
    OBVIOUS
  <2>3. g \in [0 .. N -> V]
    BY <2>2
  <2>4. /\ \A k \in 0 .. n : g[k] = f[k]
        /\ g[n + 1] = G[n + 1][f[n]]
    OBVIOUS
  <2> HIDE DEF g
  <2>5. \A k \in 1 .. n : g[k] = G[k][g[k - 1]]
    <3> SUFFICES ASSUME NEW k \in 1 .. n PROVE g[k] = G[k][g[k - 1]]
      OBVIOUS
    <3>1. g[k] = f[k] /\ g[k - 1] = f[k - 1]
      BY <2>4
    <3> QED  BY <2>1, <3>1
  <2>6. g[n + 1] = G[n + 1][g[n + 1 - 1]]
    <3>1. n + 1 - 1 = n /\ g[n] = f[n]
      BY <2>4
    <3> QED  BY Zenon, <3>1, <2>4
  <2>7. \A k \in 1 .. n + 1 : k \in 1 .. n \/ k = n + 1
    OBVIOUS
  <2>8. g[0] = a
    BY <2>1, <2>4
  <2>9. P(n + 1, g)
    <3>1. ASSUME NEW k \in 1 .. n + 1 PROVE g[k] = G[k][g[k - 1]]
      <4>1. CASE k = n + 1
        BY <4>1, <2>6
      <4>2. CASE k \in 1 .. n
        BY <4>2, <2>5
      <4> QED  BY <4>1, <4>2, <2>7
    <3> QED  BY <3>1, <2>8
  <2>10. n + 1 \in 0 .. N
    OBVIOUS
  <2> HIDE DEF P
  <2> QED  BY <2>3, <2>9, <2>10
<1> HIDE DEF S
<1>3. N \in S
  <2>1. 0 .. N \subseteq S
    BY <1>1, <1>2, BoundedInduction
  <2> QED  BY <2>1
<1> QED  BY <1>3 DEF S, IsIteration

(* What the steps of a recursion preserve holds of all that it defines. *)
LEMMA IterationPreserves ==
  ASSUME NEW N \in Nat, NEW V, NEW s, s[0] \in V,
         \A k \in 1 .. N : s[k - 1] \in V => s[k] \in V
  PROVE  \A k \in 0 .. N : s[k] \in V
<1> DEFINE T == {k \in 0 .. N : s[k] \in V}
<1>1. 0 \in T
  OBVIOUS
<1>2. ASSUME NEW k \in 0 .. N - 1, k \in T PROVE k + 1 \in T
  <2>1. k + 1 \in 1 .. N /\ (k + 1) - 1 = k /\ s[k] \in V
    BY <1>2
  <2> QED  BY <2>1
<1> HIDE DEF T
<1>3. 0 .. N \subseteq T
  BY <1>1, <1>2, BoundedInduction
<1> QED  BY <1>3 DEF T
=============================================================================

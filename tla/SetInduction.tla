---------------------------- MODULE SetInduction ----------------------------
(***************************************************************************)
(* Induction over sets of numbers, and functions defined by recursion.     *)
(* The library states both for an operator, which the provers cannot       *)
(* instantiate; here the claim is a set: the numbers it holds for.         *)
(***************************************************************************)
EXTENDS Integers, FiniteSetsExt, WellFoundedInduction, TLAPS

\* A well-founded relation has a minimal element in every set of numbers.
LEMMA Minimal ==
  ASSUME NEW R, IsWellFoundedOn(R, Nat), NEW T, T \subseteq Nat, T # {}
  PROVE  \E x \in T : \A y \in T : ~(<<y, x>> \in R)
  BY WFMin, Zenon

\* Every set of numbers has a least one.
LEMMA Least ==
  ASSUME NEW T, T \subseteq Nat, T # {}
  PROVE  \E x \in T : \A y \in T : x <= y
  <1> DEFINE Less == OpToRel(<, Nat)
  <1>1. Less = {ss \in Nat \X Nat : ss[1] < ss[2]}
    BY DEF OpToRel
  <1>2. IsWellFoundedOn(Less, Nat)
    BY NatLessThanWellFounded
  <1>3. \A x, y \in Nat : y < x => <<y, x>> \in Less
    BY <1>1
  <1> HIDE DEF Less
  <1>4. PICK x \in T : \A y \in T : ~(<<y, x>> \in Less)
    BY <1>2, Minimal
  <1>5. ASSUME NEW y \in T PROVE x <= y
    <2>1. x \in Nat /\ y \in Nat /\ ~(<<y, x>> \in Less)
      BY <1>4
    <2>2. ~(y < x)
      BY <1>3, <2>1
    <2> QED BY <2>1, <2>2
  <1> QED BY <1>4, <1>5

\* The minimum the community modules choose, of SelectInSeq among others.
LEMMA Lowest ==
  ASSUME NEW I, I \subseteq Nat, I # {}
  PROVE  Min(I) \in I /\ \A j \in I : Min(I) <= j
  <1>1. \E i \in I : \A j \in I : i <= j
    BY Least
  <1> QED BY <1>1 DEF Min

\* Induction, over a set: no lemma can take the operator.
LEMMA Inductive ==
  ASSUME NEW S, 0 \in S, \A n \in Nat : n \in S => n + 1 \in S
  PROVE  Nat \subseteq S
  <1> SUFFICES ASSUME ~(Nat \subseteq S) PROVE FALSE
    OBVIOUS
  <1> DEFINE T == Nat \ S
  <1>1. PICK n \in T : \A y \in T : n <= y
    BY Least
  <1>2. n # 0 /\ n - 1 \in Nat /\ n - 1 \in S
    BY <1>1
  <1> QED BY <1>1, <1>2

\* The same up to n.
LEMMA InductiveUpTo ==
  ASSUME NEW n \in Nat, NEW S, 0 \in S, \A i \in 1 .. n : i - 1 \in S => i \in S
  PROVE  0 .. n \subseteq S
  <1> DEFINE T == {k \in Nat : k <= n => k \in S}
  <1>1. 0 \in T
    OBVIOUS
  <1>2. \A k \in Nat : k \in T => k + 1 \in T
    <2> SUFFICES ASSUME NEW k \in Nat, k \in T, k + 1 <= n PROVE k + 1 \in S
      OBVIOUS
    <2>1. k + 1 \in 1 .. n /\ (k + 1) - 1 = k /\ k \in S
      OBVIOUS
    <2> QED BY <2>1
  <1> HIDE DEF T
  <1>3. Nat \subseteq T
    BY <1>1, <1>2, Inductive
  <1> QED BY <1>3 DEF T

\* What a recursive function on 0 .. n does, one step given by a function.
StepMaps(n, V) == [(1 .. n) \X V -> V]

Follows(f, n, V, base, G) ==
  /\ f \in [0 .. n -> V]
  /\ f[0] = base
  /\ \A i \in 1 .. n : f[i] = G[<<i, f[i - 1]>>]

\* There is such a function.
LEMMA Recursive ==
  ASSUME NEW V, NEW base \in V, NEW n \in Nat, NEW G \in StepMaps(n, V)
  PROVE  \E f : Follows(f, n, V, base, G)
  <1> DEFINE S == {k \in Nat : k <= n => \E f : Follows(f, k, V, base, G)}
  <1>1. 0 \in S
    <2> DEFINE f == [i \in 0 .. 0 |-> base]
    <2>1. Follows(f, 0, V, base, G)
      BY DEF Follows
    <2> QED BY <2>1
  <1>2. ASSUME NEW k \in Nat, k \in S PROVE k + 1 \in S
    <2> SUFFICES ASSUME k + 1 <= n PROVE \E f : Follows(f, k + 1, V, base, G)
      OBVIOUS
    <2>1. PICK g : Follows(g, k, V, base, G)
      BY <1>2
    <2> DEFINE f == [i \in 0 .. k + 1 |-> IF i = k + 1 THEN G[<<i, g[k]>>] ELSE g[i]]
    <2>2. G[<<k + 1, g[k]>>] \in V
      <3>1. <<k + 1, g[k]>> \in (1 .. n) \X V
        BY <2>1 DEF Follows
      <3> QED BY <3>1 DEF StepMaps
    <2>3. f \in [0 .. k + 1 -> V]
      BY <2>1, <2>2 DEF Follows
    <2>4. f[0] = base /\ \A i \in 1 .. k + 1 : f[i] = G[<<i, f[i - 1]>>]
      BY <2>1 DEF Follows
    <2> QED BY <2>3, <2>4 DEF Follows
  <1> HIDE DEF S
  <1>3. n \in S
    BY <1>1, <1>2, Inductive
  <1> QED BY <1>3 DEF S
=============================================================================

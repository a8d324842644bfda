------------------------------- MODULE Induction -------------------------------
(***************************************************************************)
(* Induction over numbers without a predicate as a parameter: a set of     *)
(* numbers that has 0, and with each number the next one, has all of them; *)
(* and a recursive function on numbers has the values its definition says. *)
(***************************************************************************)
EXTENDS Integers, Sequences, WellFoundedInduction, TLAPS

LEMMA CountUp ==
  ASSUME NEW n \in Nat, NEW T, 0 \in T,
         \A k \in 1 .. n : k - 1 \in T => k \in T
  PROVE  \A k \in 0 .. n : k \in T
<1> DEFINE Missing == {k \in 0 .. n : k \notin T}
<1> SUFFICES ASSUME Missing # {}
             PROVE  FALSE
  OBVIOUS
<1>1. Missing \subseteq Nat
  OBVIOUS
<1>2. PICK least \in Missing : \A k \in Missing : ~(<<k, least>> \in OpToRel(<, Nat))
  BY <1>1, WFMin, NatLessThanWellFounded
<1>3. least \in 0 .. n /\ least \notin T /\ least # 0
  BY <1>2
<1>4. least - 1 \in Nat /\ <<least - 1, least>> \in OpToRel(<, Nat)
  BY <1>3 DEF OpToRel
<1>5. least - 1 \notin Missing
  BY <1>2, <1>4
<1>6. least - 1 \in T
  <2>1. least - 1 \in 0 .. n
    BY <1>3
  <2> QED
    BY <1>5, <2>1
<1> QED
  BY <1>3, <1>6

\* There is a function on numbers that is defined from 0 up.
DefinedUpTo(n, V, start, G) ==
    \E f \in [0 .. n -> V] : f[0] = start /\ \A k \in 1 .. n : f[k] = G[<<k, f[k - 1]>>]

LEMMA StepByStep ==
  ASSUME NEW n \in Nat, NEW V, NEW start \in V, NEW G \in [(1 .. n) \X V -> V]
  PROVE  DefinedUpTo(n, V, start, G)
<1> DEFINE Follows(f, k) == f[0] = start /\ \A i \in 1 .. k : f[i] = G[<<i, f[i - 1]>>]
           T == {k \in 0 .. n : \E f \in [0 .. k -> V] : Follows(f, k)}
<1>1. 0 \in T
  <2> DEFINE f == [i \in 0 .. 0 |-> start]
  <2>1. f \in [0 .. 0 -> V] /\ f[0] = start
    OBVIOUS
  <2>2. Follows(f, 0)
    BY <2>1
  <2> HIDE DEF f, Follows
  <2>3. 0 \in 0 .. n /\ \E h \in [0 .. 0 -> V] : Follows(h, 0)
    BY <2>1, <2>2
  <2> QED
    BY <2>3
<1>2. ASSUME NEW k \in 1 .. n, k - 1 \in T
      PROVE  k \in T
  <2>1. PICK f \in [0 .. k - 1 -> V] : Follows(f, k - 1)
    BY <1>2
  <2> DEFINE next == G[<<k, f[k - 1]>>]
             g == [i \in 0 .. k |-> IF i < k THEN f[i] ELSE next]
  <2>2. next \in V
    <3>1. k - 1 \in 0 .. k - 1
      OBVIOUS
    <3>2. f[k - 1] \in V
      BY <3>1
    <3>3. <<k, f[k - 1]>> \in (1 .. n) \X V
      BY <3>2
    <3> QED
      BY <3>3
  <2>3. g \in [0 .. k -> V] /\ g[k] = next /\ \A i \in 0 .. k - 1 : g[i] = f[i]
    <3> HIDE DEF next
    <3>1. \A i \in 0 .. k : i < k => i \in 0 .. k - 1
      OBVIOUS
    <3> QED
      BY <2>2, <3>1
  <2>4. Follows(g, k)
    <3> HIDE DEF g
    <3>1. g[0] = start
      <4>1. 0 \in 0 .. k - 1
        OBVIOUS
      <4> QED
        BY <2>1, <2>3, <4>1
    <3>2. ASSUME NEW i \in 1 .. k
          PROVE  g[i] = G[<<i, g[i - 1]>>]
      <4>1. i - 1 \in 0 .. k - 1
        OBVIOUS
      <4>2. g[i - 1] = f[i - 1]
        BY <2>3, <4>1
      <4>3. CASE i = k
        BY <2>3, <4>2, <4>3
      <4>4. CASE i # k
        <5>1. i \in 1 .. k - 1 /\ i \in 0 .. k - 1
          BY <4>4
        <5> QED
          BY <2>1, <2>3, <4>2, <5>1
      <4> QED
        BY <4>3, <4>4
    <3> QED
      BY <3>1, <3>2
  <2> HIDE DEF g, Follows
  <2>5. g \in [0 .. k -> V]
    BY <2>3
  <2>6. \E h \in [0 .. k -> V] : Follows(h, k)
    BY <2>4, <2>5
  <2> QED
    BY <2>6
<1>3. n \in T
  <2> HIDE DEF T
  <2> QED
    BY <1>1, <1>2, CountUp
<1> QED
  BY <1>3 DEF DefinedUpTo

\* A function that is defined so from what is in V stays in V.
LEMMA StaysIn ==
  ASSUME NEW n \in Nat, NEW V, NEW G \in [(1 .. n) \X V -> V], NEW f, f[0] \in V,
         \A k \in 1 .. n : f[k - 1] \in V => f[k] = G[<<k, f[k - 1]>>]
  PROVE  \A k \in 0 .. n : f[k] \in V
<1> DEFINE T == {k \in 0 .. n : f[k] \in V}
<1>1. 0 \in T
  OBVIOUS
<1>2. ASSUME NEW k \in 1 .. n, k - 1 \in T
      PROVE  k \in T
  <2>1. f[k - 1] \in V
    BY <1>2
  <2>2. <<k, f[k - 1]>> \in (1 .. n) \X V
    BY <2>1
  <2>3. G[<<k, f[k - 1]>>] \in V
    BY <2>2
  <2> QED
    BY <2>1, <2>3
<1> HIDE DEF T
<1>3. \A k \in 0 .. n : k \in T
  BY <1>1, <1>2, CountUp
<1> QED
  BY <1>3 DEF T

-----------------------------------------------------------------------------
(* Sequences                                                               *)

LEMMA FunctionIsSeq ==
  ASSUME NEW n \in Nat, NEW S, NEW f \in [1 .. n -> S]
  PROVE  f \in Seq(S) /\ Len(f) = n
  OBVIOUS

LEMMA Elements ==
  ASSUME NEW S, NEW s \in Seq(S), NEW i \in 1 .. Len(s)
  PROVE  s[i] \in S
  OBVIOUS
================================================================================

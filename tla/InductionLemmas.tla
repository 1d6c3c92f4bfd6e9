--------------------------- MODULE InductionLemmas ---------------------------
(***************************************************************************)
(* Induction over the natural numbers as a statement about a set, and what *)
(* follows from it for the definitions by recursion that the modules use.  *)
(* The library states induction with an operator for the property; here    *)
(* the property is the set of the numbers that have it, so that the lemma  *)
(* can be cited like any other.                                            *)
(***************************************************************************)
EXTENDS Integers, SequencesExt, FiniteSetTheorems, TLAPS

(***************************************************************************)
(* A set of numbers that holds 0 and, with a number, its successor, holds  *)
(* them all: were m the first one missing, k |-> k + 1 would map the       *)
(* members up to m into a smaller set without merging two of them.         *)
(***************************************************************************)
LEMMA SetInduction ==
  ASSUME NEW P \in SUBSET Nat, 0 \in P, \A k \in P : k + 1 \in P
  PROVE  P = Nat
<1> SUFFICES ASSUME NEW m \in Nat, m \notin P PROVE FALSE
  OBVIOUS
<1> DEFINE S == P \cap 0 .. m
           next == [k \in S |-> k + 1]
<1>1. IsFiniteSet(S)
  <2>1. IsFiniteSet(0 .. m)
    BY FS_Interval
  <2>2. S \in SUBSET (0 .. m)
    OBVIOUS
  <2>3. QED
    BY <2>1, <2>2, FS_Subset
<1>2. 0 \in S
  OBVIOUS
<1>3. IsFiniteSet(S \ {0}) /\ Cardinality(S \ {0}) = Cardinality(S) - 1
  <2> HIDE DEF S
  <2> QED BY <1>1, <1>2, FS_RemoveElement
<1>4. next \in Injection(S, S \ {0})
  <2>1. \A k \in S : k + 1 \in S \ {0}
    OBVIOUS
  <2>2. next \in [S -> S \ {0}]
    BY <2>1
  <2>3. \A a, b \in S : next[a] = next[b] => a = b
    OBVIOUS
  <2>4. QED
    BY <2>2, <2>3 DEF Injection, IsInjective
<1>5. Cardinality(S) <= Cardinality(S \ {0})
  <2> HIDE DEF S, next
  <2> QED BY <1>3, <1>4, FS_Injection
<1>6. QED
  <2> HIDE DEF S, next
  <2> QED BY <1>1, <1>3, <1>5, FS_CardinalityType

(***************************************************************************)
(* A set of numbers that is not empty has a least element.                 *)
(***************************************************************************)
LEMMA LeastNumber ==
  ASSUME NEW S \in SUBSET Nat, S # {}
  PROVE  \E m \in S : \A n \in S : m <= n
<1> SUFFICES ASSUME \A m \in S : \E n \in S : n < m PROVE FALSE
  OBVIOUS
<1> DEFINE P == {k \in Nat : \A n \in S : k < n}
<1>1. 0 \in P
  OBVIOUS
<1>2. ASSUME NEW k \in P PROVE k + 1 \in P
  OBVIOUS
<1>3. P = Nat
  <2>1. P \in SUBSET Nat
    OBVIOUS
  <2> HIDE DEF P
  <2>2. QED
    BY <1>1, <1>2, <2>1, SetInduction
<1>4. PICK n \in S : n \in P
  BY <1>3
<1>5. QED
  BY <1>4

(***************************************************************************)
(* A recursion on the numbers up to n has a function that follows it.  The *)
(* defining equations are kept apart from IF, to be matched as they are.   *)
(***************************************************************************)
Follows(g, a, step, n) == g[0] = a /\ \A k \in 1 .. n : g[k] = step[k][g[k - 1]]

LEMMA RecursionExists ==
  ASSUME NEW X, NEW a \in X, NEW step \in [Nat -> [X -> X]], NEW n \in Nat
  PROVE  \E g \in [0 .. n -> X] : Follows(g, a, step, n)
<1> DEFINE P == {m \in Nat : \E g \in [0 .. m -> X] : Follows(g, a, step, m)}
<1>1. 0 \in P
  <2>1. [k \in 0 .. 0 |-> a] \in [0 .. 0 -> X] /\ Follows([k \in 0 .. 0 |-> a], a, step, 0)
    BY DEF Follows
  <2>2. QED
    BY <2>1
<1>2. ASSUME NEW m \in P PROVE m + 1 \in P
  <2>1. PICK g \in [0 .. m -> X] : Follows(g, a, step, m)
    OBVIOUS
  <2> DEFINE h == [k \in 0 .. m + 1 |-> IF k = m + 1 THEN step[k][g[m]] ELSE g[k]]
  <2>2. h \in [0 .. m + 1 -> X]
    <3>1. \A k \in 0 .. m + 1 : h[k] \in X
      OBVIOUS
    <3>2. QED
      BY <3>1
  <2>3. ASSUME NEW k \in 1 .. m + 1 PROVE h[k] = step[k][h[k - 1]]
    <3>1. CASE k = m + 1
      BY <3>1
    <3>2. CASE k # m + 1
      <4>1. k \in 1 .. m
        BY <3>2
      <4>2. h[k] = g[k] /\ h[k - 1] = g[k - 1]
        BY <4>1
      <4>3. QED
        BY <2>1, <4>1, <4>2 DEF Follows
    <3>3. QED
      BY <3>1, <3>2
  <2>4. h[0] = a
    BY <2>1 DEF Follows
  <2>5. QED
    <3> HIDE DEF h
    <3>1. m + 1 \in Nat /\ Follows(h, a, step, m + 1)
      BY <2>3, <2>4 DEF Follows
    <3>2. QED
      BY <2>2, <3>1
<1>3. P = Nat
  <2>1. P \in SUBSET Nat
    OBVIOUS
  <2> HIDE DEF P
  <2>2. QED
    BY <1>1, <1>2, <2>1, SetInduction
<1>4. n \in P
  <2> HIDE DEF P
  <2> QED BY <1>3
<1>5. QED
  BY <1>4

(***************************************************************************)
(* The values of a function that follows a recursion satisfy what holds of *)
(* the first one and is passed on by each step.                            *)
(***************************************************************************)
LEMMA RecursionInvariant ==
  ASSUME NEW n \in Nat, NEW g, NEW I, g[0] \in I,
         \A k \in 1 .. n : g[k - 1] \in I => g[k] \in I
  PROVE  \A k \in 0 .. n : g[k] \in I
<1> DEFINE P == {k \in Nat : k \in 0 .. n => g[k] \in I}
<1>1. 0 \in P
  OBVIOUS
<1>2. ASSUME NEW k \in P PROVE k + 1 \in P
  <2> SUFFICES ASSUME k + 1 \in 0 .. n PROVE g[k + 1] \in I
    OBVIOUS
  <2>1. k + 1 \in 1 .. n /\ g[(k + 1) - 1] \in I
    OBVIOUS
  <2>2. QED
    BY <2>1
<1>3. P = Nat
  <2>1. P \in SUBSET Nat
    OBVIOUS
  <2> HIDE DEF P
  <2>2. QED
    BY <1>1, <1>2, <2>1, SetInduction
<1>4. QED
  BY <1>3

(***************************************************************************)
(* FlattenSeq puts together sequences over one set.                        *)
(***************************************************************************)
LEMMA FlattenSeqType ==
  ASSUME NEW S, NEW ss \in Seq(Seq(S))
  PROVE  FlattenSeq(ss) \in Seq(S)
<1>1. CASE Len(ss) = 0
  BY <1>1 DEF FlattenSeq
<1>2. CASE Len(ss) # 0
  <2> DEFINE n == Len(ss)
             Eq(g) == g = [i \in 1 .. n |-> IF i = 1 THEN ss[i] ELSE g[i - 1] \o ss[i]]
             flat == CHOOSE g : Eq(g)
             step == [k \in Nat |-> [q \in Seq(S) |-> IF k \in 1 .. n THEN q \o ss[k] ELSE q]]
  <2>1. n \in Nat \ {0}
    BY <1>2
  <2>2. step \in [Nat -> [Seq(S) -> Seq(S)]]
    OBVIOUS
  <2>3. PICK g \in [0 .. n -> Seq(S)] : Follows(g, <<>>, step, n)
    <3>1. <<>> \in Seq(S)
      OBVIOUS
    <3> HIDE DEF n, step
    <3>2. QED
      BY <2>1, <2>2, <3>1, RecursionExists
  <2> DEFINE h == [i \in 1 .. n |-> g[i]]
  <2>4. \A i \in 1 .. n : h[i] = IF i = 1 THEN ss[i] ELSE h[i - 1] \o ss[i]
    <3> TAKE i \in 1 .. n
    <3>1. i \in Nat /\ ss[i] \in Seq(S) /\ i - 1 \in 0 .. n /\ g[i - 1] \in Seq(S)
      <4>1. i \in Nat /\ i - 1 \in 0 .. n
        BY <2>1
      <4>2. ss[i] \in Seq(S)
        OBVIOUS
      <4>3. g[i - 1] \in Seq(S)
        <5> HIDE DEF n
        <5> QED BY <4>1
      <4>4. QED
        BY <4>1, <4>2, <4>3
    <3>2. g[i] = step[i][g[i - 1]]
      BY <2>3 DEF Follows
    <3>3. step[i][g[i - 1]] = g[i - 1] \o ss[i]
      BY <3>1
    <3>4. CASE i = 1
      <4>1. g[0] = <<>> /\ <<>> \o ss[i] = ss[i]
        BY <2>3, <3>1 DEF Follows
      <4>2. h[i] = g[i] /\ g[i - 1] = g[0]
        BY <3>4
      <4>3. g[i] = <<>> \o ss[i]
        <5> HIDE DEF step
        <5> QED BY <3>2, <3>3, <4>1, <4>2
      <4>4. h[i] = ss[i]
        <5> HIDE DEF h
        <5> QED BY <4>1, <4>2, <4>3
      <4> HIDE DEF h
      <4>5. QED
        BY <3>4, <4>4, Zenon
    <3>5. CASE i # 1
      <4>1. h[i - 1] = g[i - 1] /\ h[i] = g[i]
        <5>1. i - 1 \in 1 .. n
          BY <3>5, <2>1
        <5> HIDE DEF n
        <5> QED BY <5>1
      <4>2. QED
        <5>1. h[i] = h[i - 1] \o ss[i]
          <6> HIDE DEF h, step
          <6> QED BY <3>2, <3>3, <4>1
        <5> HIDE DEF h
        <5>2. QED
          BY <3>5, <5>1, Zenon
    <3>6. QED
      BY <3>4, <3>5
  <2>5. Eq(h)
    <3>1. h = [i \in 1 .. n |-> h[i]]
      OBVIOUS
    <3> HIDE DEF h
    <3>2. QED
      BY <2>4, <3>1
  <2>6. Eq(flat)
    <3> HIDE DEF Eq
    <3> QED BY <2>5
  <2>7. \A k \in 0 .. n - 1 : flat[k + 1] \in Seq(S)
    <3> DEFINE f == [k \in 0 .. n - 1 |-> flat[k + 1]]
    <3> HIDE DEF flat
    <3>1. f[0] \in Seq(S)
      BY <2>6, <2>1
    <3>2. ASSUME NEW k \in 1 .. n - 1, f[k - 1] \in Seq(S) PROVE f[k] \in Seq(S)
      <4>1. k + 1 \in 1 .. n /\ k + 1 # 1 /\ (k + 1) - 1 = k
        BY <2>1
      <4>2. flat[k + 1] = flat[k] \o ss[k + 1]
        BY <2>6, <4>1
      <4>3. f[k - 1] = flat[k] /\ f[k] = flat[k + 1]
        BY <2>1
      <4>4. QED
        <5>1. flat[k] \in Seq(S) /\ ss[k + 1] \in Seq(S)
          BY <3>2, <4>1, <4>3
        <5>2. flat[k] \o ss[k + 1] \in Seq(S)
          BY <5>1
        <5>3. QED
          BY <5>2, <4>2, <4>3
    <3>3. \A k \in 0 .. n - 1 : f[k] \in Seq(S)
      <4> HIDE DEF f
      <4>1. n - 1 \in Nat
        BY <2>1
      <4>2. QED
        BY <3>1, <3>2, <4>1, RecursionInvariant
    <3>4. QED
      BY <3>3
  <2>8. flat[n] \in Seq(S)
    <3> HIDE DEF flat, n
    <3>1. n - 1 \in 0 .. n - 1 /\ (n - 1) + 1 = n
      BY <2>1
    <3>2. QED
      BY <2>7, <3>1
  <2>9. QED
    BY <1>2, <2>8 DEF FlattenSeq
<1>3. QED
  BY <1>1, <1>2
=============================================================================

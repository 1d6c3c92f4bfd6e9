---------------------------- MODULE RegistryProof ----------------------------
(***************************************************************************)
(* Proofs about the building of a schema from Rust types (SchemaRegistry): *)
(* for every program that compiles and every client.                       *)
(***************************************************************************)
EXTENDS SchemaRegistry, InductionLemmas, SequenceTheorems

Spec == RegistryInit /\ [][RegistryNext]_vars

(***************************************************************************)
(* Reach follows its recursion: the sets R[0], R[1], ... grow from start.  *)
(***************************************************************************)
Grown(R, next, start, n) ==
  R[0] = start /\ \A k \in 1 .. n : R[k] = UNION {{m} \cup next[m] : m \in R[k - 1]}

ReachedBy(R, D, next, start) ==
  /\ R \in [0 .. Cardinality(D) -> SUBSET D]
  /\ Grown(R, next, start, Cardinality(D))
  /\ Reach(next, start) = R[Cardinality(D)]

LEMMA ReachFollows ==
  ASSUME NEW D, IsFiniteSet(D), NEW next \in [D -> SUBSET D], NEW start \in SUBSET D
  PROVE  \E R : ReachedBy(R, D, next, start)
<1> DEFINE N == Cardinality(D)
           Eq(g) == g = [k \in 0 .. N |->
                           IF k = 0 THEN start ELSE UNION {{m} \cup next[m] : m \in g[k - 1]}]
           R == CHOOSE g : Eq(g)
           step == [k \in Nat |-> [r \in SUBSET D |-> UNION {{m} \cup next[m] : m \in r}]]
<1>1. N \in Nat
  BY FS_CardinalityType
<1>2. step \in [Nat -> [SUBSET D -> SUBSET D]]
  OBVIOUS
<1>3. PICK g \in [0 .. N -> SUBSET D] : Follows(g, start, step, N)
  <2> DEFINE X == SUBSET D
  <2>1. start \in X /\ step \in [Nat -> [X -> X]]
    BY <1>2
  <2> HIDE DEF N, step, X
  <2>2. \E g \in [0 .. N -> X] : Follows(g, start, step, N)
    BY <1>1, <2>1, RecursionExists
  <2>3. QED
    BY <2>2 DEF X
<1>4. Eq(g)
  <2>1. \A k \in 0 .. N : g[k] = IF k = 0 THEN start ELSE UNION {{m} \cup next[m] : m \in g[k - 1]}
    <3> TAKE k \in 0 .. N
    <3>1. CASE k = 0
      BY <1>3, <3>1 DEF Follows
    <3>2. CASE k # 0
      <4>1. k \in 1 .. N /\ k \in Nat /\ g[k - 1] \in SUBSET D
        BY <1>1, <3>2
      <4>2. g[k] = step[k][g[k - 1]]
        BY <1>3, <4>1 DEF Follows
      <4>3. QED
        BY <3>2, <4>1, <4>2
    <3>3. QED
      BY <3>1, <3>2
  <2>2. QED
    BY <2>1
<1>5. Eq(R)
  <2> HIDE DEF Eq
  <2> QED BY <1>4
<1>6. Grown(R, next, start, N)
  <2>1. R[0] = start
    <3> HIDE DEF R
    <3> QED BY <1>1, <1>5
  <2>2. ASSUME NEW k \in 1 .. N PROVE R[k] = UNION {{m} \cup next[m] : m \in R[k - 1]}
    <3>1. k \in 0 .. N /\ k # 0
      BY <1>1
    <3> HIDE DEF R
    <3>2. QED
      BY <1>5, <3>1
  <2> HIDE DEF R
  <2>3. QED
    BY <2>1, <2>2 DEF Grown
<1>7. R \in [0 .. N -> SUBSET D]
  <2> HIDE DEF R
  <2>1. \A k \in 0 .. N : R[k] \in SUBSET D
    <3>1. R[0] \in SUBSET D
      BY <1>6 DEF Grown
    <3>2. ASSUME NEW k \in 1 .. N, R[k - 1] \in SUBSET D PROVE R[k] \in SUBSET D
      BY <1>6, <3>2 DEF Grown
    <3>3. QED
      <4> DEFINE I == SUBSET D
      <4>1. R[0] \in I /\ \A k \in 1 .. N : R[k - 1] \in I => R[k] \in I
        BY <3>1, <3>2
      <4> HIDE DEF I, N
      <4>2. \A k \in 0 .. N : R[k] \in I
        BY <1>1, <4>1, RecursionInvariant
      <4>3. QED
        BY <4>2 DEF I
  <2>2. QED
    BY <1>5, <2>1
<1>8. Reach(next, start) = R[N]
  <2>1. DOMAIN next = D
    OBVIOUS
  <2>2. QED
    BY <2>1 DEF Reach
<1>9. QED
  <2>1. ReachedBy(R, D, next, start)
    <3> HIDE DEF R
    <3> QED BY <1>6, <1>7, <1>8 DEF ReachedBy
  <2>2. QED
    BY <2>1

(***************************************************************************)
(* Reach(next, start) is the least set that holds start and is closed      *)
(* under next, in a graph of finitely many nodes: either a set of the      *)
(* recursion is closed or the next one is larger, and none is larger than  *)
(* the graph.  A node outside start was reached from another one.          *)
(***************************************************************************)
Closed(next, S) == \A n \in S : next[n] \subseteq S

LEMMA ReachClosed ==
  ASSUME NEW D, IsFiniteSet(D), NEW next \in [D -> SUBSET D], NEW start \in SUBSET D
  PROVE  /\ Reach(next, start) \in SUBSET D
         /\ start \subseteq Reach(next, start)
         /\ Closed(next, Reach(next, start))
         /\ \A n \in Reach(next, start) \ start :
              \E m \in Reach(next, start) \ {n} : n \in next[m]
<1> DEFINE N == Cardinality(D)
<1>1. N \in Nat
  BY FS_CardinalityType
<1>2. PICK R : ReachedBy(R, D, next, start)
  BY ReachFollows
<1>3. /\ R \in [0 .. N -> SUBSET D]
      /\ Grown(R, next, start, N) /\ Reach(next, start) = R[N]
  BY <1>2 DEF ReachedBy
<1> HIDE DEF N
<1>4. \A k \in 0 .. N : R[k] \in {r \in SUBSET D : start \subseteq r}
  <2> DEFINE I == {r \in SUBSET D : start \subseteq r}
  <2>1. R[0] \in I
    BY <1>3 DEF Grown
  <2>2. ASSUME NEW k \in 1 .. N, R[k - 1] \in I PROVE R[k] \in I
    BY <1>3, <2>2 DEF Grown
  <2> HIDE DEF I
  <2>3. \A k \in 0 .. N : R[k] \in I
    BY <1>1, <2>1, <2>2, RecursionInvariant
  <2>4. QED
    BY <2>3 DEF I
<1>5. \A k \in 0 .. N :
         R[k] \in {r \in SUBSET D : \A n \in r \ start : \E m \in r \ {n} : n \in next[m]}
  <2> DEFINE I == {r \in SUBSET D : \A n \in r \ start : \E m \in r \ {n} : n \in next[m]}
  <2>1. R[0] \in I
    BY <1>3 DEF Grown
  <2>2. ASSUME NEW k \in 1 .. N, R[k - 1] \in I PROVE R[k] \in I
    <3>1. R[k] = UNION {{m} \cup next[m] : m \in R[k - 1]}
      BY <1>3 DEF Grown
    <3>2. k \in 0 .. N /\ R[k] \in SUBSET D /\ R[k - 1] \subseteq R[k]
      BY <3>1, <1>4
    <3>3. ASSUME NEW n \in R[k] \ start PROVE \E m \in R[k] \ {n} : n \in next[m]
      <4>1. CASE n \in R[k - 1]
        BY <2>2, <3>2, <4>1
      <4>2. CASE n \notin R[k - 1]
        BY <3>1, <3>2, <4>2
      <4>3. QED
        BY <4>1, <4>2
    <3>4. QED
      BY <3>2, <3>3
  <2> HIDE DEF I
  <2>3. \A k \in 0 .. N : R[k] \in I
    BY <1>1, <2>1, <2>2, RecursionInvariant
  <2>4. QED
    BY <2>3 DEF I
<1>6. Closed(next, R[N])
  <2> DEFINE P == {k \in Nat : k \in 0 .. N => Closed(next, R[k]) \/ k <= Cardinality(R[k])}
  <2>1. 0 \in P
    <3>1. IsFiniteSet(R[0])
      BY <1>1, <1>3, FS_Subset
    <3>2. QED
      BY <3>1, FS_CardinalityType
  <2>2. ASSUME NEW k \in P PROVE k + 1 \in P
    <3> SUFFICES ASSUME k + 1 \in 0 .. N
                 PROVE  Closed(next, R[k + 1]) \/ k + 1 <= Cardinality(R[k + 1])
      OBVIOUS
    <3>1. k \in 0 .. N /\ k + 1 \in 1 .. N /\ (k + 1) - 1 = k
      BY <1>1
    <3>2. R[k + 1] = UNION {{m} \cup next[m] : m \in R[k]}
      BY <1>3, <3>1 DEF Grown
    <3>3. R[k] \subseteq R[k + 1] /\ R[k] \in SUBSET D /\ R[k + 1] \in SUBSET D
      BY <3>1, <3>2, <1>3
    <3>4. CASE Closed(next, R[k])
      <4>1. R[k + 1] = R[k]
        BY <3>2, <3>3, <3>4 DEF Closed
      <4>2. QED
        BY <3>4, <4>1
    <3>5. CASE ~Closed(next, R[k])
      <4>1. k <= Cardinality(R[k])
        BY <3>1, <3>5
      <4>2. PICK n \in R[k + 1] : n \notin R[k]
        BY <3>2, <3>3, <3>5 DEF Closed
      <4>3. IsFiniteSet(R[k]) /\ IsFiniteSet(R[k + 1]) /\ IsFiniteSet(R[k] \cup {n})
        BY <3>3, FS_Subset, FS_AddElement
      <4>4. Cardinality(R[k] \cup {n}) = Cardinality(R[k]) + 1
        BY <4>2, <4>3, FS_AddElement
      <4>5. Cardinality(R[k] \cup {n}) <= Cardinality(R[k + 1])
        <5>1. R[k] \cup {n} \in SUBSET R[k + 1]
          BY <3>3, <4>2
        <5>2. QED
          BY <4>3, <5>1, FS_Subset
      <4>6. Cardinality(R[k]) \in Nat /\ Cardinality(R[k + 1]) \in Nat
        BY <4>3, FS_CardinalityType
      <4>7. QED
        BY <4>1, <4>4, <4>5, <4>6
    <3>6. QED
      BY <3>4, <3>5
  <2>3. P = Nat
    <3>1. P \in SUBSET Nat
      OBVIOUS
    <3> HIDE DEF P
    <3>2. QED
      BY <2>1, <2>2, <3>1, SetInduction
  <2>4. Closed(next, R[N]) \/ N <= Cardinality(R[N])
    BY <1>1, <2>3
  <2>5. ASSUME N <= Cardinality(R[N]) PROVE R[N] = D
    <3>1. R[N] \in SUBSET D
      BY <1>1, <1>3
    <3>2. Cardinality(R[N]) = N
      BY <2>5, <3>1, <1>1, FS_Subset, FS_CardinalityType DEF N
    <3>3. QED
      BY <3>1, <3>2, FS_Subset DEF N
  <2>6. QED
    BY <2>4, <2>5 DEF Closed
<1>7. N \in 0 .. N
  BY <1>1
<1>8. QED
  BY <1>3, <1>4, <1>5, <1>6, <1>7

(***************************************************************************)
(* What holds while a schema is built.                                     *)
(*                                                                         *)
(* The calls a constructor makes fit its kind: only input objects create   *)
(* the types of input fields, and they create nothing else.                *)
(***************************************************************************)
Kind(d) == Decl(d).kind

RolesOf(kind) == IF kind = "InputObject" THEN {"input"} ELSE {"out", "arg", "possible"}

CallRoles(kind) ==
  CASE kind = "InputObject" -> {"input"}
    [] kind \in {"Scalar", "Enum"} -> {}
    [] OTHER -> {"out", "arg", "possible", "extend", "none"}

KindsFor(role) ==
  CASE role \in {"arg", "input"} -> InputKinds
    [] role = "out" -> OutputKinds
    [] role \in {"possible", "extend"} -> {"Object"}
    [] OTHER -> {"Object", "Interface"}

FitCalls(d) ==
  {c \in CallSet :
     /\ c.op = "close" => c.decl = d
     /\ c.op = "create" => c.role \in CallRoles(Kind(d)) /\ Kind(c.decl) \in KindsFor(c.role)}

FitRefs(kind) ==
  {r \in RefSet : r.role \in RolesOf(kind) /\ r.decl \in Decls /\ Kind(r.decl) \in KindsFor(r.role)}

(***************************************************************************)
(* The registered type n was made from the declaration d, or a scalar      *)
(* took its name.                                                          *)
(***************************************************************************)
MadeFrom(n, d) == types[n].rust = Decl(d).rust /\ types[n].kind = Kind(d)

StandsFor(n, d) == types[n].kind = "Scalar" \/ MadeFrom(n, d)

\* the constructor of the frame has not returned yet
Pending(fr) == \E i \in DOMAIN fr.calls : fr.calls[i].op = "close"

(***************************************************************************)
(* The frames: each is a call of the one below it; an input type creates   *)
(* input types only, so no input object is under construction when an      *)
(* output type is created and an input object is renamed; a type under     *)
(* construction is the empty one of its declaration, and it has another    *)
(* name than its own only when an object has that.                         *)
(***************************************************************************)
FrameFits(fr) ==
  /\ fr.calls \in Seq(FitCalls(fr.decl))
  /\ fr.refs \in Seq(FitRefs(Kind(fr.decl)))
  /\ types[fr.name].kind \in {"Scalar", Kind(fr.decl)}
  /\ Pending(fr) => MadeFrom(fr.name, fr.decl)
  /\ Kind(fr.decl) # "InputObject" => fr.name = Decl(fr.decl).name
  /\ Pending(fr) /\ fr.name # Decl(fr.decl).name =>
       Decl(fr.decl).name \in DOMAIN types /\ types[Decl(fr.decl).name].kind = "Object"

CallsChain ==
  \A i \in DOMAIN stack : i + 1 \in DOMAIN stack =>
    /\ stack[i].calls # <<>>
    /\ Head(stack[i].calls).op = "create" /\ Head(stack[i].calls).decl = stack[i + 1].decl

InputsAbove ==
  \A i, j \in DOMAIN stack :
    i < j /\ Kind(stack[i].decl) \in InputKinds => Kind(stack[j].decl) \in InputKinds

StackInv == CallsChain /\ InputsAbove /\ \A i \in DOMAIN stack : FrameFits(stack[i])

(***************************************************************************)
(* The types: every reference, in a type or in a frame, names a registered *)
(* type; a type is known by its name once its constructor has returned.    *)
(***************************************************************************)
TargetsExist(refs) == \A i \in DOMAIN refs : refs[i].to \in DOMAIN types

TypesInv ==
  /\ IsFiniteSet(DOMAIN types)
  /\ Entity \notin DOMAIN types /\ Service \notin DOMAIN types
  /\ \A n \in DOMAIN types :
       /\ types[n].refs \in Seq(FitRefs(types[n].kind)) /\ TargetsExist(types[n].refs)
       /\ types[n].name = n \/ \E i \in DOMAIN stack : stack[i].name = n /\ Pending(stack[i])
       /\ types[n].kind = "Scalar" => n \in ScalarNames
  /\ \A i \in DOMAIN stack : TargetsExist(stack[i].refs)
  /\ TargetsExist(directives)

(***************************************************************************)
(* Where no conflict of names is ignored, every reference but those of     *)
(* arguments stands for what it was written for.                           *)
(***************************************************************************)
RefsMean(refs) == \A i \in DOMAIN refs : refs[i].role # "arg" => StandsFor(refs[i].to, refs[i].decl)

MeaningInv ==
  program.ignore_name_conflicts = {} =>
    /\ \A n \in DOMAIN types : RefsMean(types[n].refs)
    /\ \A i \in DOMAIN stack : RefsMean(stack[i].refs) /\ StandsFor(stack[i].name, stack[i].decl)

(***************************************************************************)
(* The phases: only a schema that is built is shown to clients.            *)
(***************************************************************************)
PhaseInv ==
  /\ Compiles(program) /\ phase # "none"
  /\ phase # "built" => client = NoClient
  /\ stack # <<>> => todo # <<>>

BuiltInv ==
  /\ IsFiniteSet(DOMAIN types)
  /\ \A n \in DOMAIN types : types[n].name = n /\ TargetsExist(types[n].refs)
  /\ NamesResolved /\ ListedExactly

RegistryInv ==
  /\ RegistryTypeOK /\ PhaseInv
  /\ phase # "built" => TypesInv /\ StackInv /\ MeaningInv
  /\ phase = "built" => BuiltInv

(***************************************************************************)
(* Sequences: one made element by element from another, and the top of a   *)
(* stack.                                                                  *)
(***************************************************************************)
LEMMA SeqOfValues ==
  ASSUME NEW T, NEW S, NEW s \in Seq(T), NEW f, f = [i \in DOMAIN s |-> f[i]],
         \A i \in DOMAIN s : f[i] \in S
  PROVE  f \in Seq(S) /\ Len(f) = Len(s) /\ DOMAIN f = DOMAIN s
<1>1. Len(s) \in Nat /\ DOMAIN s = 1 .. Len(s)
  OBVIOUS
<1>2. f \in [1 .. Len(s) -> S]
  BY <1>1
<1>3. f \in Seq(S)
  BY <1>1, <1>2
<1>4. QED
  BY <1>1, <1>2, <1>3

LEMMA TopFacts ==
  ASSUME NEW S, NEW s \in Seq(S), s # <<>>
  PROVE  /\ Len(s) \in Nat \ {0} /\ DOMAIN s = 1 .. Len(s)
         /\ Last(s) = s[Len(s)] /\ Last(s) \in S
         /\ Front(s) \in Seq(S) /\ Len(Front(s)) = Len(s) - 1
         /\ DOMAIN Front(s) = 1 .. Len(s) - 1
         /\ \A i \in 1 .. Len(s) - 1 : Front(s)[i] = s[i]
<1>1. Len(s) \in Nat \ {0} /\ DOMAIN s = 1 .. Len(s)
  BY EmptySeq
<1>2. Last(s) = s[Len(s)] /\ Last(s) \in S
  BY <1>1, ElementOfSeq DEF Last
<1>3. \A i \in 1 .. Len(s) - 1 : s[i] \in S
  BY <1>1, ElementOfSeq
<1>4. /\ Front(s) \in Seq(S) /\ Len(Front(s)) = Len(s) - 1
      /\ \A i \in 1 .. Len(s) - 1 : Front(s)[i] = s[i]
  BY <1>1, <1>3, SubSeqProperties DEF Front
<1>5. QED
  BY <1>1, <1>2, <1>4

Replaced(s, x) == Append(Front(s), x)

ReplacedFacts(S, s, x, t) ==
  /\ t \in Seq(S) /\ Len(t) = Len(s) /\ DOMAIN t = 1 .. Len(s)
  /\ \A i \in 1 .. Len(s) - 1 : t[i] = s[i]
  /\ t[Len(s)] = x

LEMMA ReplaceTop ==
  ASSUME NEW S, NEW s \in Seq(S), s # <<>>, NEW x \in S
  PROVE  ReplacedFacts(S, s, x, Replaced(s, x))
<1>1. Front(s) \in Seq(S) /\ Len(s) \in Nat \ {0} /\ Len(Front(s)) = Len(s) - 1
  BY TopFacts
<1>2. \A i \in 1 .. Len(s) - 1 : Front(s)[i] = s[i]
  BY TopFacts
<1>3. QED
  BY <1>1, <1>2, AppendProperties DEF Replaced, ReplacedFacts

Without(S, s, t) ==
  /\ t \in Seq(S) /\ Head(s) = s[1] /\ Head(s) \in S /\ 1 \in DOMAIN s
  /\ \A i \in DOMAIN t : i + 1 \in DOMAIN s /\ t[i] = s[i + 1]
  /\ \A i \in DOMAIN s : i = 1 \/ \E j \in DOMAIN t : t[j] = s[i]

LEMMA TailFacts ==
  ASSUME NEW S, NEW s \in Seq(S), s # <<>>, NEW t, t = Tail(s)
  PROVE  Without(S, s, t)
<1>1. /\ t \in Seq(S) /\ Len(t) = Len(s) - 1 /\ Head(s) \in S
      /\ \A i \in 1 .. Len(t) : t[i] = s[i + 1]
  BY HeadTailProperties
<1>2. Len(s) \in Nat \ {0} /\ DOMAIN s = 1 .. Len(s) /\ DOMAIN t = 1 .. Len(t)
  BY <1>1, LenProperties, EmptySeq
<1>3. ASSUME NEW i \in DOMAIN s, i # 1 PROVE \E j \in DOMAIN t : t[j] = s[i]
  <2>1. i - 1 \in 1 .. Len(t) /\ (i - 1) + 1 = i
    BY <1>1, <1>2, <1>3
  <2>2. t[i - 1] = s[i]
    BY <1>1, <2>1
  <2>3. QED
    BY <1>2, <2>1, <2>2
<1>4. \A i \in DOMAIN t : i + 1 \in DOMAIN s
  BY <1>1, <1>2
<1>5. QED
  BY <1>1, <1>2, <1>3, <1>4 DEF Without

LEMMA ConcatElements ==
  ASSUME NEW S, NEW s \in Seq(S), NEW t \in Seq(S)
  PROVE  /\ s \o t \in Seq(S) /\ Len(s \o t) = Len(s) + Len(t)
         /\ DOMAIN (s \o t) = 1 .. Len(s) + Len(t)
         /\ \A i \in 1 .. Len(s) : (s \o t)[i] = s[i]
         /\ \A i \in 1 .. Len(t) : (s \o t)[Len(s) + i] = t[i]
         /\ \A i \in DOMAIN (s \o t) : \/ \E j \in DOMAIN s : (s \o t)[i] = s[j]
                                       \/ \E j \in DOMAIN t : (s \o t)[i] = t[j]
<1>1. s \o t \in Seq(S) /\ Len(s \o t) = Len(s) + Len(t)
  BY ConcatProperties
<1>2. DOMAIN (s \o t) = 1 .. Len(s) + Len(t) /\ Len(s) \in Nat /\ Len(t) \in Nat
      /\ DOMAIN s = 1 .. Len(s) /\ DOMAIN t = 1 .. Len(t)
  BY <1>1, LenProperties
<1>3. \A i \in 1 .. Len(s) : (s \o t)[i] = s[i]
  OBVIOUS
<1>4. \A i \in 1 .. Len(t) : (s \o t)[Len(s) + i] = t[i]
  OBVIOUS
<1>5. ASSUME NEW i \in DOMAIN (s \o t)
      PROVE  \/ \E j \in DOMAIN s : (s \o t)[i] = s[j]
             \/ \E j \in DOMAIN t : (s \o t)[i] = t[j]
  <2>1. CASE i \in 1 .. Len(s)
    BY <1>2, <1>3, <2>1
  <2>2. CASE i \notin 1 .. Len(s)
    <3>1. i - Len(s) \in 1 .. Len(t) /\ Len(s) + (i - Len(s)) = i
      BY <1>2, <2>2
    <3>2. (s \o t)[i] = t[i - Len(s)]
      BY <1>4, <3>1
    <3>3. QED
      BY <1>2, <3>1, <3>2
  <2>3. QED
    BY <2>1, <2>2
<1>6. QED
  BY <1>1, <1>2, <1>3, <1>4, <1>5

Joined(S, s, t, u) ==
  /\ u \in Seq(S)
  /\ \A i \in DOMAIN u : (\E j \in DOMAIN s : u[i] = s[j]) \/ (\E j \in DOMAIN t : u[i] = t[j])

LEMMA ConcatJoins ==
  ASSUME NEW S, NEW s \in Seq(S), NEW t \in Seq(S)
  PROVE  Joined(S, s, t, s \o t)
<1>1. PICK u : u = s \o t
  OBVIOUS
<1>2. s \o t \in Seq(S)
  BY ConcatElements
<1>3. \A i \in DOMAIN (s \o t) : \/ \E j \in DOMAIN s : (s \o t)[i] = s[j]
                               \/ \E j \in DOMAIN t : (s \o t)[i] = t[j]
  BY ConcatElements
<1>4. u \in Seq(S) /\ \A i \in DOMAIN u : \/ \E j \in DOMAIN s : u[i] = s[j]
                                      \/ \E j \in DOMAIN t : u[i] = t[j]
  BY <1>1, <1>2, <1>3
<1>5. QED
  BY <1>1, <1>4 DEF Joined

(***************************************************************************)
(* What the declarations of a program that compiles are.                   *)
(***************************************************************************)
LEMMA DeclFacts ==
  ASSUME Compiles(program), NEW d \in Decls
  PROVE  /\ Decl(d) \in DeclSet(program)
         /\ Kind(d) \in Kinds /\ Decl(d).rust \in Labels
         /\ Decl(d).name \in AllNames \ {Entity, Service}
         /\ Kind(d) # "Object" => Decl(d).entities = <<>>
BY DEF Compiles, Decls, Decl, Kind, DeclSet

LEMMA DeclsOfKind ==
  ASSUME NEW kinds
  PROVE  DeclsOf(program, kinds) = {d \in Decls : Kind(d) \in kinds}
BY DEF DeclsOf, Decls, Kind, Decl

(***************************************************************************)
(* The calls of a constructor fit its kind.                                *)
(***************************************************************************)
LEMMA CallFits ==
  ASSUME Compiles(program), NEW d \in Decls, NEW e \in Decls, NEW role \in CallRoles(Kind(d)),
         Kind(e) \in KindsFor(role), NEW path \in Seq(Labels), NEW marks \in SUBSET Labels
  PROVE  Call(e, role, path, marks) \in FitCalls(d)
<1>1. role \in {"out", "arg", "input", "possible", "extend", "none"}
  BY DEF CallRoles
<1>2. Call(e, role, path, marks) \in CallSet
  BY <1>1 DEF Call, CallSet
<1>3. QED
  BY <1>2 DEF Call, FitCalls

LEMMA ConstructorFits ==
  ASSUME Compiles(program), NEW d \in Decls
  PROVE  /\ Constructor(d) \in Seq(FitCalls(d)) /\ EntityCalls(d) \in Seq(FitCalls(d))
         /\ \E i \in DOMAIN Constructor(d) : Constructor(d)[i].op = "close"
         /\ \A i \in DOMAIN EntityCalls(d) : EntityCalls(d)[i].op # "close"
         /\ MemberCalls(d) \in Seq(FitCalls(d))
<1> DEFINE S == FitCalls(d)
<1>0. <<>> \in Seq(Labels) /\ {} \in SUBSET Labels
  OBVIOUS
<1>1. Decl(d) \in DeclSet(program) /\ Kind(d) \in Kinds
  BY DeclFacts
<1>2. ASSUME Kind(d) \in {"Object", "Interface"} PROVE ObjectMembers(Decl(d)) \in Seq(S)
  <2>1. CallRoles(Kind(d)) = {"out", "arg", "possible", "extend", "none"}
    BY <1>2 DEF CallRoles
  <2>2. ASSUME NEW f \in FieldSet(program) PROVE FieldCalls(f) \in Seq(S)
    <3>1. f.out \in Decls /\ Kind(f.out) \in KindsFor("out")
      BY DeclsOfKind DEF FieldSet, KindsFor
    <3>2. Call(f.out, "out", <<f.name>>, f.marks) \in S
      <4>1. <<f.name>> \in Seq(Labels) /\ f.marks \in SUBSET Labels
        BY DEF FieldSet
      <4>2. QED
        BY <2>1, <3>1, <4>1, CallFits
    <3>3. f.args \in Seq(ArgSet(program))
      BY DEF FieldSet
    <3> DEFINE calls == [i \in DOMAIN f.args |->
                           Call(f.args[i].of, "arg", <<f.name, f.args[i].name>>, f.args[i].marks)]
    <3>4. ASSUME NEW i \in DOMAIN f.args PROVE calls[i] \in S
      <4>1. f.args[i] \in ArgSet(program) /\ f.name \in Labels
        BY <3>3 DEF FieldSet
      <4>2. f.args[i].of \in Decls /\ Kind(f.args[i].of) \in KindsFor("arg")
        BY <4>1, DeclsOfKind DEF ArgSet, KindsFor
      <4>3. <<f.name, f.args[i].name>> \in Seq(Labels) /\ f.args[i].marks \in SUBSET Labels
        BY <4>1 DEF ArgSet
      <4>4. QED
        BY <2>1, <4>2, <4>3, CallFits
    <3>5. calls \in Seq(S)
      <4>1. calls = [i \in DOMAIN f.args |-> calls[i]]
        OBVIOUS
      <4> HIDE DEF calls, S
      <4>2. QED
        BY <3>3, <3>4, <4>1, SeqOfValues
    <3>6. <<Call(f.out, "out", <<f.name>>, f.marks)>> \in Seq(S)
      BY <3>2
    <3> HIDE DEF calls, S
    <3>7. QED
      BY <3>5, <3>6, ConcatProperties DEF FieldCalls, calls
  <2>3. Decl(d).fields \in Seq(FieldSet(program))
    BY <1>1 DEF DeclSet
  <2> DEFINE lists == [i \in DOMAIN Decl(d).fields |-> FieldCalls(Decl(d).fields[i])]
  <2>4. lists \in Seq(Seq(S))
    <3>1. \A i \in DOMAIN Decl(d).fields : lists[i] \in Seq(S)
      BY <2>2, <2>3
    <3>2. lists = [i \in DOMAIN Decl(d).fields |-> lists[i]]
      OBVIOUS
    <3> HIDE DEF lists, S
    <3>3. QED
      BY <2>3, <3>1, <3>2, SeqOfValues
  <2> HIDE DEF S
  <2>5. QED
    BY <2>4, FlattenSeqType DEF ObjectMembers
<1>3. ASSUME Kind(d) = "Object" PROVE MergedMembers(Decl(d)) \in Seq(S)
  <2>1. Decl(d).parts \in Seq(DeclsOf(program, {"Object"}))
    BY <1>1 DEF DeclSet
  <2> DEFINE calls == [i \in DOMAIN Decl(d).parts |-> Call(Decl(d).parts[i], "extend", <<>>, {})]
  <2>2. ASSUME NEW i \in DOMAIN Decl(d).parts PROVE calls[i] \in S
    <3>1. Decl(d).parts[i] \in Decls /\ Kind(Decl(d).parts[i]) \in KindsFor("extend")
      BY <2>1, DeclsOfKind DEF KindsFor
    <3>2. "extend" \in CallRoles(Kind(d))
      BY <1>3 DEF CallRoles
    <3>3. QED
      BY <1>0, <3>1, <3>2, CallFits
  <2>3. calls = [i \in DOMAIN Decl(d).parts |-> calls[i]]
    OBVIOUS
  <2>4. calls \in Seq(S)
    <3> HIDE DEF calls, S
    <3> QED BY <2>1, <2>2, <2>3, SeqOfValues
  <2>5. QED
    BY <2>4 DEF MergedMembers
<1>4. ASSUME Kind(d) \in {"Interface", "Union"} PROVE UnionMembers(Decl(d)) \in Seq(S)
  <2>1. Decl(d).possible \in Seq(DeclsOf(program, {"Object"}))
    BY <1>1 DEF DeclSet
  <2> DEFINE calls == [i \in DOMAIN Decl(d).possible |-> Call(Decl(d).possible[i], "possible", <<>>, {})]
  <2>2. ASSUME NEW i \in DOMAIN Decl(d).possible PROVE calls[i] \in S
    <3>1. Decl(d).possible[i] \in Decls /\ Kind(Decl(d).possible[i]) \in KindsFor("possible")
      BY <2>1, DeclsOfKind DEF KindsFor
    <3>2. "possible" \in CallRoles(Kind(d))
      BY <1>4 DEF CallRoles
    <3>3. QED
      BY <1>0, <3>1, <3>2, CallFits
  <2>3. calls = [i \in DOMAIN Decl(d).possible |-> calls[i]]
    OBVIOUS
  <2>4. calls \in Seq(S)
    <3> HIDE DEF calls, S
    <3> QED BY <2>1, <2>2, <2>3, SeqOfValues
  <2>5. QED
    BY <2>4 DEF UnionMembers
<1>5. ASSUME Kind(d) = "InputObject" PROVE InputMembers(Decl(d)) \in Seq(S)
  <2>1. Decl(d).inputs \in Seq(ArgSet(program))
    BY <1>1 DEF DeclSet
  <2> DEFINE calls == [i \in DOMAIN Decl(d).inputs |->
                         Call(Decl(d).inputs[i].of, "input", <<Decl(d).inputs[i].name>>,
                              Decl(d).inputs[i].marks)]
  <2>2. ASSUME NEW i \in DOMAIN Decl(d).inputs PROVE calls[i] \in S
    <3>1. Decl(d).inputs[i] \in ArgSet(program)
      BY <2>1
    <3>2. /\ Decl(d).inputs[i].of \in Decls /\ Kind(Decl(d).inputs[i].of) \in KindsFor("input")
          /\ <<Decl(d).inputs[i].name>> \in Seq(Labels)
          /\ Decl(d).inputs[i].marks \in SUBSET Labels
      BY <3>1, DeclsOfKind DEF KindsFor, ArgSet
    <3>3. "input" \in CallRoles(Kind(d))
      BY <1>5 DEF CallRoles
    <3>4. QED
      BY <3>2, <3>3, CallFits
  <2>3. calls = [i \in DOMAIN Decl(d).inputs |-> calls[i]]
    OBVIOUS
  <2>4. calls \in Seq(S)
    <3> HIDE DEF calls, S
    <3> QED BY <2>1, <2>2, <2>3, SeqOfValues
  <2>5. QED
    BY <2>4 DEF InputMembers
<1>6. MemberCalls(d) \in Seq(S)
  <2> HIDE DEF S
  <2>1. CASE Kind(d) = "Object"
    <3>1. MemberCalls(d) = MergedMembers(Decl(d)) \o ObjectMembers(Decl(d))
      BY <2>1 DEF MemberCalls, Kind
    <3>2. QED
      BY <2>1, <3>1, <1>2, <1>3, ConcatProperties
  <2>2. CASE Kind(d) = "Interface"
    <3>1. MemberCalls(d) = UnionMembers(Decl(d)) \o ObjectMembers(Decl(d))
      BY <2>2 DEF MemberCalls, Kind, InterfaceMembers
    <3>2. QED
      BY <2>2, <3>1, <1>2, <1>4, ConcatProperties
  <2>3. CASE Kind(d) = "Union"
    <3>1. MemberCalls(d) = UnionMembers(Decl(d))
      BY <2>3 DEF MemberCalls, Kind
    <3>2. QED
      BY <2>3, <3>1, <1>4
  <2>4. CASE Kind(d) = "InputObject"
    <3>1. MemberCalls(d) = InputMembers(Decl(d))
      BY <2>4 DEF MemberCalls, Kind
    <3>2. QED
      BY <2>4, <3>1, <1>5
  <2>5. CASE Kind(d) \in {"Scalar", "Enum"}
    <3>1. MemberCalls(d) = <<>>
      BY <2>5 DEF MemberCalls, Kind
    <3>2. QED
      BY <3>1, EmptySeq
  <2>6. QED
    BY <1>1, <2>1, <2>2, <2>3, <2>4, <2>5 DEF Kinds
<1>7. EntityCalls(d) \in Seq(S) /\ \A i \in DOMAIN EntityCalls(d) : EntityCalls(d)[i].op # "close"
  <2> DEFINE es == Decl(d).entities
             creates == [i \in DOMAIN es |-> Call(es[i], "none", <<>>, {})]
             adds == [i \in DOMAIN es |-> [op |-> "key", decl |-> es[i]]]
  <2>1. es \in Seq(DeclsOf(program, {"Object", "Interface"}))
    BY <1>1 DEF DeclSet
  <2>2. ASSUME NEW i \in DOMAIN es PROVE creates[i] \in S /\ adds[i] \in S
    <3>1. es[i] \in Decls /\ Kind(es[i]) \in KindsFor("none")
      BY <2>1, DeclsOfKind DEF KindsFor
    <3>2. "none" \in CallRoles(Kind(d))
      <4>1. es # <<>>
        OBVIOUS
      <4>2. Kind(d) = "Object"
        BY <4>1, DeclFacts
      <4>3. QED
        BY <4>2 DEF CallRoles
    <3>3. creates[i] \in S
      BY <1>0, <3>1, <3>2, CallFits
    <3>4. adds[i] \in S
      BY <3>1 DEF FitCalls, CallSet
    <3>5. QED
      BY <3>3, <3>4
  <2>3. creates = [i \in DOMAIN es |-> creates[i]] /\ adds = [i \in DOMAIN es |-> adds[i]]
    OBVIOUS
  <2>4. creates \in Seq(S) /\ adds \in Seq(S)
    <3> HIDE DEF creates, adds, S, es
    <3> QED BY <2>1, <2>2, <2>3, SeqOfValues
  <2>5. EntityCalls(d) = creates \o adds
    BY DEF EntityCalls
  <2>6. \A i \in DOMAIN creates : creates[i].op # "close"
    BY DEF Call
  <2>7. \A i \in DOMAIN adds : adds[i].op # "close"
    OBVIOUS
  <2> HIDE DEF creates, adds, S
  <2>8. EntityCalls(d) \in Seq(S)
    BY <2>4, <2>5, ConcatElements
  <2>9. \A i \in DOMAIN EntityCalls(d) : EntityCalls(d)[i].op # "close"
    BY <2>4, <2>5, <2>6, <2>7, ConcatElements
  <2>10. QED
    BY <2>8, <2>9
<1>8. Constructor(d) \in Seq(S) /\ \E i \in DOMAIN Constructor(d) : Constructor(d)[i].op = "close"
  <2>1. [op |-> "close", decl |-> d] \in S
    BY DEF FitCalls, CallSet
  <2>2. <<[op |-> "close", decl |-> d]>> \in Seq(S)
    BY <2>1
  <2> DEFINE m == MemberCalls(d)
             c == <<[op |-> "close", decl |-> d]>>
             k == Len(m) + 1
  <2>3. Len(c) = 1 /\ c[1].op = "close"
    OBVIOUS
  <2> HIDE DEF S, c
  <2>4. m \o c \in Seq(S) /\ Len(m \o c) = k /\ (m \o c)[k] = c[1] /\ Len(m) \in Nat
    BY <1>6, <2>2, <2>3, ConcatElements, LenProperties DEF c
  <2>5. Constructor(d) = (m \o c) \o EntityCalls(d)
    BY DEF Constructor, c
  <2> DEFINE mc == m \o c
  <2>6. mc \in Seq(S) /\ Len(mc) = k /\ mc[k].op = "close" /\ k \in 1 .. k
    BY <2>3, <2>4
  <2> HIDE DEF m, mc, k
  <2>7. /\ mc \o EntityCalls(d) \in Seq(S)
        /\ DOMAIN (mc \o EntityCalls(d)) = 1 .. k + Len(EntityCalls(d))
        /\ (mc \o EntityCalls(d))[k] = mc[k]
    BY <1>7, <2>6, ConcatElements
  <2>8. k \in 1 .. k + Len(EntityCalls(d))
    BY <1>7, <2>4, LenProperties DEF k
  <2>9. QED
    BY <2>5, <2>6, <2>7, <2>8 DEF mc
<1>9. QED
  BY <1>6, <1>7, <1>8

(***************************************************************************)
(* The program is fixed once the build begins, and with it everything that *)
(* is defined by its declarations alone.                                   *)
(***************************************************************************)
LEMMA SameProgram ==
  ASSUME program' = program
  PROVE  /\ Decls' = Decls
         /\ \A d : Decl(d)' = Decl(d)
         /\ \A d : Kind(d)' = Kind(d)
         /\ RefSet' = RefSet /\ TypeSet' = TypeSet /\ CallSet' = CallSet /\ FrameSet' = FrameSet
         /\ \A d : FitCalls(d)' = FitCalls(d)
         /\ \A kind : FitRefs(kind)' = FitRefs(kind)
         /\ ScalarNames' = ScalarNames
         /\ Compiles(program)' <=> Compiles(program)
<1>1. Decls' = Decls /\ (\A d : Decl(d)' = Decl(d)) /\ (\A d : Kind(d)' = Kind(d))
  BY DEF Decls, Decl, Kind
<1>2. RefSet' = RefSet /\ CallSet' = CallSet
  BY <1>1 DEF RefSet, CallSet
<1>3. TypeSet' = TypeSet /\ FrameSet' = FrameSet
  BY <1>1, <1>2 DEF TypeSet, FrameSet
<1>4. \A d : FitCalls(d)' = FitCalls(d)
  BY <1>1, <1>2 DEF FitCalls
<1>5. \A kind : FitRefs(kind)' = FitRefs(kind)
  BY <1>1, <1>2 DEF FitRefs
<1>6. ScalarNames' = ScalarNames
  BY <1>1 DEF ScalarNames
<1>7. QED
  BY <1>1, <1>2, <1>3, <1>4, <1>5, <1>6

(***************************************************************************)
(* The name an input object is given is a new one with the same base.      *)
(***************************************************************************)
LEMMA UnusedName ==
  ASSUME NEW name \in AllNames, NEW registered, IsFiniteSet(registered)
  PROVE  /\ unused_input_object_name(name, registered) \in AllNames \ registered
         /\ unused_input_object_name(name, registered)[1] = name[1]
         /\ unused_input_object_name(name, registered)[2] \in Nat \ {0}
         /\ unused_input_object_name(name, registered) \notin {Entity, Service}
<1> DEFINE N == Cardinality(registered) + 1
           K == {k \in 1 .. N : <<name[1], k>> \notin registered}
<1>1. N \in Nat \ {0} /\ Cardinality(registered) = N - 1 /\ Cardinality(registered) \in Nat
  BY FS_CardinalityType
<1>2. K # {}
  <2> SUFFICES ASSUME \A k \in 1 .. N : <<name[1], k>> \in registered PROVE FALSE
    OBVIOUS
  <2> DEFINE f == [k \in 1 .. N |-> <<name[1], k>>]
  <2>1. f \in Injection(1 .. N, registered)
    <3>1. f \in [1 .. N -> registered]
      OBVIOUS
    <3>2. \A a, b \in 1 .. N : f[a] = f[b] => a = b
      OBVIOUS
    <3>3. QED
      BY <3>1, <3>2 DEF Injection, IsInjective
  <2>2. Cardinality(1 .. N) = N
    <3> HIDE DEF N
    <3>1. 1 \in Int /\ N \in Int /\ 1 <= N
      BY <1>1
    <3>2. QED
      BY <3>1, <1>1, FS_Interval
  <2> HIDE DEF f, N
  <2>3. Cardinality(1 .. N) <= Cardinality(registered)
    BY <2>1, FS_Injection
  <2>4. QED
    BY <1>1, <2>2, <2>3
<1>3. PICK k \in K : \A j \in K : k <= j
  <2>1. K \in SUBSET Nat
    BY <1>1
  <2> HIDE DEF K
  <2>2. QED
    BY <1>2, <2>1, LeastNumber
<1> DEFINE P(j) == /\ <<name[1], j>> \notin registered
                   /\ \A i \in 1 .. (j - 1) : <<name[1], i>> \in registered
<1>4. k \in 1 .. N /\ P(k)
  <2>1. \A i \in 1 .. (k - 1) : i \in 1 .. N /\ ~(k <= i)
    BY <1>1
  <2>2. QED
    BY <1>3, <2>1
<1> DEFINE c == CHOOSE j \in 1 .. N : P(j)
<1>5. c \in 1 .. N /\ P(c)
  <2> HIDE DEF P, N
  <2> QED BY <1>4
<1>6. unused_input_object_name(name, registered) = <<name[1], c>>
  BY DEF unused_input_object_name
<1>7. name[1] \in Bases /\ c \in Nat \ {0} /\ <<name[1], c>> \notin registered
  <2> HIDE DEF c
  <2> QED BY <1>1, <1>5 DEF AllNames
<1>8. QED
  <2> HIDE DEF c
  <2> QED BY <1>6, <1>7 DEF AllNames, Entity, Service

(***************************************************************************)
(* A step keeps what frames and references rely on when no registered type *)
(* but `except` leaves the map or becomes one of another declaration.      *)
(***************************************************************************)
KeepsTypes(except) ==
  \A m \in DOMAIN types \ except :
    m \in DOMAIN types' /\ types'[m].kind = types[m].kind /\ types'[m].rust = types[m].rust

LEMMA FrameStays ==
  ASSUME program' = program, NEW except, KeepsTypes(except),
         NEW fr \in FrameSet, fr.name \in DOMAIN types \ except, FrameFits(fr),
         Pending(fr) /\ fr.name # Decl(fr.decl).name => Decl(fr.decl).name \notin except
  PROVE  FrameFits(fr)' /\ fr.name \in DOMAIN types'
<1>1. FitCalls(fr.decl)' = FitCalls(fr.decl) /\ Kind(fr.decl)' = Kind(fr.decl) /\ Decl(fr.decl)' = Decl(fr.decl)
  BY SameProgram
<1>2. FitRefs(Kind(fr.decl))' = FitRefs(Kind(fr.decl))
  BY <1>1, SameProgram
<1>3. Pending(fr)' <=> Pending(fr)
  BY DEF Pending
<1>4. /\ fr.name \in DOMAIN types'
      /\ types'[fr.name].kind = types[fr.name].kind /\ types'[fr.name].rust = types[fr.name].rust
  BY DEF KeepsTypes
<1>5. MadeFrom(fr.name, fr.decl)' <=> MadeFrom(fr.name, fr.decl)
  BY <1>1, <1>4 DEF MadeFrom
<1>6. ASSUME Pending(fr), fr.name # Decl(fr.decl).name
      PROVE  Decl(fr.decl).name \in DOMAIN types' /\ types'[Decl(fr.decl).name].kind = "Object"
  BY <1>6 DEF FrameFits, KeepsTypes
<1>7. QED
  BY <1>1, <1>2, <1>3, <1>4, <1>5, <1>6 DEF FrameFits

(***************************************************************************)
(* The state in which the type of d is created: by the current call of the *)
(* innermost frame, if there is one.                                       *)
(***************************************************************************)
Calling(d) ==
  /\ stack # <<>> => /\ Last(stack).calls # <<>> /\ Head(Last(stack).calls).op = "create"
                     /\ Head(Last(stack).calls).decl = d
  /\ Kind(d) \notin InputKinds => \A i \in DOMAIN stack : Kind(stack[i].decl) \notin InputKinds

LEMMA PushKeepsStack ==
  ASSUME program' = program, stack \in Seq(FrameSet), CallsChain, InputsAbove,
         NEW d \in Decls, Calling(d), NEW fr \in FrameSet, fr.decl = d,
         stack' = Append(stack, fr),
         \A f : f \in Range(stack) => FrameFits(f)' /\ f.name \in DOMAIN types',
         FrameFits(fr)', fr.name \in DOMAIN types'
  PROVE  /\ stack' \in Seq(FrameSet) /\ StackInv'
         /\ \A i \in DOMAIN stack' : stack'[i].name \in DOMAIN types'
         /\ DOMAIN stack' = DOMAIN stack \cup {Len(stack) + 1}
         /\ \A i \in DOMAIN stack : stack'[i] = stack[i]
         /\ stack'[Len(stack) + 1] = fr
<1> DEFINE n == Len(stack)
<1>1. n \in Nat /\ DOMAIN stack = 1 .. n
  BY LenProperties
<1>2. /\ stack' \in Seq(FrameSet) /\ Len(stack') = n + 1 /\ DOMAIN stack' = 1 .. n + 1
      /\ \A i \in 1 .. n : stack'[i] = stack[i]
      /\ stack'[n + 1] = fr
  BY AppendProperties, LenProperties
<1> HIDE DEF n
<1>3. \A e : Kind(e)' = Kind(e)
  BY SameProgram
<1>4. CallsChain'
  <2> SUFFICES ASSUME NEW i \in DOMAIN stack', i + 1 \in DOMAIN stack'
               PROVE  /\ stack'[i].calls # <<>>
                      /\ Head(stack'[i].calls).op = "create"
                      /\ Head(stack'[i].calls).decl = stack'[i + 1].decl
    BY DEF CallsChain
  <2>1. i \in 1 .. n /\ i \in DOMAIN stack
    BY <1>1, <1>2
  <2>2. CASE i + 1 \in 1 .. n
    BY <1>1, <1>2, <2>1, <2>2 DEF CallsChain
  <2>3. CASE i + 1 \notin 1 .. n
    <3>1. i = n /\ stack # <<>>
      BY <1>1, <2>1, <2>3
    <3>2. Last(stack) = stack[n]
      BY DEF Last, n
    <3>3. QED
      BY <1>2, <2>1, <3>1, <3>2 DEF Calling
  <2>4. QED
    BY <2>2, <2>3
<1>5. InputsAbove'
  <2> SUFFICES ASSUME NEW i \in DOMAIN stack', NEW j \in DOMAIN stack', i < j,
                      Kind(stack'[i].decl) \in InputKinds
               PROVE  Kind(stack'[j].decl) \in InputKinds
    BY <1>3 DEF InputsAbove
  <2>1. i \in 1 .. n
    BY <1>1, <1>2
  <2>2. CASE j \in 1 .. n
    BY <1>1, <1>2, <2>1, <2>2 DEF InputsAbove
  <2>3. CASE j \notin 1 .. n
    <3>1. j = n + 1 /\ stack'[j].decl = d
      BY <1>1, <1>2, <2>3
    <3>2. QED
      BY <1>1, <1>2, <2>1, <3>1 DEF Calling
  <2>4. QED
    BY <2>2, <2>3
<1>6. \A i \in DOMAIN stack' : FrameFits(stack[i])' /\ stack'[i].name \in DOMAIN types'
  <2> TAKE i \in DOMAIN stack'
  <2>1. CASE i \in 1 .. n
    <3>1. stack'[i] = stack[i] /\ stack[i] \in Range(stack)
      BY <1>1, <1>2, <2>1 DEF Range
    <3>2. QED
      BY <3>1
  <2>2. CASE i \notin 1 .. n
    <3>1. stack'[i] = fr
      BY <1>1, <1>2, <2>2
    <3>2. QED
      BY <3>1
  <2>3. QED
    BY <2>1, <2>2
<1>7. QED
  BY <1>1, <1>2, <1>4, <1>5, <1>6 DEF StackInv, n

(***************************************************************************)
(* The state while types are registered, without the phase.                *)
(***************************************************************************)
TypesTyped == DOMAIN types \subseteq AllNames /\ types \in [DOMAIN types -> TypeSet]

StackTyped == stack \in Seq(FrameSet) /\ \A i \in DOMAIN stack : stack[i].name \in DOMAIN types

Building == TypesTyped /\ StackTyped /\ TypesInv /\ StackInv /\ MeaningInv

(***************************************************************************)
(* A frame that runs a constructor is pending; one that only has entity    *)
(* resolvers to run is not.                                                *)
(***************************************************************************)
LEMMA NewFrame ==
  ASSUME Compiles(program), NEW d \in Decls, NEW n \in AllNames
  PROVE  /\ Frame(d, n, Constructor(d)) \in FrameSet /\ Pending(Frame(d, n, Constructor(d)))
         /\ Frame(d, n, EntityCalls(d)) \in FrameSet /\ ~Pending(Frame(d, n, EntityCalls(d)))
<1> DEFINE S == FitCalls(d)
<1>1. FitCalls(d) \subseteq CallSet
  BY DEF FitCalls
<1>2. <<>> \in Seq(RefSet)
  OBVIOUS
<1>3. ASSUME NEW calls \in Seq(S) PROVE Frame(d, n, calls) \in FrameSet
  <2>1. calls \in Seq(CallSet)
    BY <1>1, SeqMonotonic
  <2>2. QED
    BY <1>2, <2>1 DEF Frame, FrameSet
<1>4. Frame(d, n, Constructor(d)) \in FrameSet /\ Frame(d, n, EntityCalls(d)) \in FrameSet
  BY <1>3, ConstructorFits
<1>5. Pending(Frame(d, n, Constructor(d)))
  <2>1. \E i \in DOMAIN Constructor(d) : Constructor(d)[i].op = "close"
    BY ConstructorFits
  <2>2. QED
    BY <2>1 DEF Pending, Frame
<1>6. ~Pending(Frame(d, n, EntityCalls(d)))
  <2>1. \A i \in DOMAIN EntityCalls(d) : EntityCalls(d)[i].op # "close"
    BY ConstructorFits
  <2>2. QED
    BY <2>1 DEF Pending, Frame
<1>7. QED
  BY <1>4, <1>5, <1>6

(***************************************************************************)
(* A frame that fits and starts with no references keeps what the pushed   *)
(* stack relies on.                                                        *)
(***************************************************************************)
LEMMA InsertKeeps ==
  ASSUME program' = program, directives' = directives, Compiles(program), Building,
         NEW d \in Decls, Calling(d), NEW n \in AllNames \ {Entity, Service}, n \notin DOMAIN types,
         Kind(d) # "InputObject" => n = Decl(d).name,
         n # Decl(d).name => Decl(d).name \in DOMAIN types /\ types[Decl(d).name].kind = "Object",
         types' = Insert(types, n, create_fake_type(d)),
         stack' = Append(stack, Frame(d, n, Constructor(d)))
  PROVE  Building'
<1> DEFINE fake == create_fake_type(d)
<1>1. /\ DOMAIN types' = DOMAIN types \cup {n}
      /\ types'[n] = fake
      /\ \A m \in DOMAIN types : types'[m] = types[m] /\ m # n
  BY DEF Insert
<1>2. /\ fake \in TypeSet /\ fake.kind = Kind(d) /\ fake.rust = Decl(d).rust
      /\ fake.name = <<"", 0>> /\ fake.refs = <<>>
  <2>1. <<>> \in Seq(RefSet) /\ {} \in SUBSET Labels
    OBVIOUS
  <2>2. Kind(d) \in Kinds /\ Decl(d).rust \in Labels
    BY DeclFacts
  <2>3. QED
    BY <2>1, <2>2 DEF create_fake_type, TypeSet, Kind
<1> HIDE DEF fake
<1>3. TypesTyped'
  <2>1. types' \in [DOMAIN types' -> TypeSet]
    <3>1. types' = [m \in DOMAIN types' |-> types'[m]]
      BY DEF Insert
    <3>2. \A m \in DOMAIN types' : types'[m] \in TypeSet
      BY <1>1, <1>2 DEF Building, TypesTyped
    <3>3. QED
      BY <3>1, <3>2
  <2>2. TypeSet' = TypeSet
    BY SameProgram
  <2>3. QED
    BY <1>1, <2>1, <2>2 DEF Building, TypesTyped
<1>4. KeepsTypes({})
  BY <1>1 DEF KeepsTypes
<1>5. PICK fr \in FrameSet : fr = Frame(d, n, Constructor(d))
  BY NewFrame
<1>6. /\ Pending(fr) /\ fr.decl = d /\ fr.name = n /\ fr.refs = <<>>
      /\ fr.calls \in Seq(FitCalls(d))
  BY <1>5, NewFrame, ConstructorFits DEF Frame
<1>7. FrameFits(fr)' /\ fr.name \in DOMAIN types'
  <2>1. FitCalls(d)' = FitCalls(d) /\ Kind(d)' = Kind(d) /\ Decl(d)' = Decl(d)
    BY SameProgram
  <2>2. (fr.refs \in Seq(FitRefs(Kind(d))))'
    BY <1>6
  <2>3. MadeFrom(n, d)'
    BY <1>1, <1>2, <2>1 DEF MadeFrom
  <2>4. types'[n].kind \in {"Scalar", Kind(d)}
    BY <1>1, <1>2
  <2>5. ASSUME n # Decl(d).name
        PROVE  Decl(d).name \in DOMAIN types' /\ types'[Decl(d).name].kind = "Object"
    BY <1>1, <2>5
  <2>6. QED
    BY <1>1, <1>6, <2>1, <2>2, <2>3, <2>4, <2>5 DEF FrameFits
<1>8. \A f : f \in Range(stack) => FrameFits(f)' /\ f.name \in DOMAIN types'
  <2> SUFFICES ASSUME NEW f \in Range(stack) PROVE FrameFits(f)' /\ f.name \in DOMAIN types'
    OBVIOUS
  <2>1. f \in FrameSet /\ f.name \in DOMAIN types /\ FrameFits(f)
    BY DEF Building, StackTyped, StackInv, Range
  <2>2. QED
    BY <1>4, <2>1, FrameStays
<1>9. /\ stack' \in Seq(FrameSet) /\ StackInv'
      /\ \A i \in DOMAIN stack' : stack'[i].name \in DOMAIN types'
      /\ DOMAIN stack' = DOMAIN stack \cup {Len(stack) + 1}
      /\ \A i \in DOMAIN stack : stack'[i] = stack[i]
      /\ stack'[Len(stack) + 1] = fr
  BY <1>5, <1>6, <1>7, <1>8, PushKeepsStack DEF Building, StackTyped, StackInv
<1>10. StackTyped'
  <2>1. FrameSet' = FrameSet
    BY SameProgram
  <2>2. QED
    BY <1>9, <2>1 DEF StackTyped
<1>11. ASSUME NEW refs, TargetsExist(refs) PROVE TargetsExist(refs)'
  BY <1>1, <1>11 DEF TargetsExist
<1>12. TypesInv'
  <2>1. IsFiniteSet(DOMAIN types') /\ Entity \notin DOMAIN types' /\ Service \notin DOMAIN types'
    BY <1>1, FS_AddElement DEF Building, TypesInv
  <2>2. ASSUME NEW m \in DOMAIN types'
        PROVE  /\ (types[m].refs \in Seq(FitRefs(types[m].kind)))' /\ TargetsExist(types[m].refs)'
               /\ (types[m].name = m \/ \E i \in DOMAIN stack : stack[i].name = m /\ Pending(stack[i]))'
               /\ (types[m].kind = "Scalar" => m \in ScalarNames)'
    <3>1. CASE m \in DOMAIN types
      <4>1. PICK kind, refs : kind = types[m].kind /\ refs = types[m].refs
        OBVIOUS
      <4>2. FitRefs(kind)' = FitRefs(kind) /\ ScalarNames' = ScalarNames
        BY SameProgram
      <4>3. TargetsExist(refs)' /\ refs \in Seq(FitRefs(kind))
        BY <1>11, <3>1, <4>1 DEF Building, TypesInv
      <4>4. (types[m].refs \in Seq(FitRefs(types[m].kind)))' /\ TargetsExist(types[m].refs)'
        BY <1>1, <3>1, <4>1, <4>2, <4>3
      <4>5. ASSUME NEW i \in DOMAIN stack, Pending(stack[i])
            PROVE  i \in DOMAIN stack' /\ Pending(stack[i])'
        BY <1>9, <4>5 DEF Pending
      <4>6. (types[m].name = m \/ \E i \in DOMAIN stack : stack[i].name = m /\ Pending(stack[i]))'
        <5>1. types'[m].name = types[m].name
          BY <1>1, <3>1
        <5>2. types[m].name = m \/ \E i \in DOMAIN stack : stack[i].name = m /\ Pending(stack[i])
          BY <3>1 DEF Building, TypesInv
        <5>3. QED
          BY <1>9, <4>5, <5>1, <5>2
      <4>7. (types[m].kind = "Scalar" => m \in ScalarNames)'
        BY <1>1, <3>1, <4>2 DEF Building, TypesInv
      <4>8. QED
        BY <4>4, <4>6, <4>7
    <3>2. CASE m \notin DOMAIN types
      <4>1. m = n /\ types'[m] = fake
        BY <1>1, <3>2
      <4>2. types'[m].refs = <<>> /\ types'[m].kind = Kind(d)
        BY <4>1, <1>2
      <4>3. Pending(fr)'
        BY <1>6 DEF Pending
      <4>4. (\E i \in DOMAIN stack : stack[i].name = m /\ Pending(stack[i]))'
        BY <1>6, <1>9, <4>1, <4>3
      <4>5. ASSUME Kind(d) = "Scalar" PROVE m \in ScalarNames'
        <5>1. m = Decl(d).name /\ Decl(d).kind = "Scalar" /\ d \in DOMAIN program.decls
          BY <4>1, <4>5 DEF Kind, Decls
        <5>2. m \in ScalarNames
          BY <5>1 DEF ScalarNames
        <5>3. QED
          BY <5>2, SameProgram
      <4>6. TargetsExist(types[m].refs)'
        BY <4>2 DEF TargetsExist
      <4>7. (types[m].refs \in Seq(FitRefs(types[m].kind)))'
        BY <4>2
      <4>8. QED
        BY <4>2, <4>4, <4>5, <4>6, <4>7
    <3>3. QED
      BY <3>1, <3>2
  <2>3. ASSUME NEW i \in DOMAIN stack' PROVE TargetsExist(stack[i].refs)'
    <3>1. CASE i \in DOMAIN stack
      <4>1. stack'[i] = stack[i] /\ TargetsExist(stack[i].refs)
        BY <1>9, <3>1 DEF Building, TypesInv
      <4>2. QED
        BY <1>11, <4>1
    <3>2. CASE i = Len(stack) + 1
      BY <1>6, <1>9, <3>2 DEF TargetsExist
    <3>3. QED
      BY <1>9, <3>1, <3>2
  <2>4. TargetsExist(directives)'
    BY <1>11 DEF Building, TypesInv
  <2>5. QED
    BY <2>1, <2>2, <2>3, <2>4 DEF TypesInv
<1>13. MeaningInv'
  <2> SUFFICES ASSUME program.ignore_name_conflicts = {}
               PROVE  /\ \A m \in DOMAIN types' : RefsMean(types[m].refs)'
                      /\ \A i \in DOMAIN stack' :
                            RefsMean(stack[i].refs)' /\ StandsFor(stack[i].name, stack[i].decl)'
    BY DEF MeaningInv
  <2>1. ASSUME NEW m \in DOMAIN types, NEW e, StandsFor(m, e) PROVE StandsFor(m, e)'
    <3>1. Kind(e)' = Kind(e) /\ Decl(e)' = Decl(e)
      BY SameProgram
    <3>2. QED
      BY <1>1, <2>1, <3>1 DEF StandsFor, MadeFrom
  <2>2. ASSUME NEW refs, RefsMean(refs), TargetsExist(refs) PROVE RefsMean(refs)'
    BY <2>1, <2>2 DEF RefsMean, TargetsExist
  <2>3. ASSUME NEW m \in DOMAIN types' PROVE RefsMean(types[m].refs)'
    <3>1. CASE m \in DOMAIN types
      <4>1. types'[m].refs = types[m].refs /\ RefsMean(types[m].refs) /\ TargetsExist(types[m].refs)
        BY <1>1, <3>1 DEF Building, TypesInv, MeaningInv
      <4>2. QED
        BY <2>2, <4>1
    <3>2. CASE m \notin DOMAIN types
      <4>1. types'[m].refs = <<>>
        BY <1>1, <1>2, <3>2
      <4>2. QED
        BY <4>1 DEF RefsMean
    <3>3. QED
      BY <3>1, <3>2
  <2>4. ASSUME NEW i \in DOMAIN stack'
        PROVE  RefsMean(stack[i].refs)' /\ StandsFor(stack[i].name, stack[i].decl)'
    <3>1. CASE i \in DOMAIN stack
      <4>1. /\ stack'[i] = stack[i] /\ stack[i].name \in DOMAIN types
            /\ StandsFor(stack[i].name, stack[i].decl)
            /\ RefsMean(stack[i].refs) /\ TargetsExist(stack[i].refs)
        BY <1>9, <3>1 DEF Building, StackTyped, MeaningInv, TypesInv
      <4>2. QED
        BY <2>1, <2>2, <4>1
    <3>2. CASE i = Len(stack) + 1
      <4>1. Kind(d)' = Kind(d) /\ Decl(d)' = Decl(d)
        BY SameProgram
      <4>2. StandsFor(n, d)'
        BY <1>1, <1>2, <4>1 DEF StandsFor, MadeFrom
      <4>3. stack'[i] = fr
        BY <1>9, <3>2
      <4>4. RefsMean(stack[i].refs)'
        BY <1>6, <4>3 DEF RefsMean
      <4>5. QED
        BY <1>6, <4>2, <4>3, <4>4
    <3>3. QED
      BY <1>9, <3>1, <3>2
  <2>5. QED
    BY <2>3, <2>4
<1>14. QED
  BY <1>3, <1>9, <1>10, <1>12, <1>13 DEF Building

(***************************************************************************)
(* A type that is registered is not created again: only its entity         *)
(* resolvers are run.                                                      *)
(***************************************************************************)
LEMMA ReuseKeeps ==
  ASSUME program' = program, directives' = directives, Compiles(program), Building,
         NEW d \in Decls, Calling(d), NEW n \in DOMAIN types,
         types[n].kind \in {"Scalar", Kind(d)},
         Kind(d) # "InputObject" => n = Decl(d).name,
         program.ignore_name_conflicts = {} => StandsFor(n, d),
         types' = types, stack' = Append(stack, Frame(d, n, EntityCalls(d)))
  PROVE  Building'
<1>1. TypesTyped'
  <2>1. TypeSet' = TypeSet
    BY SameProgram
  <2>2. QED
    BY <2>1 DEF Building, TypesTyped
<1>2. KeepsTypes({})
  BY DEF KeepsTypes
<1>3. PICK fr \in FrameSet : fr = Frame(d, n, EntityCalls(d))
  BY NewFrame DEF Building, TypesTyped
<1>4. /\ ~Pending(fr) /\ fr.decl = d /\ fr.name = n /\ fr.refs = <<>>
      /\ fr.calls \in Seq(FitCalls(d))
  <2>1. n \in AllNames
    BY DEF Building, TypesTyped
  <2>2. QED
    BY <1>3, <2>1, NewFrame, ConstructorFits DEF Frame
<1>5. FrameFits(fr)' /\ fr.name \in DOMAIN types'
  <2>1. FitCalls(d)' = FitCalls(d) /\ Kind(d)' = Kind(d) /\ Decl(d)' = Decl(d)
    BY SameProgram
  <2>2. (fr.refs \in Seq(FitRefs(Kind(d))))' /\ ~Pending(fr)'
    BY <1>4 DEF Pending
  <2>3. QED
    BY <1>4, <2>1, <2>2 DEF FrameFits
<1>6. \A f : f \in Range(stack) => FrameFits(f)' /\ f.name \in DOMAIN types'
  <2> SUFFICES ASSUME NEW f \in Range(stack) PROVE FrameFits(f)' /\ f.name \in DOMAIN types'
    OBVIOUS
  <2>1. f \in FrameSet /\ f.name \in DOMAIN types /\ FrameFits(f)
    BY DEF Building, StackTyped, StackInv, Range
  <2>2. QED
    BY <1>2, <2>1, FrameStays
<1>7. /\ stack' \in Seq(FrameSet) /\ StackInv'
      /\ \A i \in DOMAIN stack' : stack'[i].name \in DOMAIN types'
      /\ DOMAIN stack' = DOMAIN stack \cup {Len(stack) + 1}
      /\ \A i \in DOMAIN stack : stack'[i] = stack[i]
      /\ stack'[Len(stack) + 1] = fr
  BY <1>3, <1>4, <1>5, <1>6, PushKeepsStack DEF Building, StackTyped, StackInv
<1>8. StackTyped'
  <2>1. FrameSet' = FrameSet
    BY SameProgram
  <2>2. QED
    BY <1>7, <2>1 DEF StackTyped
<1>9. \A refs : TargetsExist(refs)' <=> TargetsExist(refs)
  BY DEF TargetsExist
<1>10. TypesInv'
  <2>1. ASSUME NEW m \in DOMAIN types'
        PROVE  /\ (types[m].refs \in Seq(FitRefs(types[m].kind)))' /\ TargetsExist(types[m].refs)'
               /\ (types[m].name = m \/ \E i \in DOMAIN stack : stack[i].name = m /\ Pending(stack[i]))'
               /\ (types[m].kind = "Scalar" => m \in ScalarNames)'
    <3>1. PICK kind, refs : kind = types[m].kind /\ refs = types[m].refs
      OBVIOUS
    <3>2. FitRefs(kind)' = FitRefs(kind) /\ ScalarNames' = ScalarNames
      BY SameProgram
    <3>3. (types[m].refs \in Seq(FitRefs(types[m].kind)))' /\ TargetsExist(types[m].refs)'
      BY <1>9, <3>1, <3>2 DEF Building, TypesInv
    <3>4. ASSUME NEW i \in DOMAIN stack, Pending(stack[i])
          PROVE  i \in DOMAIN stack' /\ Pending(stack[i])'
      BY <1>7, <3>4 DEF Pending
    <3>5. (types[m].name = m \/ \E i \in DOMAIN stack : stack[i].name = m /\ Pending(stack[i]))'
      <4>1. types[m].name = m \/ \E i \in DOMAIN stack : stack[i].name = m /\ Pending(stack[i])
        BY DEF Building, TypesInv
      <4>2. QED
        BY <1>7, <3>4, <4>1
    <3>6. (types[m].kind = "Scalar" => m \in ScalarNames)'
      BY <3>2 DEF Building, TypesInv
    <3>7. QED
      BY <3>3, <3>5, <3>6
  <2>2. ASSUME NEW i \in DOMAIN stack' PROVE TargetsExist(stack[i].refs)'
    <3>1. CASE i \in DOMAIN stack
      <4>1. stack'[i] = stack[i] /\ TargetsExist(stack[i].refs)
        BY <1>7, <3>1 DEF Building, TypesInv
      <4>2. QED
        BY <1>9, <4>1
    <3>2. CASE i = Len(stack) + 1
      BY <1>4, <1>7, <3>2 DEF TargetsExist
    <3>3. QED
      BY <1>7, <3>1, <3>2
  <2>3. TargetsExist(directives)'
    BY <1>9 DEF Building, TypesInv
  <2>4. QED
    BY <2>1, <2>2, <2>3 DEF Building, TypesInv
<1>11. MeaningInv'
  <2> SUFFICES ASSUME program.ignore_name_conflicts = {}
               PROVE  /\ \A m \in DOMAIN types' : RefsMean(types[m].refs)'
                      /\ \A i \in DOMAIN stack' :
                            RefsMean(stack[i].refs)' /\ StandsFor(stack[i].name, stack[i].decl)'
    BY DEF MeaningInv
  <2>1. \A m, e : StandsFor(m, e)' <=> StandsFor(m, e)
    <3> TAKE m, e
    <3>1. Kind(e)' = Kind(e) /\ Decl(e)' = Decl(e)
      BY SameProgram
    <3>2. QED
      BY <3>1 DEF StandsFor, MadeFrom
  <2>2. \A refs : RefsMean(refs)' <=> RefsMean(refs)
    BY <2>1 DEF RefsMean
  <2>3. ASSUME NEW m \in DOMAIN types' PROVE RefsMean(types[m].refs)'
    BY <2>2 DEF Building, MeaningInv
  <2>4. ASSUME NEW i \in DOMAIN stack'
        PROVE  RefsMean(stack[i].refs)' /\ StandsFor(stack[i].name, stack[i].decl)'
    <3>1. CASE i \in DOMAIN stack
      <4>1. stack'[i] = stack[i] /\ StandsFor(stack[i].name, stack[i].decl) /\ RefsMean(stack[i].refs)
        BY <1>7, <3>1 DEF Building, MeaningInv
      <4>2. QED
        BY <2>1, <2>2, <4>1
    <3>2. CASE i = Len(stack) + 1
      <4>1. stack'[i] = fr
        BY <1>7, <3>2
      <4>2. RefsMean(stack[i].refs)'
        BY <1>4, <4>1 DEF RefsMean
      <4>3. QED
        BY <1>4, <2>1, <4>1, <4>2
    <3>3. QED
      BY <1>7, <3>1, <3>2
  <2>5. QED
    BY <2>3, <2>4
<1>12. QED
  BY <1>1, <1>7, <1>8, <1>10, <1>11 DEF Building

(***************************************************************************)
(* A rename changes the targets of references to arguments and input       *)
(* fields and nothing else.                                                *)
(***************************************************************************)
Renames(refs, renamed, from, to) ==
  /\ DOMAIN renamed = DOMAIN refs
  /\ \A i \in DOMAIN refs :
       /\ renamed[i].role = refs[i].role /\ renamed[i].decl = refs[i].decl
       /\ renamed[i].path = refs[i].path
       /\ renamed[i].to # refs[i].to => refs[i].to = from /\ renamed[i].to = to
       /\ refs[i].role \in {"arg", "input"} /\ refs[i].to = from => renamed[i].to = to
       /\ refs[i].role \notin {"arg", "input"} => renamed[i].to = refs[i].to

LEMMA RenamedRefs ==
  ASSUME NEW kind, NEW refs \in Seq(FitRefs(kind)), NEW from, NEW to \in AllNames
  PROVE  /\ rename_input_type_references_in_type(refs, from, to) \in Seq(FitRefs(kind))
         /\ Renames(refs, rename_input_type_references_in_type(refs, from, to), from, to)
<1> DEFINE new(i) == IF refs[i].role \in {"arg", "input"}
                     THEN rename_type_reference(refs[i], from, to) ELSE refs[i]
           f == [i \in DOMAIN refs |-> new(i)]
<1>1. ASSUME NEW i \in DOMAIN refs
      PROVE  /\ f[i] \in FitRefs(kind)
             /\ f[i].role = refs[i].role /\ f[i].decl = refs[i].decl
             /\ f[i].path = refs[i].path
             /\ f[i].to # refs[i].to => refs[i].to = from /\ f[i].to = to
             /\ refs[i].role \in {"arg", "input"} /\ refs[i].to = from => f[i].to = to
             /\ refs[i].role \notin {"arg", "input"} => f[i].to = refs[i].to
  <2>1. refs[i] \in FitRefs(kind) /\ refs[i] \in RefSet
    BY DEF FitRefs
  <2> DEFINE moved == [refs[i] EXCEPT !.to = to]
  <2>2. /\ moved \in RefSet /\ moved.to = to
        /\ moved.role = refs[i].role /\ moved.decl = refs[i].decl /\ moved.path = refs[i].path
    BY <2>1 DEF RefSet
  <2>3. moved \in FitRefs(kind)
    BY <2>1, <2>2 DEF FitRefs
  <2>4. CASE refs[i].role \in {"arg", "input"} /\ refs[i].to = from
    <3>1. f[i] = moved
      BY <2>4 DEF rename_type_reference
    <3>2. QED
      BY <2>2, <2>3, <2>4, <3>1
  <2>5. CASE ~(refs[i].role \in {"arg", "input"} /\ refs[i].to = from)
    <3>1. f[i] = refs[i]
      BY <2>5 DEF rename_type_reference
    <3>2. QED
      BY <2>1, <2>5, <3>1
  <2>6. QED
    BY <2>4, <2>5
<1>2. f = [i \in DOMAIN refs |-> f[i]]
  OBVIOUS
<1>3. rename_input_type_references_in_type(refs, from, to) = f
  BY DEF rename_input_type_references_in_type
<1> HIDE DEF f
<1>4. f \in Seq(FitRefs(kind)) /\ DOMAIN f = DOMAIN refs
  BY <1>1, <1>2, SeqOfValues
<1>5. Renames(refs, f, from, to)
  BY <1>1, <1>4 DEF Renames
<1>6. QED
  BY <1>3, <1>4, <1>5

(***************************************************************************)
(* The arguments of the directives after such a rename.                    *)
(***************************************************************************)
LEMMA RenamedArguments ==
  ASSUME NEW refs \in Seq(RefSet), NEW from, NEW to \in AllNames,
         NEW renamed, renamed = rename_argument_references(refs, from, to)
  PROVE  /\ renamed \in Seq(RefSet) /\ DOMAIN renamed = DOMAIN refs
         /\ \A i \in DOMAIN refs : renamed[i].to \in {refs[i].to, to}
<1> DEFINE f == [i \in DOMAIN refs |->
                  IF refs[i].role = "arg" THEN rename_type_reference(refs[i], from, to) ELSE refs[i]]
<1>1. ASSUME NEW i \in DOMAIN refs
      PROVE  f[i] \in RefSet /\ f[i].to \in {refs[i].to, to}
  <2>1. refs[i] \in RefSet
    OBVIOUS
  <2> DEFINE moved == [refs[i] EXCEPT !.to = to]
  <2>2. moved \in RefSet /\ moved.to = to
    BY <2>1 DEF RefSet
  <2>3. f[i] \in {moved, refs[i]}
    BY DEF rename_type_reference
  <2>4. QED
    BY <2>1, <2>2, <2>3
<1>2. f = [i \in DOMAIN refs |-> f[i]] /\ renamed = f
  BY DEF rename_argument_references
<1> HIDE DEF f
<1>3. f \in Seq(RefSet) /\ DOMAIN f = DOMAIN refs
  BY <1>1, <1>2, SeqOfValues
<1>4. QED
  BY <1>1, <1>2, <1>3

(***************************************************************************)
(* The map after an input object made way for an object of its name.       *)
(***************************************************************************)
RenamedMap(new, name, to, fake) ==
  /\ new = [n \in DOMAIN new |-> new[n]]
  /\ DOMAIN new = DOMAIN types \cup {to}
  /\ new[name] = fake
  /\ \A n \in DOMAIN types \ {name} :
       new[n] = [types[n] EXCEPT !.refs = rename_input_type_references_in_type(@, name, to)]
  /\ new[to] = [types[name] EXCEPT !.name = to,
                 !.refs = rename_input_type_references_in_type(@, name, to)]

LEMMA RenamedTypes ==
  ASSUME NEW name \in DOMAIN types, TypesTyped, TypesInv, NEW fake,
         NEW to, to = unused_input_object_name(name, DOMAIN types),
         NEW new, new = Insert(rename_conflicting_input_object(name), name, fake)
  PROVE  /\ to \in AllNames \ DOMAIN types /\ to \notin {Entity, Service}
         /\ RenamedMap(new, name, to, fake)
<1>1. to \in AllNames \ DOMAIN types /\ to \notin {Entity, Service}
  BY UnusedName DEF TypesTyped, TypesInv
<1> DEFINE moved == [types[name] EXCEPT !.name = to]
           renamed == [n \in (DOMAIN types \ {name}) \cup {to} |-> IF n = to THEN moved ELSE types[n]]
           old == [n \in DOMAIN renamed |->
                     [renamed[n] EXCEPT !.refs = rename_input_type_references_in_type(@, name, to)]]
<1>2. rename_conflicting_input_object(name) = old
  BY DEF rename_conflicting_input_object
<1>3. DOMAIN old = (DOMAIN types \ {name}) \cup {to}
  OBVIOUS
<1>4. \A n \in DOMAIN types \ {name} :
         old[n] = [types[n] EXCEPT !.refs = rename_input_type_references_in_type(@, name, to)]
  BY <1>1
<1>5. old[to] = [types[name] EXCEPT !.name = to,
                   !.refs = rename_input_type_references_in_type(@, name, to)]
  <2>1. renamed[to] = moved
    OBVIOUS
  <2>2. types[name] \in TypeSet
    BY DEF TypesTyped
  <2>3. moved.refs = types[name].refs
    BY <2>2 DEF TypeSet
  <2>4. old[to] = [moved EXCEPT !.refs = rename_input_type_references_in_type(types[name].refs, name, to)]
    BY <2>1, <2>3
  <2>5. QED
    BY <2>2, <2>4 DEF TypeSet
<1> HIDE DEF old
<1>6. /\ DOMAIN new = DOMAIN old \cup {name} /\ new = [n \in DOMAIN new |-> new[n]]
      /\ new[name] = fake /\ \A n \in DOMAIN old : n # name => new[n] = old[n]
  BY <1>2 DEF Insert
<1>7. QED
  BY <1>1, <1>3, <1>4, <1>5, <1>6 DEF RenamedMap

(***************************************************************************)
(* An object takes the name of an input object, which is renamed.          *)
(***************************************************************************)
LEMMA RenameKeeps ==
  ASSUME program' = program, directives \in Seq(RefSet), Compiles(program), Building,
         NEW d \in Decls, Calling(d), Kind(d) = "Object",
         NEW name \in DOMAIN types, name = Decl(d).name, types[name].kind = "InputObject",
         types' = Insert(rename_conflicting_input_object(name), name, create_fake_type(d)),
         directives' = rename_argument_references(
                         directives, name, unused_input_object_name(name, DOMAIN types)),
         stack' = Append(stack, Frame(d, name, Constructor(d)))
  PROVE  Building' /\ (directives \in Seq(RefSet))'
<1> DEFINE given == unused_input_object_name(name, DOMAIN types)
           new(n) == rename_input_type_references_in_type(types[n].refs, name, given)
<1>0. PICK fake, to : fake = create_fake_type(d) /\ to = given
  OBVIOUS
<1>1. /\ to \in AllNames \ DOMAIN types /\ to \notin {Entity, Service}
      /\ types' = [n \in DOMAIN types' |-> types'[n]]
      /\ DOMAIN types' = DOMAIN types \cup {to}
      /\ types'[name] = fake
      /\ \A n \in DOMAIN types \ {name} :
           types'[n] = [types[n] EXCEPT !.refs = rename_input_type_references_in_type(@, name, to)]
      /\ types'[to] = [types[name] EXCEPT !.name = to,
                         !.refs = rename_input_type_references_in_type(@, name, to)]
  <2>1. TypesTyped /\ TypesInv
    BY DEF Building
  <2>2. /\ to \in AllNames \ DOMAIN types /\ to \notin {Entity, Service}
        /\ RenamedMap(types', name, to, fake)
    BY <1>0, <2>1, RenamedTypes
  <2>3. QED
    BY <2>2 DEF RenamedMap
<1>20. /\ directives' \in Seq(RefSet) /\ DOMAIN directives' = DOMAIN directives
       /\ \A k \in DOMAIN directives : directives'[k].to \in {directives[k].to, to}
  <2>1. directives' = rename_argument_references(directives, name, to) /\ to \in AllNames
    BY <1>0, <1>1
  <2>2. QED
    BY <2>1, RenamedArguments
<1>2. /\ fake \in TypeSet /\ fake.kind = "Object" /\ fake.rust = Decl(d).rust
      /\ fake.refs = <<>>
  <2>1. <<>> \in Seq(RefSet) /\ {} \in SUBSET Labels
    OBVIOUS
  <2>2. Kind(d) \in Kinds /\ Decl(d).rust \in Labels
    BY DeclFacts
  <2>3. QED
    BY <1>0, <2>1, <2>2 DEF create_fake_type, TypeSet, Kind
<1>3. ASSUME NEW n \in DOMAIN types
      PROVE  /\ types[n] \in TypeSet /\ types[n].refs \in Seq(FitRefs(types[n].kind))
             /\ TargetsExist(types[n].refs)
  BY DEF Building, TypesTyped, TypesInv
<1>4. ASSUME NEW n \in DOMAIN types, NEW m, m = IF n = name THEN to ELSE n
      PROVE  /\ m \in DOMAIN types' /\ types'[m] \in TypeSet
             /\ types'[m].kind = types[n].kind /\ types'[m].rust = types[n].rust
             /\ types'[m].refs \in Seq(FitRefs(types[n].kind))
             /\ Renames(types[n].refs, types'[m].refs, name, to)
             /\ types'[m].name = IF n = name THEN to ELSE types[n].name
  <2>1. PICK refs : refs = rename_input_type_references_in_type(types[n].refs, name, to)
    OBVIOUS
  <2>2. refs \in Seq(FitRefs(types[n].kind)) /\ Renames(types[n].refs, refs, name, to)
    BY <1>1, <1>3, <2>1, RenamedRefs
  <2>3. refs \in Seq(RefSet)
    <3>1. FitRefs(types[n].kind) \subseteq RefSet
      BY DEF FitRefs
    <3>2. QED
      BY <2>2, <3>1, SeqMonotonic
  <2>4. types'[m] = IF n = name THEN [types[n] EXCEPT !.name = to, !.refs = refs]
                                ELSE [types[n] EXCEPT !.refs = refs]
    <3>1. CASE n = name
      BY <1>1, <1>4, <2>1, <3>1
    <3>2. CASE n # name
      <4>1. types'[n] = [types[n] EXCEPT !.refs = rename_input_type_references_in_type(@, name, to)]
        BY <1>1, <3>2
      <4>2. QED
        BY <1>4, <2>1, <3>2, <4>1
    <3>3. QED
      BY <3>1, <3>2
  <2>5. types[n] \in TypeSet
    BY <1>3
  <2>6. /\ types'[m] \in TypeSet /\ types'[m].kind = types[n].kind
        /\ types'[m].rust = types[n].rust /\ types'[m].refs = refs
        /\ types'[m].name = IF n = name THEN to ELSE types[n].name
    <3>1. CASE n = name
      <4>1. types'[m] = [types[n] EXCEPT !.name = to, !.refs = refs]
        BY <2>4, <3>1
      <4>2. QED
        BY <1>1, <2>3, <2>5, <3>1, <4>1 DEF TypeSet
    <3>2. CASE n # name
      <4>1. types'[m] = [types[n] EXCEPT !.refs = refs]
        BY <2>4, <3>2
      <4>2. QED
        BY <1>1, <2>3, <2>5, <3>2, <4>1 DEF TypeSet
    <3>3. QED
      BY <3>1, <3>2
  <2>7. QED
    BY <1>1, <1>4, <2>2, <2>6
<1>5. \A m \in DOMAIN types' : m = name \/ m = to \/ m \in DOMAIN types \ {name}
  BY <1>1
<1>6. TypesTyped'
  <2>1. \A m \in DOMAIN types' : types'[m] \in TypeSet
    BY <1>1, <1>2, <1>4, <1>5
  <2>2. TypeSet' = TypeSet
    BY SameProgram
  <2>3. QED
    BY <1>1, <2>1, <2>2 DEF Building, TypesTyped
<1>7. KeepsTypes({name})
  BY <1>4 DEF KeepsTypes
<1>8. ASSUME NEW f \in Range(stack)
      PROVE  /\ f \in FrameSet /\ f.name \in DOMAIN types \ {name} /\ FrameFits(f)
             /\ Kind(f.decl) \notin InputKinds /\ f.name = Decl(f.decl).name
  <2>1. f \in FrameSet /\ f.name \in DOMAIN types /\ FrameFits(f)
    BY DEF Building, StackTyped, StackInv, Range
  <2>2. Kind(f.decl) \notin InputKinds
    BY DEF Calling, Range, InputKinds
  <2>3. types[f.name].kind \in {"Scalar", Kind(f.decl)} /\ f.name = Decl(f.decl).name
    BY <2>1, <2>2 DEF FrameFits, InputKinds
  <2>4. QED
    BY <2>1, <2>2, <2>3 DEF InputKinds
<1>9. PICK fr \in FrameSet : fr = Frame(d, name, Constructor(d))
  BY NewFrame DEF Building, TypesTyped
<1>10. /\ Pending(fr) /\ fr.decl = d /\ fr.name = name /\ fr.refs = <<>>
       /\ fr.calls \in Seq(FitCalls(d))
  <2>1. name \in AllNames
    BY DEF Building, TypesTyped
  <2>2. QED
    BY <1>9, <2>1, NewFrame, ConstructorFits DEF Frame
<1>11. FrameFits(fr)' /\ fr.name \in DOMAIN types'
  <2>1. FitCalls(d)' = FitCalls(d) /\ Kind(d)' = Kind(d) /\ Decl(d)' = Decl(d)
    BY SameProgram
  <2>2. (fr.refs \in Seq(FitRefs(Kind(d))))'
    BY <1>10
  <2>3. MadeFrom(name, d)'
    BY <1>1, <1>2, <2>1 DEF MadeFrom
  <2>4. types'[name].kind \in {"Scalar", Kind(d)}
    BY <1>1, <1>2
  <2>5. QED
    BY <1>1, <1>10, <2>1, <2>2, <2>3, <2>4 DEF FrameFits
<1>12. \A f : f \in Range(stack) => FrameFits(f)' /\ f.name \in DOMAIN types'
  <2> SUFFICES ASSUME NEW f \in Range(stack) PROVE FrameFits(f)' /\ f.name \in DOMAIN types'
    OBVIOUS
  <2>1. f \in FrameSet /\ f.name \in DOMAIN types \ {name} /\ FrameFits(f) /\ f.name = Decl(f.decl).name
    BY <1>8
  <2>2. QED
    BY <1>7, <2>1, FrameStays
<1>13. /\ stack' \in Seq(FrameSet) /\ StackInv'
       /\ \A i \in DOMAIN stack' : stack'[i].name \in DOMAIN types'
       /\ DOMAIN stack' = DOMAIN stack \cup {Len(stack) + 1}
       /\ \A i \in DOMAIN stack : stack'[i] = stack[i]
       /\ stack'[Len(stack) + 1] = fr
  BY <1>9, <1>10, <1>11, <1>12, PushKeepsStack DEF Building, StackTyped, StackInv
<1>14. StackTyped'
  <2>1. FrameSet' = FrameSet
    BY SameProgram
  <2>2. QED
    BY <1>13, <2>1 DEF StackTyped
<1>15. ASSUME NEW refs, TargetsExist(refs) PROVE TargetsExist(refs)'
  BY <1>1, <1>15 DEF TargetsExist
<1>16. ASSUME NEW refs, TargetsExist(refs), NEW renamed, Renames(refs, renamed, name, to)
       PROVE  TargetsExist(renamed)'
  BY <1>1, <1>16 DEF TargetsExist, Renames
<1>17. TypesInv'
  <2>1. IsFiniteSet(DOMAIN types') /\ Entity \notin DOMAIN types' /\ Service \notin DOMAIN types'
    BY <1>1, FS_AddElement DEF Building, TypesInv
  <2>2. ASSUME NEW m \in DOMAIN types'
        PROVE  /\ (types[m].refs \in Seq(FitRefs(types[m].kind)))' /\ TargetsExist(types[m].refs)'
               /\ (types[m].name = m \/ \E i \in DOMAIN stack : stack[i].name = m /\ Pending(stack[i]))'
               /\ (types[m].kind = "Scalar" => m \in ScalarNames)'
    <3>1. CASE m # name
      <4>1. PICK n \in DOMAIN types : m = IF n = name THEN to ELSE n
        BY <1>5, <3>1
      <4>2. /\ types'[m].kind = types[n].kind
            /\ types'[m].refs \in Seq(FitRefs(types[n].kind))
            /\ Renames(types[n].refs, types'[m].refs, name, to)
            /\ types'[m].name = IF n = name THEN to ELSE types[n].name
        BY <1>4, <4>1
      <4>3. PICK kind, refs : kind = types'[m].kind /\ refs = types'[m].refs
        OBVIOUS
      <4>4. FitRefs(kind)' = FitRefs(kind) /\ ScalarNames' = ScalarNames
        BY SameProgram
      <4>5. (types[m].refs \in Seq(FitRefs(types[m].kind)))'
        BY <4>2, <4>3, <4>4
      <4>6. TargetsExist(types[m].refs)'
        BY <1>3, <1>16, <4>2
      <4>7. ASSUME NEW i \in DOMAIN stack, Pending(stack[i])
            PROVE  i \in DOMAIN stack' /\ Pending(stack[i])'
        BY <1>13, <4>7 DEF Pending
      <4>8. (types[m].name = m \/ \E i \in DOMAIN stack : stack[i].name = m /\ Pending(stack[i]))'
        <5>1. CASE n = name
          BY <4>1, <4>2, <5>1
        <5>2. CASE n # name
          <6>1. m = n /\ types'[m].name = types[m].name
            BY <4>1, <4>2, <5>2
          <6>2. types[m].name = m \/ \E i \in DOMAIN stack : stack[i].name = m /\ Pending(stack[i])
            BY <6>1 DEF Building, TypesInv
          <6>3. QED
            BY <1>13, <4>7, <6>1, <6>2
        <5>3. QED
          BY <5>1, <5>2
      <4>9. (types[m].kind = "Scalar" => m \in ScalarNames)'
        BY <4>1, <4>2, <4>4 DEF Building, TypesInv
      <4>10. QED
        BY <4>5, <4>6, <4>8, <4>9
    <3>2. CASE m = name
      <4>1. types'[m].refs = <<>> /\ types'[m].kind = "Object"
        BY <1>1, <1>2, <3>2
      <4>2. Pending(fr)'
        BY <1>10 DEF Pending
      <4>3. (\E i \in DOMAIN stack : stack[i].name = m /\ Pending(stack[i]))'
        BY <1>10, <1>13, <3>2, <4>2
      <4>4. TargetsExist(types[m].refs)'
        BY <4>1 DEF TargetsExist
      <4>5. (types[m].refs \in Seq(FitRefs(types[m].kind)))'
        BY <4>1
      <4>6. QED
        BY <4>1, <4>3, <4>4, <4>5
    <3>3. QED
      BY <3>1, <3>2
  <2>3. ASSUME NEW i \in DOMAIN stack' PROVE TargetsExist(stack[i].refs)'
    <3>1. CASE i \in DOMAIN stack
      <4>1. stack'[i] = stack[i] /\ TargetsExist(stack[i].refs)
        BY <1>13, <3>1 DEF Building, TypesInv
      <4>2. QED
        BY <1>15, <4>1
    <3>2. CASE i = Len(stack) + 1
      BY <1>10, <1>13, <3>2 DEF TargetsExist
    <3>3. QED
      BY <1>13, <3>1, <3>2
  <2>4. TargetsExist(directives)'
    <3>1. ASSUME NEW k \in DOMAIN directives' PROVE directives'[k].to \in DOMAIN types'
      <4>1. k \in DOMAIN directives /\ directives[k].to \in DOMAIN types
        BY <1>20, <3>1 DEF Building, TypesInv, TargetsExist
      <4>2. directives'[k].to \in {directives[k].to, to}
        BY <1>20, <4>1
      <4>3. QED
        BY <1>1, <4>1, <4>2
    <3>2. QED
      BY <3>1 DEF TargetsExist
  <2>5. QED
    BY <2>1, <2>2, <2>3, <2>4 DEF TypesInv
<1>18. MeaningInv'
  <2> SUFFICES ASSUME program.ignore_name_conflicts = {}
               PROVE  /\ \A m \in DOMAIN types' : RefsMean(types[m].refs)'
                      /\ \A i \in DOMAIN stack' :
                            RefsMean(stack[i].refs)' /\ StandsFor(stack[i].name, stack[i].decl)'
    BY DEF MeaningInv
  <2>1. ASSUME NEW n \in DOMAIN types, NEW e, StandsFor(n, e), NEW m, m = IF n = name THEN to ELSE n
        PROVE  StandsFor(m, e)'
    <3>1. Kind(e)' = Kind(e) /\ Decl(e)' = Decl(e)
      BY SameProgram
    <3>2. types'[m].kind = types[n].kind /\ types'[m].rust = types[n].rust
      BY <1>4, <2>1
    <3>3. QED
      BY <2>1, <3>1, <3>2 DEF StandsFor, MadeFrom
  <2>2. ASSUME NEW kind, NEW r \in FitRefs(kind), r.role \in {"out", "possible"}, StandsFor(r.to, r.decl)
        PROVE  r.to # name
    BY <2>2 DEF FitRefs, KindsFor, OutputKinds, Kinds, StandsFor, MadeFrom
  <2>3. ASSUME NEW n \in DOMAIN types, NEW m, m = IF n = name THEN to ELSE n
        PROVE  RefsMean(types[m].refs)'
    <3>1. /\ RefsMean(types[n].refs) /\ TargetsExist(types[n].refs)
          /\ types[n].refs \in Seq(FitRefs(types[n].kind))
          /\ Renames(types[n].refs, types'[m].refs, name, to)
      BY <1>3, <1>4, <2>3 DEF Building, MeaningInv
    <3>2. PICK refs, renamed, kind : refs = types[n].refs /\ renamed = types'[m].refs /\ kind = types[n].kind
      OBVIOUS
    <3>3. ASSUME NEW i \in DOMAIN refs, refs[i].role # "arg"
          PROVE  StandsFor(renamed[i].to, refs[i].decl)'
      <4>1. /\ refs[i].to \in DOMAIN types /\ StandsFor(refs[i].to, refs[i].decl)
            /\ refs[i] \in FitRefs(kind)
        BY <3>1, <3>2, <3>3 DEF RefsMean, TargetsExist
      <4>2. refs[i].role \in {"out", "input", "possible"}
        BY <3>3, <4>1 DEF FitRefs, RolesOf
      <4>3. renamed[i].to = IF refs[i].to = name THEN to ELSE refs[i].to
        <5>1. CASE refs[i].role = "input"
          BY <3>1, <3>2, <5>1 DEF Renames
        <5>2. CASE refs[i].role # "input"
          <6>1. refs[i].to # name
            BY <2>2, <4>1, <4>2, <5>2
          <6>2. QED
            BY <3>1, <3>2, <4>2, <5>2, <6>1 DEF Renames
        <5>3. QED
          BY <5>1, <5>2
      <4>4. QED
        BY <2>1, <4>1, <4>3
    <3>4. RefsMean(renamed)'
      BY <3>1, <3>2, <3>3 DEF RefsMean, Renames
    <3>5. QED
      BY <3>2, <3>4
  <2>4. ASSUME NEW m \in DOMAIN types' PROVE RefsMean(types[m].refs)'
    <3>1. CASE m # name
      <4>1. PICK n \in DOMAIN types : m = IF n = name THEN to ELSE n
        BY <1>5, <3>1
      <4>2. QED
        BY <2>3, <4>1
    <3>2. CASE m = name
      BY <1>1, <1>2, <3>2 DEF RefsMean
    <3>3. QED
      BY <3>1, <3>2
  <2>5. ASSUME NEW i \in DOMAIN stack'
        PROVE  RefsMean(stack[i].refs)' /\ StandsFor(stack[i].name, stack[i].decl)'
    <3>1. CASE i \in DOMAIN stack
      <4>1. PICK f \in Range(stack) : f = stack[i] /\ f = stack'[i]
        BY <1>13, <3>1 DEF Range
      <4>2. f.name \in DOMAIN types \ {name} /\ Kind(f.decl) \notin InputKinds /\ FrameFits(f)
        BY <1>8
      <4>3. StandsFor(f.name, f.decl) /\ RefsMean(f.refs) /\ TargetsExist(f.refs)
        BY <3>1, <4>1 DEF Building, MeaningInv, TypesInv
      <4>4. StandsFor(f.name, f.decl)'
        BY <2>1, <4>2, <4>3
      <4>5. ASSUME NEW j \in DOMAIN f.refs, f.refs[j].role # "arg"
            PROVE  StandsFor(f.refs[j].to, f.refs[j].decl)'
        <5>1. f.refs[j] \in FitRefs(Kind(f.decl)) /\ StandsFor(f.refs[j].to, f.refs[j].decl)
              /\ f.refs[j].to \in DOMAIN types
          BY <4>2, <4>3, <4>5 DEF FrameFits, RefsMean, TargetsExist
        <5>2. f.refs[j].role \in {"out", "possible"}
          BY <4>2, <4>5, <5>1 DEF FitRefs, RolesOf, InputKinds
        <5>3. f.refs[j].to # name
          BY <2>2, <5>1, <5>2
        <5>4. QED
          BY <2>1, <5>1, <5>3
      <4>6. RefsMean(f.refs)'
        BY <4>5 DEF RefsMean
      <4>7. QED
        BY <4>1, <4>4, <4>6
    <3>2. CASE i = Len(stack) + 1
      <4>1. Kind(d)' = Kind(d) /\ Decl(d)' = Decl(d)
        BY SameProgram
      <4>2. StandsFor(name, d)'
        BY <1>1, <1>2, <4>1 DEF StandsFor, MadeFrom
      <4>3. stack'[i] = fr
        BY <1>13, <3>2
      <4>4. RefsMean(stack[i].refs)'
        BY <1>10, <4>3 DEF RefsMean
      <4>5. QED
        BY <1>10, <4>2, <4>3, <4>4
    <3>3. QED
      BY <1>13, <3>1, <3>2
  <2>6. QED
    BY <2>4, <2>5
<1>19. QED
  <2>1. RefSet' = RefSet
    BY SameProgram
  <2>2. QED
    BY <1>6, <1>13, <1>14, <1>17, <1>18, <1>20, <2>1 DEF Building

LEMMA PanicKeeps ==
  ASSUME program' = program, directives' = directives, types' = types, stack' = stack, Building
  PROVE  Building'
<1>1. TypeSet' = TypeSet /\ FrameSet' = FrameSet /\ ScalarNames' = ScalarNames
  BY SameProgram
<1>2. \A kind : FitRefs(kind)' = FitRefs(kind)
  BY SameProgram
<1>3. \A d : FitCalls(d)' = FitCalls(d) /\ Decl(d)' = Decl(d) /\ Kind(d)' = Kind(d)
  BY SameProgram
<1>4. TypesTyped' /\ StackTyped'
  BY <1>1 DEF Building, TypesTyped, StackTyped
<1>5. \A fr : Pending(fr)' <=> Pending(fr)
  BY DEF Pending
<1>6. \A refs : TargetsExist(refs)' <=> TargetsExist(refs)
  BY DEF TargetsExist
<1>7. TypesInv'
  <2>1. ASSUME NEW m \in DOMAIN types' PROVE (types[m].refs \in Seq(FitRefs(types[m].kind)))'
    <3>1. PICK kind : kind = types[m].kind
      OBVIOUS
    <3>2. FitRefs(kind)' = FitRefs(kind)
      BY <1>2
    <3>3. QED
      BY <3>1, <3>2 DEF Building, TypesInv
  <2>2. QED
    BY <1>1, <1>5, <1>6, <2>1 DEF Building, TypesInv
<1>8. \A n, d : MadeFrom(n, d)' <=> MadeFrom(n, d)
  BY <1>3 DEF MadeFrom
<1>9. StackInv'
  <2>1. CallsChain'
    BY DEF Building, StackInv, CallsChain
  <2>2. InputsAbove'
    BY <1>3 DEF Building, StackInv, InputsAbove
  <2>3. ASSUME NEW f, FrameFits(f) PROVE FrameFits(f)'
    <3>1. FitCalls(f.decl)' = FitCalls(f.decl) /\ Kind(f.decl)' = Kind(f.decl) /\ Decl(f.decl)' = Decl(f.decl)
      BY <1>3
    <3>2. FitRefs(Kind(f.decl))' = FitRefs(Kind(f.decl))
      BY <1>2, <3>1
    <3>3. QED
      BY <1>5, <1>8, <2>3, <3>1, <3>2 DEF FrameFits
  <2>4. QED
    BY <2>1, <2>2, <2>3 DEF Building, StackInv
<1>10. \A n, d : StandsFor(n, d)' <=> StandsFor(n, d)
  BY <1>8 DEF StandsFor
<1>11. \A refs : RefsMean(refs)' <=> RefsMean(refs)
  BY <1>10 DEF RefsMean
<1>12. MeaningInv'
  BY <1>10, <1>11 DEF Building, MeaningInv
<1>13. QED
  BY <1>4, <1>7, <1>9, <1>12 DEF Building

(***************************************************************************)
(* create_type keeps the invariant in each of its branches.                *)
(***************************************************************************)
LEMMA CreateKeeps ==
  ASSUME program' = program, directives \in Seq(RefSet), Compiles(program), Building,
         NEW d \in Decls, Calling(d), create_type(d)
  PROVE  Building' /\ (directives \in Seq(RefSet))' /\ phase' \in {phase, "panicked"}
<1> DEFINE name == Decl(d).name
           prev == types[name]
           same_rust == SameRustType(prev, d)
<1>0. RefSet' = RefSet
  BY SameProgram
<1>1. name \in AllNames \ {Entity, Service} /\ Kind(d) = Decl(d).kind
  BY DeclFacts DEF Kind
<1>2. CASE name \notin DOMAIN types /\ CreateNew(d, types, name) /\ UNCHANGED directives
  <2>1. types' = Insert(types, name, create_fake_type(d)) /\ phase' = phase
        /\ stack' = Append(stack, Frame(d, name, Constructor(d)))
    BY <1>2 DEF CreateNew, Push
  <2>2. Building'
    BY <1>1, <1>2, <2>1, InsertKeeps
  <2>3. QED
    BY <1>0, <1>2, <2>1, <2>2
<1>3. CASE name \in DOMAIN types /\ prev.kind = "Scalar" /\ Reuse(d, name)
  <2>1. types' = types /\ directives' = directives /\ phase' = phase
        /\ stack' = Append(stack, Frame(d, name, EntityCalls(d)))
    BY <1>3 DEF Reuse, Push
  <2>2. StandsFor(name, d) /\ types[name].kind \in {"Scalar", Kind(d)}
    BY <1>3 DEF StandsFor
  <2>3. Building'
    BY <1>3, <2>1, <2>2, ReuseKeeps
  <2>4. QED
    BY <1>0, <2>1, <2>3
<1>4. CASE Panic
  <2>1. Building'
    BY <1>4, PanicKeeps DEF Panic
  <2>2. QED
    BY <1>0, <1>4, <2>1 DEF Panic
<1>5. CASE name \in DOMAIN types /\ same_rust /\ prev.kind = Decl(d).kind /\ Reuse(d, name)
  <2>1. types' = types /\ directives' = directives /\ phase' = phase
        /\ stack' = Append(stack, Frame(d, name, EntityCalls(d)))
    BY <1>5 DEF Reuse, Push
  <2>2. program.ignore_name_conflicts = {} => StandsFor(name, d)
    BY <1>1, <1>5 DEF SameRustType, StandsFor, MadeFrom
  <2>3. Building'
    BY <1>1, <1>5, <2>1, <2>2, ReuseKeeps
  <2>4. QED
    BY <1>0, <2>1, <2>3
<1>6. CASE /\ name \in DOMAIN types /\ prev.kind = "InputObject" /\ Decl(d).kind = "Object"
           /\ CreateNew(d, rename_conflicting_input_object(name), name)
           /\ directives' = rename_argument_references(
                              directives, name, unused_input_object_name(name, DOMAIN types))
  <2>1. /\ types' = Insert(rename_conflicting_input_object(name), name, create_fake_type(d))
        /\ phase' = phase /\ stack' = Append(stack, Frame(d, name, Constructor(d)))
    BY <1>6 DEF CreateNew, Push
  <2>2. Building' /\ (directives \in Seq(RefSet))'
    BY <1>1, <1>6, <2>1, RenameKeeps
  <2>3. QED
    BY <2>1, <2>2
<1>7. CASE /\ name \in DOMAIN types /\ prev.kind = "Object" /\ Decl(d).kind = "InputObject"
           /\ registered_input_object_name(Decl(d).rust) # {}
           /\ Reuse(d, CHOOSE n \in registered_input_object_name(Decl(d).rust) : TRUE)
  <2>1. PICK n \in registered_input_object_name(Decl(d).rust) : Reuse(d, n)
    BY <1>7
  <2>2. n \in DOMAIN types /\ types[n].kind = Kind(d) /\ types[n].rust = Decl(d).rust
    BY <1>1, <1>7 DEF registered_input_object_name
  <2>3. types' = types /\ directives' = directives /\ phase' = phase
        /\ stack' = Append(stack, Frame(d, n, EntityCalls(d)))
    BY <2>1 DEF Reuse, Push
  <2>4. StandsFor(n, d)
    BY <2>2 DEF StandsFor, MadeFrom
  <2>5. Building'
    BY <1>1, <1>7, <2>2, <2>3, <2>4, ReuseKeeps
  <2>6. QED
    BY <1>0, <2>3, <2>5
<1>8. CASE /\ name \in DOMAIN types /\ prev.kind = "Object" /\ Decl(d).kind = "InputObject"
           /\ CreateNew(d, types, unused_input_object_name(name, DOMAIN types))
           /\ UNCHANGED directives
  <2>1. PICK n : n = unused_input_object_name(name, DOMAIN types)
    OBVIOUS
  <2>2. n \in AllNames \ {Entity, Service} /\ n \notin DOMAIN types
    BY <1>1, <2>1, UnusedName DEF Building, TypesInv
  <2>3. types' = Insert(types, n, create_fake_type(d)) /\ phase' = phase
        /\ stack' = Append(stack, Frame(d, n, Constructor(d)))
    BY <1>8, <2>1 DEF CreateNew, Push
  <2>4. Building'
    BY <1>1, <1>8, <2>2, <2>3, InsertKeeps
  <2>5. QED
    BY <1>0, <1>8, <2>3, <2>4
<1>9. QED
  BY <1>2, <1>3, <1>4, <1>5, <1>6, <1>7, <1>8 DEF create_type

(***************************************************************************)
(* The declaration of the current call is the one to create: an input type *)
(* creates input types only.                                               *)
(***************************************************************************)
LEMMA MemberCalling ==
  ASSUME Building, stack # <<>>, Top.calls # <<>>, Current.op = "create"
  PROVE  Current.decl \in Decls /\ Calling(Current.decl)
<1>1. /\ Len(stack) \in Nat \ {0} /\ DOMAIN stack = 1 .. Len(stack)
      /\ Top = stack[Len(stack)]
  BY TopFacts DEF Building, StackTyped, Top
<1>2. Len(stack) \in DOMAIN stack /\ FrameFits(Top)
  BY <1>1 DEF Building, StackInv
<1>3. Top.calls \in Seq(FitCalls(Top.decl))
  BY <1>2 DEF FrameFits
<1>4. Current \in FitCalls(Top.decl)
  BY <1>3, HeadTailProperties DEF Current
<1>5. /\ Current.decl \in Decls
      /\ Current.role \in CallRoles(Kind(Top.decl)) /\ Kind(Current.decl) \in KindsFor(Current.role)
  BY <1>4 DEF FitCalls, CallSet
<1>6. ASSUME Kind(Current.decl) \notin InputKinds, NEW i \in DOMAIN stack
      PROVE  Kind(stack[i].decl) \notin InputKinds
  <2>1. Kind(Top.decl) \notin InputKinds
    BY <1>5, <1>6 DEF CallRoles, KindsFor, InputKinds
  <2>2. CASE i = Len(stack)
    BY <1>1, <2>1, <2>2
  <2>3. CASE i < Len(stack)
    BY <1>1, <1>2, <2>1, <2>3 DEF Building, StackInv, InputsAbove
  <2>4. QED
    BY <1>1, <2>2, <2>3
<1>7. QED
  BY <1>5, <1>6 DEF Calling, Current, Top

(***************************************************************************)
(* The parts of the type invariant that registration leaves alone.         *)
(***************************************************************************)
CallsTyped ==
  /\ todo \in Seq([decl : Decls, as : {"root", "register", "directive"}])
  /\ stack # <<>> => todo # <<>>

RestTyped ==
  /\ implements \subseteq AllNames \X AllNames
  /\ directives \in Seq(RefSet)
  /\ keys \in [DOMAIN keys -> Seq({"unresolvable", "entity"})]

LEMMA Unbuilt ==
  ASSUME RegistryInv, phase # "built"
  PROVE  Building /\ CallsTyped /\ RestTyped /\ Compiles(program) /\ client = NoClient
BY DEF RegistryInv, RegistryTypeOK, PhaseInv, Building, TypesTyped, StackTyped, CallsTyped, RestTyped

LEMMA StillUnbuilt ==
  ASSUME program' = program, Compiles(program), Building', CallsTyped', RestTyped', client' = NoClient,
         phase' \in {"register", "extra", "panicked"}
  PROVE  RegistryInv'
<1>1. Compiles(program)'
  BY SameProgram
<1>2. RegistryTypeOK'
  BY DEF RegistryTypeOK, Building, TypesTyped, StackTyped, CallsTyped, RestTyped
<1>3. PhaseInv'
  <2>1. NoClient' = NoClient
    BY DEF NoClient
  <2>2. QED
    BY <1>1, <2>1 DEF PhaseInv, CallsTyped
<1>4. QED
  BY <1>2, <1>3 DEF RegistryInv, Building

LEMMA RestStays ==
  ASSUME program' = program
  PROVE  /\ UNCHANGED todo /\ todo # <<>> /\ CallsTyped => CallsTyped'
         /\ UNCHANGED <<implements, directives, keys>> => RestTyped' = RestTyped
<1>1. Decls' = Decls /\ RefSet' = RefSet
  BY SameProgram
<1>2. QED
  BY <1>1 DEF CallsTyped, RestTyped

LEMMA CreateMemberKeeps ==
  ASSUME RegistryInv, CreateMember
  PROVE  RegistryInv'
<1>1. /\ phase \in {"register", "extra"} /\ stack # <<>> /\ Top.calls # <<>> /\ Current.op = "create"
      /\ create_type(Current.decl)
      /\ program' = program /\ todo' = todo /\ implements' = implements
      /\ keys' = keys /\ client' = client
  BY DEF CreateMember
<1>2. Building /\ CallsTyped /\ RestTyped /\ Compiles(program) /\ client = NoClient
  BY <1>1, Unbuilt
<1>3. Current.decl \in Decls /\ Calling(Current.decl)
  BY <1>1, <1>2, MemberCalling
<1>4. PICK d \in Decls : d = Current.decl
  BY <1>3
<1>5. Building' /\ (directives \in Seq(RefSet))' /\ phase' \in {phase, "panicked"}
  BY <1>1, <1>2, <1>3, <1>4, CreateKeeps DEF RestTyped
<1>6. CallsTyped' /\ RestTyped'
  BY <1>1, <1>2, <1>5, RestStays DEF CallsTyped, RestTyped
<1>7. QED
  BY <1>1, <1>2, <1>5, <1>6, StillUnbuilt

LEMMA BeginRootKeeps ==
  ASSUME RegistryInv, BeginRoot
  PROVE  RegistryInv'
<1>1. /\ phase \in {"register", "extra"} /\ stack = <<>> /\ todo # <<>>
      /\ create_type(Head(todo).decl)
      /\ program' = program /\ todo' = todo /\ implements' = implements
      /\ keys' = keys /\ client' = client
  BY DEF BeginRoot
<1>2. Building /\ CallsTyped /\ RestTyped /\ Compiles(program) /\ client = NoClient
  BY <1>1, Unbuilt
<1>3. PICK d \in Decls : d = Head(todo).decl
  <2> DEFINE S == [decl : Decls, as : {"root", "register", "directive"}]
  <2>1. todo \in Seq(S)
    BY <1>2 DEF CallsTyped
  <2>2. Head(todo) \in S
    <3> HIDE DEF S
    <3> QED BY <1>1, <2>1, HeadTailProperties
  <2>3. QED
    BY <2>2
<1>4. Calling(d)
  BY <1>1 DEF Calling
<1>5. Building' /\ (directives \in Seq(RefSet))' /\ phase' \in {phase, "panicked"}
  BY <1>1, <1>2, <1>3, <1>4, CreateKeeps DEF RestTyped
<1>6. CallsTyped' /\ RestTyped'
  BY <1>1, <1>2, <1>5, RestStays DEF RestTyped
<1>7. QED
  BY <1>1, <1>2, <1>5, <1>6, StillUnbuilt

(***************************************************************************)
(* A step that cuts the stack to its first k frames and replaces the last  *)
(* of them by one of the same declaration.                                 *)
(***************************************************************************)
LEMMA ShorterStack ==
  ASSUME program' = program, StackTyped, StackInv, KeepsTypes({}),
         NEW k \in 1 .. Len(stack), NEW fr \in FrameSet,
         fr.decl = stack[k].decl, fr.name \in DOMAIN types', FrameFits(fr)',
         stack' \in Seq(FrameSet), Len(stack') = k,
         \A i \in 1 .. k - 1 : stack'[i] = stack[i], stack'[k] = fr
  PROVE  StackTyped' /\ StackInv'
<1>1. Len(stack) \in Nat /\ DOMAIN stack = 1 .. Len(stack) /\ DOMAIN stack' = 1 .. k
  BY LenProperties DEF StackTyped
<1>2. ASSUME NEW i \in 1 .. k - 1 PROVE FrameFits(stack[i])' /\ stack'[i].name \in DOMAIN types'
  <2>1. PICK f : f = stack[i] /\ f = stack'[i]
    BY <1>2
  <2>2. f \in FrameSet /\ f.name \in DOMAIN types /\ FrameFits(f)
    BY <1>1, <2>1 DEF StackTyped, StackInv
  <2>3. FrameFits(f)' /\ f.name \in DOMAIN types'
    BY <2>2, FrameStays
  <2>4. QED
    BY <2>1, <2>3
<1>3. \A i \in 1 .. k : stack'[i].decl = stack[i].decl
  OBVIOUS
<1>4. StackTyped'
  <2>1. FrameSet' = FrameSet
    BY SameProgram
  <2>2. QED
    BY <1>1, <1>2, <2>1 DEF StackTyped
<1>5. CallsChain'
  <2> SUFFICES ASSUME NEW i \in 1 .. k, i + 1 \in 1 .. k
               PROVE  /\ stack'[i].calls # <<>> /\ Head(stack'[i].calls).op = "create"
                      /\ Head(stack'[i].calls).decl = stack'[i + 1].decl
    BY <1>1 DEF CallsChain
  <2>1. i \in 1 .. k - 1 /\ i \in DOMAIN stack /\ i + 1 \in DOMAIN stack
    BY <1>1
  <2>2. QED
    BY <1>3, <2>1 DEF StackInv, CallsChain
<1>6. InputsAbove'
  <2>1. \A e : Kind(e)' = Kind(e)
    BY SameProgram
  <2>2. QED
    BY <1>1, <1>3, <2>1 DEF StackInv, InputsAbove
<1>7. \A i \in DOMAIN stack' : FrameFits(stack[i])'
  <2> SUFFICES ASSUME NEW i \in 1 .. k PROVE FrameFits(stack[i])'
    BY <1>1
  <2>1. CASE i = k
    BY <2>1
  <2>2. CASE i \in 1 .. k - 1
    BY <1>2, <2>2
  <2>3. QED
    BY <2>1, <2>2
<1>8. QED
  BY <1>4, <1>5, <1>6, <1>7 DEF StackInv

(***************************************************************************)
(* The innermost frame after its current call was done.                    *)
(***************************************************************************)
DoneWith(fr) == [fr EXCEPT !.calls = Tail(@)]

LEMMA DoneCall ==
  ASSUME NEW fr \in FrameSet, FrameFits(fr), fr.calls # <<>>,
         NEW next, next = DoneWith(fr)
  PROVE  /\ next \in FrameSet /\ next.decl = fr.decl /\ next.name = fr.name /\ next.refs = fr.refs
         /\ FrameFits(next)
         /\ Head(fr.calls) \in FitCalls(fr.decl)
         /\ Head(fr.calls).op = "close" => Pending(fr)
         /\ Head(fr.calls).op # "close" => (Pending(next) <=> Pending(fr))
<1>1. fr.calls \in Seq(CallSet) /\ fr.calls \in Seq(FitCalls(fr.decl))
  BY DEF FrameSet, FrameFits
<1>2. /\ next \in FrameSet /\ next.decl = fr.decl /\ next.name = fr.name /\ next.refs = fr.refs
      /\ next.calls = Tail(fr.calls)
  <2>1. Tail(fr.calls) \in Seq(CallSet)
    BY <1>1, HeadTailProperties
  <2>2. QED
    BY <2>1 DEF FrameSet, DoneWith
<1>3. PICK calls, rest, S : calls = fr.calls /\ rest = next.calls /\ S = FitCalls(fr.decl)
  OBVIOUS
<1>4. /\ rest \in Seq(S) /\ Head(calls) = calls[1] /\ Head(calls) \in S /\ 1 \in DOMAIN calls
      /\ \A i \in DOMAIN rest : i + 1 \in DOMAIN calls /\ rest[i] = calls[i + 1]
      /\ \A i \in DOMAIN calls : i = 1 \/ \E j \in DOMAIN rest : rest[j] = calls[i]
  <2>1. calls \in Seq(S) /\ calls # <<>> /\ rest = Tail(calls)
    BY <1>1, <1>2, <1>3
  <2>2. Without(S, calls, rest)
    BY <2>1, TailFacts
  <2>3. QED
    BY <2>2 DEF Without
<1>5. Pending(next) => Pending(fr)
  BY <1>3, <1>4 DEF Pending
<1>6. ASSUME Pending(fr), Head(fr.calls).op # "close" PROVE Pending(next)
  BY <1>3, <1>4, <1>6 DEF Pending
<1>7. Head(fr.calls).op = "close" => Pending(fr)
  BY <1>3, <1>4 DEF Pending
<1>8. FrameFits(next)
  BY <1>2, <1>3, <1>4, <1>5 DEF FrameFits
<1>9. QED
  BY <1>2, <1>3, <1>4, <1>5, <1>6, <1>7, <1>8

LEMMA DoneTop ==
  ASSUME program' = program, StackTyped, StackInv, stack # <<>>, Top.calls # <<>>, KeepsTypes({}),
         stack' = Replaced(stack, DoneWith(Top))
  PROVE  /\ StackTyped' /\ StackInv'
         /\ Len(stack) \in DOMAIN stack /\ Top = stack[Len(stack)]
         /\ Top \in FrameSet /\ FrameFits(Top) /\ Top.name \in DOMAIN types
         /\ DOMAIN stack' = DOMAIN stack
         /\ \A i \in DOMAIN stack : /\ stack'[i].name = stack[i].name
                                    /\ stack'[i].decl = stack[i].decl
                                    /\ stack'[i].refs = stack[i].refs
                                    /\ i = Len(stack) \/ stack'[i] = stack[i]
         /\ Current \in FitCalls(Top.decl)
         /\ Current.op = "close" => Pending(Top)
         /\ Current.op # "close" => (Pending(stack'[Len(stack)]) <=> Pending(Top))
<1>1. /\ Len(stack) \in Nat \ {0} /\ DOMAIN stack = 1 .. Len(stack)
      /\ Top = stack[Len(stack)] /\ Len(stack) \in 1 .. Len(stack)
  <2>1. stack \in Seq(FrameSet) /\ stack # <<>>
    BY DEF StackTyped
  <2>2. Len(stack) \in Nat \ {0} /\ DOMAIN stack = 1 .. Len(stack) /\ Last(stack) = stack[Len(stack)]
    BY <2>1, TopFacts
  <2>3. QED
    BY <2>2 DEF Top
<1>2. Top \in FrameSet /\ FrameFits(Top) /\ Top.name \in DOMAIN types
  BY <1>1 DEF StackTyped, StackInv
<1>3. PICK fr : fr = DoneWith(Top)
  OBVIOUS
<1>4. /\ fr \in FrameSet /\ fr.decl = Top.decl /\ fr.name = Top.name /\ fr.refs = Top.refs
      /\ FrameFits(fr) /\ Current \in FitCalls(Top.decl)
      /\ Current.op = "close" => Pending(Top)
      /\ Current.op # "close" => (Pending(fr) <=> Pending(Top))
  BY <1>2, <1>3, DoneCall DEF Current
<1>5. /\ stack' \in Seq(FrameSet) /\ Len(stack') = Len(stack) /\ DOMAIN stack' = 1 .. Len(stack)
      /\ \A i \in 1 .. Len(stack) - 1 : stack'[i] = stack[i]
      /\ stack'[Len(stack)] = fr
  <2>1. stack \in Seq(FrameSet) /\ stack # <<>> /\ stack' = Replaced(stack, fr)
    BY <1>3 DEF StackTyped
  <2>2. fr \in FrameSet
    BY <1>4
  <2>3. ReplacedFacts(FrameSet, stack, fr, stack')
    BY <2>1, <2>2, ReplaceTop
  <2>4. QED
    BY <2>3 DEF ReplacedFacts
<1>6. FrameFits(fr)' /\ fr.name \in DOMAIN types'
  BY <1>2, <1>4, FrameStays
<1>7. StackTyped' /\ StackInv'
  <2>1. PICK k \in 1 .. Len(stack) : k = Len(stack)
    BY <1>1
  <2>2. /\ fr \in FrameSet /\ fr.decl = stack[k].decl /\ fr.name \in DOMAIN types' /\ FrameFits(fr)'
        /\ stack' \in Seq(FrameSet) /\ Len(stack') = k
        /\ \A i \in 1 .. k - 1 : stack'[i] = stack[i]
        /\ stack'[k] = fr
    BY <1>1, <1>4, <1>5, <1>6, <2>1
  <2>3. QED
    BY <2>2, ShorterStack
<1>8. \A i \in DOMAIN stack : /\ stack'[i].name = stack[i].name
                              /\ stack'[i].decl = stack[i].decl
                              /\ stack'[i].refs = stack[i].refs
                              /\ i = Len(stack) \/ stack'[i] = stack[i]
  BY <1>1, <1>4, <1>5
<1>9. Current.op # "close" => (Pending(stack'[Len(stack)]) <=> Pending(Top))
  BY <1>4, <1>5
<1>10. QED
  BY <1>1, <1>2, <1>4, <1>5, <1>7, <1>8, <1>9

LEMMA InsertType ==
  ASSUME NEW S, NEW map, map \in [DOMAIN map -> S], NEW n, NEW v \in S,
         NEW new, new = Insert(map, n, v)
  PROVE  new \in [DOMAIN new -> S]
<1>1. new = [m \in DOMAIN map \cup {n} |-> IF m = n THEN v ELSE map[m]]
  BY DEF Insert
<1>2. DOMAIN new = DOMAIN map \cup {n} /\ new = [m \in DOMAIN new |-> new[m]]
  BY <1>1
<1>3. ASSUME NEW m \in DOMAIN new PROVE new[m] \in S
  BY <1>1, <1>3
<1>4. QED
  BY <1>2, <1>3

(***************************************************************************)
(* The constructor returns: the type that replaces the empty one is of the *)
(* same kind and Rust type, so what was meant by its name still is.  The   *)
(* name an input object refers to itself by is its own unless an object    *)
(* has that, and no input field stands for an object.                      *)
(***************************************************************************)
LEMMA CloseTypeKeeps ==
  ASSUME RegistryInv, CloseType
  PROVE  RegistryInv'
<1> DEFINE d == Current.decl
           closed == [kind |-> Decl(d).kind, rust |-> Decl(d).rust, name |-> Top.name,
                      marks |-> Decl(d).marks,
                      refs |-> rename_input_type_references_in_type(Top.refs, Decl(d).name, Top.name)]
<1>1. /\ phase \in {"register", "extra"} /\ stack # <<>> /\ Top.calls # <<>> /\ Current.op = "close"
      /\ types' = [types EXCEPT ![Top.name] = closed]
      /\ stack' = Replaced(stack, DoneWith(Top))
      /\ keys' = Insert(keys, Top.name, IF Decl(d).unresolvable THEN <<"unresolvable">> ELSE <<>>)
      /\ program' = program /\ todo' = todo /\ implements' = implements
      /\ directives' = directives /\ phase' = phase /\ client' = client
  BY DEF CloseType, Replaced, DoneWith, Below
<1>2. Building /\ CallsTyped /\ RestTyped /\ Compiles(program) /\ client = NoClient
  BY <1>1, Unbuilt
<1>3. PICK top, n, e : top = Top /\ n = Top.name /\ e = Current.decl
  OBVIOUS
<1>4. PICK new : new = closed
  OBVIOUS
<1>5. stack \in Seq(FrameSet) /\ StackTyped /\ StackInv /\ Len(stack) \in DOMAIN stack
      /\ top = stack[Len(stack)]
  <2>1. stack \in Seq(FrameSet) /\ stack # <<>>
    BY <1>1, <1>2 DEF Building, StackTyped
  <2>2. Len(stack) \in Nat \ {0} /\ DOMAIN stack = 1 .. Len(stack) /\ Last(stack) = stack[Len(stack)]
    BY <2>1, TopFacts
  <2>3. QED
    BY <1>2, <1>3, <2>1, <2>2 DEF Building, Top
<1>6. /\ top \in FrameSet /\ FrameFits(top) /\ n = top.name /\ n \in DOMAIN types
      /\ top.calls # <<>> /\ Head(top.calls) = Current
  BY <1>1, <1>3, <1>5 DEF StackTyped, StackInv, Current
<1>7. Current \in FitCalls(top.decl) /\ Pending(top)
  BY <1>1, <1>6, DoneCall
<1>8. e = top.decl /\ e \in Decls
  BY <1>1, <1>3, <1>6, <1>7 DEF FitCalls, FrameSet
<1>9. /\ Decl(e) \in DeclSet(program) /\ Kind(e) \in Kinds /\ Decl(e).rust \in Labels
      /\ Decl(e).marks \in SUBSET Labels /\ n \in AllNames
  BY <1>2, <1>6, <1>8, DeclFacts DEF DeclSet, Building, TypesTyped
<1>10. MadeFrom(n, e)
  BY <1>6, <1>7, <1>8 DEF FrameFits
<1>11. PICK refs : refs = rename_input_type_references_in_type(top.refs, Decl(e).name, n)
  OBVIOUS
<1>12. /\ top.refs \in Seq(FitRefs(Kind(e)))
       /\ refs \in Seq(FitRefs(Kind(e))) /\ Renames(top.refs, refs, Decl(e).name, n)
  <2>1. top.refs \in Seq(FitRefs(Kind(e)))
    BY <1>6, <1>8 DEF FrameFits
  <2>2. QED
    BY <1>9, <1>11, <2>1, RenamedRefs
<1>13. /\ new \in TypeSet /\ new.kind = Kind(e) /\ new.rust = Decl(e).rust
       /\ new.name = n /\ new.refs = refs
  <2>1. FitRefs(Kind(e)) \subseteq RefSet
    BY DEF FitRefs
  <2>2. refs \in Seq(RefSet)
    BY <1>12, <2>1, SeqMonotonic
  <2>3. new = [kind |-> Kind(e), rust |-> Decl(e).rust, name |-> n, marks |-> Decl(e).marks,
               refs |-> refs]
    BY <1>3, <1>4, <1>11 DEF Kind
  <2>4. QED
    BY <1>9, <2>2, <2>3 DEF TypeSet
<1>14. /\ DOMAIN types' = DOMAIN types /\ types' \in [DOMAIN types -> TypeSet]
       /\ types'[n] = new /\ \A m \in DOMAIN types : m # n => types'[m] = types[m]
  <2>1. types' = [types EXCEPT ![n] = new]
    BY <1>1, <1>3, <1>4
  <2>2. QED
    BY <1>2, <1>6, <1>13, <2>1 DEF Building, TypesTyped
<1>15. ASSUME NEW m \in DOMAIN types PROVE types'[m].kind = types[m].kind /\ types'[m].rust = types[m].rust
  BY <1>10, <1>13, <1>14 DEF MadeFrom
<1>16. KeepsTypes({})
  BY <1>14, <1>15 DEF KeepsTypes
<1>17. /\ StackTyped' /\ StackInv'
       /\ DOMAIN stack' = DOMAIN stack
       /\ \A i \in DOMAIN stack : /\ stack'[i].name = stack[i].name
                                  /\ stack'[i].decl = stack[i].decl
                                  /\ stack'[i].refs = stack[i].refs
                                  /\ i = Len(stack) \/ stack'[i] = stack[i]
  BY <1>1, <1>5, <1>16, DoneTop
<1>18. TypesTyped'
  <2>1. TypeSet' = TypeSet
    BY <1>1, SameProgram
  <2>2. QED
    BY <1>2, <1>14, <2>1 DEF Building, TypesTyped
<1>19. \A r : TargetsExist(r)' <=> TargetsExist(r)
  BY <1>14 DEF TargetsExist
<1>20. TargetsExist(refs)
  <2>1. TargetsExist(top.refs)
    BY <1>2, <1>5 DEF Building, TypesInv
  <2>2. QED
    BY <1>6, <1>12, <2>1 DEF TargetsExist, Renames
<1>21. TypesInv'
  <2>1. ASSUME NEW m \in DOMAIN types'
        PROVE  /\ (types[m].refs \in Seq(FitRefs(types[m].kind)))' /\ TargetsExist(types[m].refs)'
               /\ (types[m].name = m \/ \E i \in DOMAIN stack : stack[i].name = m /\ Pending(stack[i]))'
               /\ (types[m].kind = "Scalar" => m \in ScalarNames)'
    <3>1. PICK kind, rs : kind = types'[m].kind /\ rs = types'[m].refs
      OBVIOUS
    <3>2. FitRefs(kind)' = FitRefs(kind) /\ ScalarNames' = ScalarNames
      BY <1>1, SameProgram
    <3>3. rs \in Seq(FitRefs(kind)) /\ TargetsExist(rs)
      <4>1. CASE m = n
        BY <1>12, <1>13, <1>14, <1>20, <3>1, <4>1
      <4>2. CASE m # n
        BY <1>2, <1>14, <3>1, <4>2 DEF Building, TypesInv
      <4>3. QED
        BY <4>1, <4>2
    <3>4. (types[m].refs \in Seq(FitRefs(types[m].kind)))' /\ TargetsExist(types[m].refs)'
      BY <1>19, <3>1, <3>2, <3>3
    <3>5. (types[m].name = m \/ \E i \in DOMAIN stack : stack[i].name = m /\ Pending(stack[i]))'
      <4>1. CASE m = n
        BY <1>13, <1>14, <4>1
      <4>2. CASE m # n
        <5>1. types'[m].name = types[m].name
          BY <1>14, <4>2
        <5>2. types[m].name = m \/ \E i \in DOMAIN stack : stack[i].name = m /\ Pending(stack[i])
          BY <1>2, <1>14 DEF Building, TypesInv
        <5>3. ASSUME NEW i \in DOMAIN stack, stack[i].name = m, Pending(stack[i])
              PROVE  i \in DOMAIN stack' /\ stack'[i].name = m /\ Pending(stack[i])'
          <6>1. stack'[i] = stack[i]
            BY <1>5, <1>6, <1>17, <4>2, <5>3
          <6>2. QED
            BY <1>17, <5>3, <6>1 DEF Pending
        <5>4. QED
          BY <5>1, <5>2, <5>3
      <4>3. QED
        BY <4>1, <4>2
    <3>6. (types[m].kind = "Scalar" => m \in ScalarNames)'
      BY <1>2, <1>14, <1>15, <3>2 DEF Building, TypesInv
    <3>7. QED
      BY <3>4, <3>5, <3>6
  <2>2. \A i \in DOMAIN stack' : TargetsExist(stack[i].refs)'
    <3> SUFFICES ASSUME NEW i \in DOMAIN stack' PROVE TargetsExist(stack[i].refs)'
      OBVIOUS
    <3>1. stack'[i].refs = stack[i].refs /\ TargetsExist(stack[i].refs)
      BY <1>2, <1>17 DEF Building, TypesInv
    <3>2. QED
      BY <1>19, <3>1
  <2>3. TargetsExist(directives)'
    BY <1>1, <1>2, <1>19 DEF Building, TypesInv
  <2>4. QED
    BY <1>2, <1>14, <2>1, <2>2, <2>3 DEF Building, TypesInv
<1>22. MeaningInv'
  <2> SUFFICES ASSUME program.ignore_name_conflicts = {}
               PROVE  /\ \A m \in DOMAIN types' : RefsMean(types[m].refs)'
                      /\ \A i \in DOMAIN stack' :
                            RefsMean(stack[i].refs)' /\ StandsFor(stack[i].name, stack[i].decl)'
    BY <1>1 DEF MeaningInv
  <2>1. ASSUME NEW m \in DOMAIN types, NEW c PROVE StandsFor(m, c)' <=> StandsFor(m, c)
    <3>1. Kind(c)' = Kind(c) /\ Decl(c)' = Decl(c)
      BY <1>1, SameProgram
    <3>2. QED
      BY <1>15, <3>1 DEF StandsFor, MadeFrom
  <2>2. ASSUME NEW rs, RefsMean(rs), TargetsExist(rs) PROVE RefsMean(rs)'
    BY <2>1, <2>2 DEF RefsMean, TargetsExist
  <2>3. RefsMean(refs)
    <3>1. RefsMean(top.refs)
      BY <1>2, <1>5 DEF Building, MeaningInv
    <3>2. ASSUME NEW i \in DOMAIN top.refs, top.refs[i].role # "arg"
          PROVE  StandsFor(refs[i].to, refs[i].decl)
      <4>1. StandsFor(top.refs[i].to, top.refs[i].decl) /\ top.refs[i] \in FitRefs(Kind(e))
        BY <1>12, <3>1, <3>2 DEF RefsMean
      <4>2. refs[i].decl = top.refs[i].decl
        BY <1>12 DEF Renames
      <4>3. CASE refs[i].to = top.refs[i].to
        BY <4>1, <4>2, <4>3
      <4>4. CASE refs[i].to # top.refs[i].to
        <5>1. top.refs[i].to = Decl(e).name /\ refs[i].to = n /\ top.refs[i].role = "input"
          BY <1>12, <3>2, <4>4 DEF Renames
        <5>2. Kind(top.refs[i].decl) \in InputKinds
          BY <4>1, <5>1 DEF FitRefs, KindsFor
        <5>3. types[Decl(e).name].kind = "Object"
          BY <1>6, <1>7, <1>8, <4>4, <5>1 DEF FrameFits
        <5>4. QED
          BY <4>1, <5>1, <5>2, <5>3 DEF StandsFor, MadeFrom, InputKinds
      <4>5. QED
        BY <4>3, <4>4
    <3>3. \A i \in DOMAIN top.refs : refs[i].role = top.refs[i].role
      BY <1>12 DEF Renames
    <3>4. QED
      BY <1>12, <3>2, <3>3 DEF RefsMean, Renames
  <2>4. ASSUME NEW m \in DOMAIN types' PROVE RefsMean(types[m].refs)'
    <3>1. PICK rs : rs = types'[m].refs
      OBVIOUS
    <3>2. RefsMean(rs) /\ TargetsExist(rs)
      <4>1. CASE m = n
        BY <1>13, <1>14, <1>20, <2>3, <3>1, <4>1
      <4>2. CASE m # n
        BY <1>2, <1>14, <3>1, <4>2 DEF Building, TypesInv, MeaningInv
      <4>3. QED
        BY <4>1, <4>2
    <3>3. QED
      BY <2>2, <3>1, <3>2
  <2>5. ASSUME NEW i \in DOMAIN stack'
        PROVE  RefsMean(stack[i].refs)' /\ StandsFor(stack[i].name, stack[i].decl)'
    <3>1. /\ stack'[i].name = stack[i].name /\ stack'[i].decl = stack[i].decl
          /\ stack'[i].refs = stack[i].refs /\ stack[i].name \in DOMAIN types
          /\ RefsMean(stack[i].refs) /\ TargetsExist(stack[i].refs)
          /\ StandsFor(stack[i].name, stack[i].decl)
      BY <1>2, <1>5, <1>17 DEF Building, StackTyped, TypesInv, MeaningInv
    <3>2. QED
      BY <2>1, <2>2, <3>1
  <2>6. QED
    BY <2>4, <2>5
<1>23. Building'
  BY <1>17, <1>18, <1>21, <1>22 DEF Building
<1>24. RestTyped'
  <2>1. PICK v : v = IF Decl(d).unresolvable THEN <<"unresolvable">> ELSE <<>>
    OBVIOUS
  <2>2. v \in Seq({"unresolvable", "entity"})
    <3>1. <<"unresolvable">> \in Seq({"unresolvable", "entity"})
      OBVIOUS
    <3>2. <<>> \in Seq({"unresolvable", "entity"})
      OBVIOUS
    <3>3. v = <<"unresolvable">> \/ v = <<>>
      BY <2>1
    <3>4. QED
      BY <3>1, <3>2, <3>3
  <2>3. keys \in [DOMAIN keys -> Seq({"unresolvable", "entity"})] /\ keys' = Insert(keys, n, v)
    BY <1>1, <1>2, <1>3, <2>1 DEF RestTyped
  <2>4. keys' \in [DOMAIN keys' -> Seq({"unresolvable", "entity"})]
    BY <2>2, <2>3, InsertType
  <2>5. RefSet' = RefSet
    BY <1>1, SameProgram
  <2>6. QED
    BY <1>1, <1>2, <2>4, <2>5 DEF RestTyped
<1>25. CallsTyped'
  BY <1>1, <1>2, RestStays DEF CallsTyped
<1>26. QED
  BY <1>1, <1>2, <1>23, <1>24, <1>25, StillUnbuilt

(***************************************************************************)
(* What depends on the types alone stays as it is when they do.            *)
(***************************************************************************)
LEMMA SameTypes ==
  ASSUME program' = program, types' = types
  PROVE  /\ KeepsTypes({}) /\ (TypesTyped' <=> TypesTyped)
         /\ \A refs : TargetsExist(refs)' <=> TargetsExist(refs)
         /\ \A n, d : StandsFor(n, d)' <=> StandsFor(n, d)
         /\ \A refs : RefsMean(refs)' <=> RefsMean(refs)
         /\ \A n \in DOMAIN types : (types[n].refs \in Seq(FitRefs(types[n].kind)))'
                                      <=> types[n].refs \in Seq(FitRefs(types[n].kind))
<1>1. TypeSet' = TypeSet /\ \A d : Decl(d)' = Decl(d) /\ Kind(d)' = Kind(d)
  BY SameProgram
<1>2. KeepsTypes({}) /\ (TypesTyped' <=> TypesTyped)
  BY <1>1 DEF KeepsTypes, TypesTyped
<1>3. \A refs : TargetsExist(refs)' <=> TargetsExist(refs)
  BY DEF TargetsExist
<1>4. \A n, d : StandsFor(n, d)' <=> StandsFor(n, d)
  BY <1>1 DEF StandsFor, MadeFrom
<1>5. \A refs : RefsMean(refs)' <=> RefsMean(refs)
  BY <1>4 DEF RefsMean
<1>6. ASSUME NEW n \in DOMAIN types
      PROVE (types[n].refs \in Seq(FitRefs(types[n].kind)))'
              <=> types[n].refs \in Seq(FitRefs(types[n].kind))
  <2>1. PICK kind : kind = types[n].kind
    OBVIOUS
  <2>2. FitRefs(kind)' = FitRefs(kind)
    BY SameProgram
  <2>3. QED
    BY <2>1, <2>2
<1>7. QED
  BY <1>2, <1>3, <1>4, <1>5, <1>6

(***************************************************************************)
(* A key is added to a type that is registered.                            *)
(***************************************************************************)
LEMMA AddKeysKeeps ==
  ASSUME RegistryInv, add_keys
  PROVE  RegistryInv'
<1>1. /\ phase \in {"register", "extra"} /\ stack # <<>> /\ Top.calls # <<>> /\ Current.op = "key"
      /\ types' = types
      /\ stack' = Replaced(stack, DoneWith(Top))
      /\ \/ keys' = keys
         \/ keys' = Insert(keys, Decl(Current.decl).name, Append(KeysOf(Decl(Current.decl).name), "entity"))
      /\ program' = program /\ todo' = todo /\ implements' = implements
      /\ directives' = directives /\ phase' = phase /\ client' = client
  BY DEF add_keys, Replaced, DoneWith, Below
<1>2. Building /\ CallsTyped /\ RestTyped /\ Compiles(program) /\ client = NoClient
  BY <1>1, Unbuilt
<1>3. /\ KeepsTypes({}) /\ (TypesTyped' <=> TypesTyped)
      /\ \A refs : TargetsExist(refs)' <=> TargetsExist(refs)
      /\ \A n, d : StandsFor(n, d)' <=> StandsFor(n, d)
      /\ \A refs : RefsMean(refs)' <=> RefsMean(refs)
      /\ \A n \in DOMAIN types : (types[n].refs \in Seq(FitRefs(types[n].kind)))'
                                   <=> types[n].refs \in Seq(FitRefs(types[n].kind))
  BY <1>1, SameTypes
<1>4. /\ StackTyped' /\ StackInv' /\ DOMAIN stack' = DOMAIN stack
      /\ \A i \in DOMAIN stack : /\ stack'[i].name = stack[i].name
                                 /\ stack'[i].decl = stack[i].decl
                                 /\ stack'[i].refs = stack[i].refs
                                 /\ i = Len(stack) \/ stack'[i] = stack[i]
      /\ Top = stack[Len(stack)]
      /\ Pending(stack'[Len(stack)]) <=> Pending(Top)
  BY <1>1, <1>2, <1>3, DoneTop DEF Building
<1>5. TypesInv'
  <2>1. ASSUME NEW m \in DOMAIN types
        PROVE  (types[m].name = m \/ \E i \in DOMAIN stack : stack[i].name = m /\ Pending(stack[i]))'
    <3>1. types[m].name = m \/ \E i \in DOMAIN stack : stack[i].name = m /\ Pending(stack[i])
      BY <1>2 DEF Building, TypesInv
    <3>2. ASSUME NEW i \in DOMAIN stack, stack[i].name = m, Pending(stack[i])
          PROVE  i \in DOMAIN stack' /\ stack'[i].name = m /\ Pending(stack[i])'
      <4>1. PICK f : f = stack'[i]
        OBVIOUS
      <4>2. Pending(f)
        <5>1. CASE i = Len(stack)
          BY <1>4, <3>2, <4>1, <5>1
        <5>2. CASE i # Len(stack)
          BY <1>4, <3>2, <4>1, <5>2
        <5>3. QED
          BY <5>1, <5>2
      <4>3. Pending(f)'
        BY <4>2 DEF Pending
      <4>4. QED
        BY <1>4, <3>2, <4>1, <4>3
    <3>3. QED
      BY <1>1, <3>1, <3>2
  <2>2. ASSUME NEW i \in DOMAIN stack' PROVE TargetsExist(stack[i].refs)'
    <3>1. stack'[i].refs = stack[i].refs /\ TargetsExist(stack[i].refs)
      BY <1>2, <1>4 DEF Building, TypesInv
    <3>2. QED
      BY <1>3, <3>1
  <2>3. ScalarNames' = ScalarNames
    BY <1>1, SameProgram
  <2>4. ASSUME NEW m \in DOMAIN types
        PROVE  (types[m].refs \in Seq(FitRefs(types[m].kind)))' /\ TargetsExist(types[m].refs)'
               /\ (types[m].kind = "Scalar" => m \in ScalarNames)'
    BY <1>1, <1>2, <1>3, <2>3 DEF Building, TypesInv
  <2>5. TargetsExist(directives)'
    BY <1>1, <1>2, <1>3 DEF Building, TypesInv
  <2>6. IsFiniteSet(DOMAIN types') /\ Entity \notin DOMAIN types' /\ Service \notin DOMAIN types'
    BY <1>1, <1>2 DEF Building, TypesInv
  <2>7. QED
    BY <1>1, <2>1, <2>2, <2>4, <2>5, <2>6 DEF TypesInv
<1>6. MeaningInv'
  <2> SUFFICES ASSUME program.ignore_name_conflicts = {}
               PROVE  /\ \A m \in DOMAIN types' : RefsMean(types[m].refs)'
                      /\ \A i \in DOMAIN stack' :
                            RefsMean(stack[i].refs)' /\ StandsFor(stack[i].name, stack[i].decl)'
    BY <1>1 DEF MeaningInv
  <2>1. ASSUME NEW m \in DOMAIN types' PROVE RefsMean(types[m].refs)'
    BY <1>1, <1>2, <1>3 DEF Building, MeaningInv
  <2>2. ASSUME NEW i \in DOMAIN stack'
        PROVE  RefsMean(stack[i].refs)' /\ StandsFor(stack[i].name, stack[i].decl)'
    <3>1. /\ stack'[i].name = stack[i].name /\ stack'[i].decl = stack[i].decl
          /\ stack'[i].refs = stack[i].refs
          /\ RefsMean(stack[i].refs) /\ StandsFor(stack[i].name, stack[i].decl)
      BY <1>2, <1>4 DEF Building, MeaningInv
    <3>2. QED
      BY <1>3, <3>1
  <2>3. QED
    BY <2>1, <2>2
<1>7. Building'
  BY <1>2, <1>3, <1>4, <1>5, <1>6 DEF Building
<1>8. RestTyped'
  <2> DEFINE K == Seq({"unresolvable", "entity"})
  <2>1. keys' \in [DOMAIN keys' -> K]
    <3>1. CASE keys' = keys
      BY <1>2, <3>1 DEF RestTyped
    <3>2. CASE keys' = Insert(keys, Decl(Current.decl).name,
                              Append(KeysOf(Decl(Current.decl).name), "entity"))
      <4>1. PICK n, k : n = Decl(Current.decl).name /\ k = KeysOf(n)
        OBVIOUS
      <4>2. keys \in [DOMAIN keys -> K]
        BY <1>2 DEF RestTyped
      <4>3. <<>> \in K
        OBVIOUS
      <4>4. k \in K
        <5> HIDE DEF K
        <5> QED BY <4>1, <4>2, <4>3 DEF KeysOf
      <4>5. Append(k, "entity") \in K
        BY <4>4, AppendProperties
      <4>6. PICK v \in K : v = Append(k, "entity")
        BY <4>5
      <4> HIDE DEF K
      <4>7. keys' = Insert(keys, n, v)
        BY <3>2, <4>1, <4>6
      <4>8. QED
        BY <4>2, <4>7, InsertType
    <3>3. QED
      BY <1>1, <3>1, <3>2
  <2>2. RefSet' = RefSet
    BY <1>1, SameProgram
  <2>3. QED
    BY <1>1, <1>2, <2>1, <2>2 DEF RestTyped
<1>9. CallsTyped'
  BY <1>1, <1>2, RestStays DEF CallsTyped
<1>10. QED
  BY <1>1, <1>2, <1>7, <1>8, <1>9, StillUnbuilt

(***************************************************************************)
(* What a call returns fits the type that its caller builds, names         *)
(* registered types only and means what it was written for.                *)
(***************************************************************************)
LEMMA ReturnedRefs ==
  ASSUME Compiles(program), Building,
         NEW top \in FrameSet, FrameFits(top), top.name \in DOMAIN types,
         NEW d \in Decls, NEW call \in FitCalls(d), call.op = "create", call.decl = top.decl,
         program.ignore_name_conflicts = {} => StandsFor(top.name, top.decl),
         NEW refs, refs = RefsReturned(call, top.name)
  PROVE  /\ refs \in Seq(FitRefs(Kind(d))) /\ TargetsExist(refs)
         /\ program.ignore_name_conflicts = {} => RefsMean(refs)
<1>1. /\ call.role \in CallRoles(Kind(d)) /\ Kind(top.decl) \in KindsFor(call.role)
      /\ call \in CallSet /\ call.path \in Seq(Labels) /\ call.marks \in SUBSET Labels
      /\ top.decl \in Decls /\ top.name \in AllNames
  BY DEF FitCalls, CallSet, FrameSet
<1>2. ASSUME call.role \in {"out", "arg", "input", "possible"}
      PROVE  /\ <<Ref(call, top.name)>> \in Seq(FitRefs(Kind(d))) /\ TargetsExist(<<Ref(call, top.name)>>)
             /\ program.ignore_name_conflicts = {} => RefsMean(<<Ref(call, top.name)>>)
  <2> DEFINE r == Ref(call, top.name)
  <2>1. r.role = call.role /\ r.decl = top.decl /\ r.to = top.name
    BY DEF Ref
  <2>2. r \in RefSet
    BY <1>1, <1>2 DEF Ref, RefSet
  <2>3. call.role \in RolesOf(Kind(d))
    BY <1>1, <1>2 DEF RolesOf, CallRoles
  <2>4. r \in FitRefs(Kind(d))
    BY <1>1, <2>1, <2>2, <2>3 DEF FitRefs
  <2> HIDE DEF r
  <2>5. <<r>> \in Seq(FitRefs(Kind(d)))
    BY <2>4
  <2>6. TargetsExist(<<r>>)
    BY <2>1 DEF TargetsExist
  <2>7. program.ignore_name_conflicts = {} => RefsMean(<<r>>)
    BY <2>1 DEF RefsMean
  <2>8. QED
    BY <2>5, <2>6, <2>7 DEF r
<1>3. CASE call.role \in {"out", "arg", "input"}
  <2>1. refs = <<Ref(call, top.name)>>
    BY <1>3 DEF RefsReturned
  <2>2. QED
    BY <1>2, <1>3, <2>1
<1>4. CASE call.role = "possible"
  <2>1. top.name = Decl(call.decl).name
    BY <1>1, <1>4 DEF KindsFor, FrameFits
  <2>2. refs = <<Ref(call, top.name)>>
    BY <1>4, <2>1 DEF RefsReturned
  <2>3. QED
    BY <1>2, <1>4, <2>2
<1>5. CASE call.role = "extend"
  <2>1. refs = types[top.name].refs
    BY <1>5 DEF RefsReturned
  <2>2. Kind(top.decl) = "Object" /\ types[top.name].kind \in {"Scalar", "Object"}
    BY <1>1, <1>5 DEF KindsFor, FrameFits
  <2>3. Kind(d) # "InputObject"
    BY <1>1, <1>5 DEF CallRoles
  <2>4. FitRefs(types[top.name].kind) = FitRefs(Kind(d))
    BY <2>2, <2>3 DEF FitRefs, RolesOf
  <2>5. QED
    BY <2>1, <2>4 DEF Building, TypesInv, MeaningInv
<1>6. CASE call.role = "none"
  <2>1. refs = <<>>
    BY <1>6 DEF RefsReturned
  <2>2. QED
    BY <2>1 DEF TargetsExist, RefsMean
<1>7. QED
  BY <1>1, <1>3, <1>4, <1>5, <1>6 DEF CallRoles

(***************************************************************************)
(* The caller keeps what is returned to it.                                *)
(***************************************************************************)
ReturnedTo(fr, more) == [fr EXCEPT !.calls = Tail(@), !.refs = @ \o more]

LEMMA CallerFits ==
  ASSUME NEW fr \in FrameSet, FrameFits(fr), fr.calls # <<>>, Head(fr.calls).op # "close",
         NEW more \in Seq(FitRefs(Kind(fr.decl))),
         NEW next, next = ReturnedTo(fr, more)
  PROVE  /\ next \in FrameSet /\ next.decl = fr.decl /\ next.name = fr.name
         /\ FrameFits(next) /\ (Pending(next) <=> Pending(fr))
         /\ TargetsExist(fr.refs) /\ TargetsExist(more) => TargetsExist(next.refs)
         /\ RefsMean(fr.refs) /\ RefsMean(more) => RefsMean(next.refs)
<1>1. PICK mid : mid = DoneWith(fr)
  OBVIOUS
<1>2. /\ mid \in FrameSet /\ mid.decl = fr.decl /\ mid.name = fr.name /\ mid.refs = fr.refs
      /\ FrameFits(mid) /\ (Pending(mid) <=> Pending(fr))
  BY <1>1, DoneCall
<1>3. PICK S, refs, all : S = FitRefs(Kind(fr.decl)) /\ refs = fr.refs /\ all = refs \o more
  OBVIOUS
<1>4. refs \in Seq(S) /\ more \in Seq(S)
  BY <1>2, <1>3 DEF FrameFits
<1>5. /\ all \in Seq(S)
      /\ \A i \in DOMAIN all : \/ \E j \in DOMAIN refs : all[i] = refs[j]
                               \/ \E j \in DOMAIN more : all[i] = more[j]
  <2>1. Joined(S, refs, more, refs \o more)
    BY <1>4, ConcatJoins
  <2>2. Joined(S, refs, more, all)
    BY <1>3, <2>1
  <2>3. QED
    BY <2>2 DEF Joined
<1>6. /\ next \in FrameSet /\ next.decl = fr.decl /\ next.name = fr.name
      /\ next.calls = mid.calls /\ next.refs = all
  <2>1. S \subseteq RefSet
    BY <1>3 DEF FitRefs
  <2>2. all \in Seq(RefSet)
    BY <1>5, <2>1, SeqMonotonic
  <2>3. mid.calls = Tail(fr.calls) /\ mid.calls \in Seq(CallSet)
    BY <1>1, <1>2 DEF DoneWith, FrameSet
  <2>4. next = [fr EXCEPT !.calls = mid.calls, !.refs = all]
    BY <1>3, <2>3 DEF ReturnedTo
  <2>5. QED
    BY <2>2, <2>3, <2>4 DEF FrameSet
<1>7. Pending(next) <=> Pending(fr)
  BY <1>2, <1>6 DEF Pending
<1>8. FrameFits(next)
  <2>1. next.calls \in Seq(FitCalls(next.decl))
    BY <1>2, <1>6 DEF FrameFits
  <2>2. next.refs \in Seq(FitRefs(Kind(next.decl)))
    BY <1>3, <1>5, <1>6
  <2>3. QED
    BY <1>6, <1>7, <2>1, <2>2 DEF FrameFits
<1>9. ASSUME TargetsExist(refs), TargetsExist(more) PROVE TargetsExist(all)
  BY <1>5, <1>9 DEF TargetsExist
<1>10. ASSUME RefsMean(refs), RefsMean(more) PROVE RefsMean(all)
  BY <1>5, <1>10 DEF RefsMean
<1>11. QED
  BY <1>3, <1>6, <1>7, <1>8, <1>9, <1>10

LEMMA CallerFacts ==
  ASSUME StackTyped, StackInv, Len(stack) > 1
  PROVE  /\ Len(stack) \in Nat /\ DOMAIN stack = 1 .. Len(stack)
         /\ Len(stack) \in DOMAIN stack /\ Len(stack) - 1 \in DOMAIN stack
         /\ Below \in Seq(FrameSet) /\ Below # <<>> /\ Len(Below) = Len(stack) - 1
         /\ \A i \in 1 .. Len(stack) - 1 : Below[i] = stack[i]
         /\ Top = stack[Len(stack)] /\ Last(Below) = stack[Len(stack) - 1]
         /\ Last(Below) \in FrameSet /\ FrameFits(Last(Below)) /\ Last(Below).calls # <<>>
         /\ Head(Last(Below).calls).op = "create" /\ Head(Last(Below).calls).decl = Top.decl
<1>1. stack \in Seq(FrameSet) /\ stack # <<>>
  BY DEF StackTyped
<1>2. /\ Len(stack) \in Nat \ {0} /\ DOMAIN stack = 1 .. Len(stack)
      /\ Last(stack) = stack[Len(stack)]
      /\ Front(stack) \in Seq(FrameSet) /\ Len(Front(stack)) = Len(stack) - 1
      /\ \A i \in 1 .. Len(stack) - 1 : Front(stack)[i] = stack[i]
  BY <1>1, TopFacts
<1>3. PICK below : below = Front(stack)
  OBVIOUS
<1>4. below \in Seq(FrameSet) /\ Len(below) = Len(stack) - 1 /\ below # <<>>
  <2>1. below \in Seq(FrameSet) /\ Len(below) = Len(stack) - 1
    BY <1>2, <1>3
  <2>2. Len(below) # 0
    BY <1>2, <2>1
  <2>3. below # <<>>
    BY <2>2, EmptySeq
  <2>4. QED
    BY <2>1, <2>3
<1>5. Last(below) = below[Len(below)]
  BY DEF Last
<1>6. PICK k \in Nat : k = Len(stack) - 1
  <2>1. Len(stack) - 1 \in Nat
    BY <1>2
  <2>2. QED
    BY <2>1
<1>7. k \in DOMAIN stack /\ k + 1 \in DOMAIN stack /\ k + 1 = Len(stack) /\ k \in 1 .. Len(stack) - 1
  BY <1>2, <1>6
<1>8. Last(below) = stack[k]
  BY <1>2, <1>3, <1>4, <1>5, <1>6, <1>7
<1>9. stack[k] \in FrameSet /\ FrameFits(stack[k])
  <2>1. k \in 1 .. Len(stack)
    BY <1>2, <1>7
  <2>2. stack[k] \in FrameSet
    BY <1>1, <2>1, ElementOfSeq
  <2>3. QED
    BY <1>7, <2>2 DEF StackInv
<1>10. /\ stack[k].calls # <<>> /\ Head(stack[k].calls).op = "create"
       /\ Head(stack[k].calls).decl = stack[k + 1].decl
  BY <1>7 DEF StackInv, CallsChain
<1>11. below = Below /\ Top = stack[k + 1]
  BY <1>2, <1>3, <1>7 DEF Below, Top
<1>12. Last(Below) = stack[k] /\ Below \in Seq(FrameSet) /\ Below # <<>> /\ Len(Below) = Len(stack) - 1
  BY <1>4, <1>8, <1>11
<1>13. \A i \in 1 .. Len(stack) - 1 : Below[i] = stack[i]
  BY <1>2, <1>3, <1>11
<1>14. QED
  BY <1>2, <1>6, <1>7, <1>9, <1>10, <1>11, <1>12, <1>13

(***************************************************************************)
(* A call returns the name of the registered type to its caller.           *)
(***************************************************************************)
LEMMA ReturnKeeps ==
  ASSUME RegistryInv, Return
  PROVE  RegistryInv'
<1>1. PICK caller, call, top : caller = Last(Below) /\ call = Head(caller.calls) /\ top = Top
  OBVIOUS
<1>2. /\ phase \in {"register", "extra"} /\ Len(stack) > 1 /\ top.calls = <<>>
      /\ program' = program /\ todo' = todo /\ types' = types /\ directives' = directives
      /\ keys' = keys /\ client' = client
  BY <1>1 DEF Return
<1>3. Building /\ CallsTyped /\ RestTyped /\ Compiles(program) /\ client = NoClient
  BY <1>2, Unbuilt
<1>4. CallsTyped'
  <2>1. stack # <<>>
    BY <1>2, <1>3 DEF Building, StackTyped
  <2>2. todo # <<>>
    BY <1>3, <2>1 DEF CallsTyped
  <2>3. QED
    BY <1>2, <1>3, <2>2, RestStays
<1>5. CASE phase' = "panicked" /\ stack' = stack /\ implements' = implements
  <2>1. Building'
    BY <1>2, <1>3, <1>5, PanicKeeps
  <2>2. RestTyped'
    BY <1>2, <1>3, <1>5, RestStays
  <2>3. QED
    BY <1>2, <1>3, <1>4, <1>5, <2>1, <2>2, StillUnbuilt
<1>6. CASE /\ stack' = Replaced(Below, ReturnedTo(caller, RefsReturned(call, top.name)))
           /\ implements' \in {implements,
                               implements \cup {<<Decl(call.decl).name, Decl(caller.decl).name>>}}
           /\ phase' = phase
  <2>1. /\ Len(stack) \in Nat /\ DOMAIN stack = 1 .. Len(stack)
        /\ Len(stack) \in DOMAIN stack /\ Len(stack) - 1 \in DOMAIN stack
        /\ Below \in Seq(FrameSet) /\ Below # <<>> /\ Len(Below) = Len(stack) - 1
        /\ \A i \in 1 .. Len(stack) - 1 : Below[i] = stack[i]
        /\ top = stack[Len(stack)] /\ caller = stack[Len(stack) - 1]
        /\ caller \in FrameSet /\ FrameFits(caller) /\ caller.calls # <<>>
        /\ call.op = "create" /\ call.decl = top.decl
    BY <1>1, <1>2, <1>3, CallerFacts DEF Building
  <2>2. PICK k \in 1 .. Len(stack) : k = Len(stack) - 1
    BY <2>1
  <2>3. PICK d \in Decls : d = caller.decl
    BY <2>1 DEF FrameSet
  <2>4. caller.calls \in Seq(FitCalls(d))
    BY <2>1, <2>3 DEF FrameFits
  <2>5. call \in FitCalls(d)
    BY <1>1, <2>1, <2>4, HeadTailProperties
  <2>6. /\ top \in FrameSet /\ FrameFits(top) /\ top.name \in DOMAIN types
        /\ program.ignore_name_conflicts = {} => StandsFor(top.name, top.decl)
    BY <1>3, <2>1 DEF Building, StackTyped, StackInv, MeaningInv
  <2>7. PICK more : more = RefsReturned(call, top.name)
    OBVIOUS
  <2>8. /\ more \in Seq(FitRefs(Kind(d))) /\ TargetsExist(more)
        /\ program.ignore_name_conflicts = {} => RefsMean(more)
    BY <1>3, <2>1, <2>5, <2>6, <2>7, ReturnedRefs
  <2>9. PICK fr : fr = ReturnedTo(caller, more)
    OBVIOUS
  <2>10. Head(caller.calls).op # "close" /\ more \in Seq(FitRefs(Kind(caller.decl)))
    BY <1>1, <2>1, <2>3, <2>8
  <2>11. /\ fr \in FrameSet /\ fr.decl = caller.decl /\ fr.name = caller.name
         /\ FrameFits(fr) /\ (Pending(fr) <=> Pending(caller))
         /\ TargetsExist(caller.refs) /\ TargetsExist(more) => TargetsExist(fr.refs)
         /\ RefsMean(caller.refs) /\ RefsMean(more) => RefsMean(fr.refs)
    BY <2>1, <2>9, <2>10, CallerFits
  <2>12. /\ KeepsTypes({}) /\ (TypesTyped' <=> TypesTyped)
         /\ \A refs : TargetsExist(refs)' <=> TargetsExist(refs)
         /\ \A n, e : StandsFor(n, e)' <=> StandsFor(n, e)
         /\ \A refs : RefsMean(refs)' <=> RefsMean(refs)
         /\ \A n \in DOMAIN types : (types[n].refs \in Seq(FitRefs(types[n].kind)))'
                                      <=> types[n].refs \in Seq(FitRefs(types[n].kind))
    BY <1>2, SameTypes
  <2>13. FrameFits(fr)' /\ fr.name \in DOMAIN types'
    <3>1. caller.name \in DOMAIN types
      BY <1>3, <2>1 DEF Building, StackTyped
    <3>2. fr.name \in DOMAIN types \ {}
      BY <2>11, <3>1
    <3>3. QED
      BY <1>2, <2>11, <2>12, <3>2, FrameStays
  <2>14. ReplacedFacts(FrameSet, Below, fr, stack')
    BY <1>6, <2>1, <2>7, <2>9, <2>11, ReplaceTop
  <2>15. /\ stack' \in Seq(FrameSet) /\ Len(stack') = k /\ DOMAIN stack' = 1 .. k
         /\ \A i \in 1 .. k - 1 : stack'[i] = stack[i]
         /\ stack'[k] = fr
    BY <2>1, <2>2, <2>14 DEF ReplacedFacts
  <2>16. StackTyped' /\ StackInv'
    <3>1. StackTyped /\ StackInv /\ fr.decl = stack[k].decl
      BY <1>3, <2>1, <2>2, <2>11 DEF Building
    <3>2. QED
      BY <1>2, <2>11, <2>12, <2>13, <2>15, <3>1, ShorterStack
  <2>17. ASSUME NEW i \in DOMAIN stack'
         PROVE  TargetsExist(stack[i].refs)'
    <3>1. PICK f : f = stack'[i]
      OBVIOUS
    <3>2. TargetsExist(f.refs)
      <4>1. CASE i = k
        BY <1>3, <2>1, <2>2, <2>8, <2>11, <2>15, <3>1, <4>1 DEF Building, TypesInv
      <4>2. CASE i # k
        <5>1. f = stack[i] /\ i \in DOMAIN stack
          BY <2>1, <2>2, <2>15, <3>1, <4>2
        <5>2. QED
          BY <1>3, <5>1 DEF Building, TypesInv
      <4>3. QED
        BY <4>1, <4>2
    <3>3. QED
      BY <2>12, <3>1, <3>2
  <2>18. TypesInv'
    <3>1. ASSUME NEW m \in DOMAIN types
          PROVE  (types[m].name = m \/ \E i \in DOMAIN stack : stack[i].name = m /\ Pending(stack[i]))'
      <4>1. types[m].name = m \/ \E i \in DOMAIN stack : stack[i].name = m /\ Pending(stack[i])
        BY <1>3 DEF Building, TypesInv
      <4>2. ASSUME NEW i \in DOMAIN stack, stack[i].name = m, Pending(stack[i])
            PROVE  i \in DOMAIN stack' /\ stack'[i].name = m /\ Pending(stack[i])'
        <5>1. i # Len(stack)
          <6>1. ~Pending(top)
            BY <1>2 DEF Pending
          <6>2. QED
            BY <2>1, <4>2, <6>1
        <5>2. i \in 1 .. k
          BY <2>1, <2>2, <5>1
        <5>3. PICK f : f = stack'[i]
          OBVIOUS
        <5>4. f.name = m /\ Pending(f)
          <6>1. CASE i = k
            BY <2>1, <2>2, <2>11, <2>15, <4>2, <5>3, <6>1
          <6>2. CASE i # k
            <7>1. f = stack[i]
              BY <2>15, <5>2, <5>3, <6>2
            <7>2. QED
              BY <4>2, <7>1
          <6>3. QED
            BY <6>1, <6>2
        <5>5. Pending(f)'
          BY <5>4 DEF Pending
        <5>6. QED
          BY <2>15, <5>2, <5>3, <5>4, <5>5
      <4>3. QED
        BY <1>2, <4>1, <4>2
    <3>2. ScalarNames' = ScalarNames
      BY <1>2, SameProgram
    <3>3. ASSUME NEW m \in DOMAIN types
          PROVE  (types[m].refs \in Seq(FitRefs(types[m].kind)))' /\ TargetsExist(types[m].refs)'
                 /\ (types[m].kind = "Scalar" => m \in ScalarNames)'
      BY <1>2, <1>3, <2>12, <3>2 DEF Building, TypesInv
    <3>4. TargetsExist(directives)'
      BY <1>2, <1>3, <2>12 DEF Building, TypesInv
    <3>5. IsFiniteSet(DOMAIN types') /\ Entity \notin DOMAIN types' /\ Service \notin DOMAIN types'
      BY <1>2, <1>3 DEF Building, TypesInv
    <3>6. QED
      BY <1>2, <2>17, <3>1, <3>3, <3>4, <3>5 DEF TypesInv
  <2>19. MeaningInv'
    <3> SUFFICES ASSUME program.ignore_name_conflicts = {}
                 PROVE  /\ \A m \in DOMAIN types' : RefsMean(types[m].refs)'
                        /\ \A i \in DOMAIN stack' :
                              RefsMean(stack[i].refs)' /\ StandsFor(stack[i].name, stack[i].decl)'
      BY <1>2 DEF MeaningInv
    <3>1. ASSUME NEW m \in DOMAIN types' PROVE RefsMean(types[m].refs)'
      BY <1>2, <1>3, <2>12 DEF Building, MeaningInv
    <3>2. ASSUME NEW i \in DOMAIN stack'
          PROVE  RefsMean(stack[i].refs)' /\ StandsFor(stack[i].name, stack[i].decl)'
      <4>1. PICK f : f = stack'[i]
        OBVIOUS
      <4>2. RefsMean(f.refs) /\ StandsFor(f.name, f.decl)
        <5>1. CASE i = k
          BY <1>3, <2>1, <2>2, <2>8, <2>11, <2>15, <4>1, <5>1 DEF Building, MeaningInv
        <5>2. CASE i # k
          <6>1. f = stack[i] /\ i \in DOMAIN stack
            BY <2>1, <2>2, <2>15, <4>1, <5>2
          <6>2. QED
            BY <1>3, <6>1 DEF Building, MeaningInv
        <5>3. QED
          BY <5>1, <5>2
      <4>3. QED
        BY <2>12, <4>1, <4>2
    <3>3. QED
      BY <3>1, <3>2
  <2>20. Building'
    BY <1>3, <2>12, <2>16, <2>18, <2>19 DEF Building
  <2>21. RestTyped'
    <3>1. Decl(call.decl).name \in AllNames /\ Decl(caller.decl).name \in AllNames
      <4>1. call.decl \in Decls
        BY <2>1, <2>6 DEF FrameSet
      <4>2. QED
        BY <1>3, <2>3, <4>1, DeclFacts
    <3>2. implements' \subseteq AllNames \X AllNames
      BY <1>3, <1>6, <3>1 DEF RestTyped
    <3>3. RefSet' = RefSet
      BY <1>2, SameProgram
    <3>4. QED
      BY <1>2, <1>3, <3>2, <3>3 DEF RestTyped
  <2>22. QED
    BY <1>2, <1>3, <1>4, <1>6, <2>20, <2>21, StillUnbuilt
<1>7. QED
  BY <1>1, <1>5, <1>6 DEF Return, Replaced, ReturnedTo, add_implements

(***************************************************************************)
(* The outermost call returns: no type is under construction any more.     *)
(***************************************************************************)
LEMMA NoFrames ==
  ASSUME program' = program, stack' = <<>>
  PROVE  /\ StackTyped' /\ StackInv'
         /\ \A i \in DOMAIN stack' : FALSE
<1>1. <<>> \in Seq(FrameSet')
  OBVIOUS
<1>2. \A i \in DOMAIN stack' : FALSE
  OBVIOUS
<1>3. StackTyped'
  BY <1>1, <1>2 DEF StackTyped
<1>4. StackInv'
  BY <1>2 DEF StackInv, CallsChain, InputsAbove
<1>5. QED
  BY <1>2, <1>3, <1>4

LEMMA EndRootKeeps ==
  ASSUME RegistryInv, EndRoot
  PROVE  RegistryInv'
<1>1. PICK root, top : root = Head(todo) /\ top = Top
  OBVIOUS
<1>2. PICK r : r = [role |-> "arg", path |-> <<"in">>, decl |-> root.decl, marks |-> {}, to |-> top.name]
  OBVIOUS
<1>3. /\ phase \in {"register", "extra"} /\ Len(stack) = 1 /\ top.calls = <<>>
      /\ stack' = <<>> /\ todo' = Tail(todo)
      /\ directives' = directives \/ directives' = Append(directives, r)
      /\ program' = program /\ types' = types /\ implements' = implements
      /\ keys' = keys /\ phase' = phase /\ client' = client
  BY <1>1, <1>2 DEF EndRoot
<1>4. Building /\ CallsTyped /\ RestTyped /\ Compiles(program) /\ client = NoClient
  BY <1>3, Unbuilt
<1>5. stack \in Seq(FrameSet) /\ stack # <<>>
  <2>1. stack \in Seq(FrameSet)
    BY <1>4 DEF Building, StackTyped
  <2>2. QED
    BY <1>3, <2>1, EmptySeq
<1>6. top = stack[1] /\ DOMAIN stack = {1} /\ top \in FrameSet /\ top.name \in DOMAIN types
  <2>1. DOMAIN stack = 1 .. Len(stack) /\ Last(stack) = stack[Len(stack)] /\ Last(stack) \in FrameSet
    BY <1>5, TopFacts
  <2>2. DOMAIN stack = {1} /\ top = stack[1] /\ top \in FrameSet
    BY <1>1, <1>3, <2>1 DEF Top
  <2>3. QED
    BY <1>4, <2>2 DEF Building, StackTyped
<1>7. CallsTyped' /\ root.decl \in Decls
  <2> DEFINE S == [decl : Decls, as : {"root", "register", "directive"}]
  <2>1. todo \in Seq(S) /\ todo # <<>>
    BY <1>4, <1>5 DEF CallsTyped
  <2>2. Head(todo) \in S /\ Tail(todo) \in Seq(S)
    <3> HIDE DEF S
    <3> QED BY <2>1, HeadTailProperties
  <2>3. Decls' = Decls
    BY <1>3, SameProgram
  <2>4. QED
    BY <1>1, <1>3, <2>2, <2>3 DEF CallsTyped
<1>8. StackTyped' /\ StackInv' /\ \A i \in DOMAIN stack' : FALSE
  BY <1>3, NoFrames
<1>9. /\ KeepsTypes({}) /\ (TypesTyped' <=> TypesTyped)
      /\ \A refs : TargetsExist(refs)' <=> TargetsExist(refs)
      /\ \A n, d : StandsFor(n, d)' <=> StandsFor(n, d)
      /\ \A refs : RefsMean(refs)' <=> RefsMean(refs)
      /\ \A n \in DOMAIN types : (types[n].refs \in Seq(FitRefs(types[n].kind)))'
                                   <=> types[n].refs \in Seq(FitRefs(types[n].kind))
  BY <1>3, SameTypes
<1>10. ASSUME NEW n \in DOMAIN types PROVE types[n].name = n
  <2>1. ~Pending(top)
    BY <1>3 DEF Pending
  <2>2. QED
    BY <1>4, <1>6, <2>1 DEF Building, TypesInv
<1>11. directives' \in Seq(RefSet) /\ TargetsExist(directives)'
  <2>1. directives \in Seq(RefSet) /\ TargetsExist(directives)
    BY <1>4 DEF RestTyped, Building, TypesInv
  <2>2. PICK ds : ds = directives'
    OBVIOUS
  <2>3. CASE ds = directives
    BY <1>9, <2>1, <2>2, <2>3
  <2>4. CASE ds = Append(directives, r)
    <3>1. r \in RefSet
      <4>1. <<"in">> \in Seq(Labels)
        BY DEF Labels
      <4>2. top.name \in AllNames
        BY <1>6 DEF FrameSet
      <4>3. QED
        BY <1>2, <1>7, <4>1, <4>2 DEF RefSet
    <3>2. /\ ds \in Seq(RefSet) /\ Len(ds) = Len(directives) + 1
          /\ \A i \in 1 .. Len(directives) : ds[i] = directives[i]
          /\ ds[Len(directives) + 1] = r
      BY <2>1, <2>4, <3>1, AppendProperties
    <3>3. /\ DOMAIN ds = 1 .. Len(directives) + 1 /\ DOMAIN directives = 1 .. Len(directives)
          /\ Len(directives) \in Nat
      BY <2>1, <3>2, LenProperties
    <3>4. r.to \in DOMAIN types
      BY <1>2, <1>6
    <3>5. ASSUME NEW i \in DOMAIN ds PROVE ds[i].to \in DOMAIN types
      <4>1. CASE i \in 1 .. Len(directives)
        BY <2>1, <3>2, <3>3, <4>1 DEF TargetsExist
      <4>2. CASE i = Len(directives) + 1
        BY <3>2, <3>4, <4>2
      <4>3. QED
        BY <3>3, <4>1, <4>2
    <3>6. TargetsExist(ds)
      BY <3>5 DEF TargetsExist
    <3>7. QED
      BY <1>9, <2>2, <3>2, <3>6
  <2>5. QED
    BY <1>3, <2>2, <2>3, <2>4
<1>12. TypesInv'
  <2>1. ScalarNames' = ScalarNames
    BY <1>3, SameProgram
  <2>2. ASSUME NEW m \in DOMAIN types
        PROVE  (types[m].refs \in Seq(FitRefs(types[m].kind)))' /\ TargetsExist(types[m].refs)'
               /\ (types[m].kind = "Scalar" => m \in ScalarNames)'
    BY <1>3, <1>4, <1>9, <2>1 DEF Building, TypesInv
  <2>3. IsFiniteSet(DOMAIN types') /\ Entity \notin DOMAIN types' /\ Service \notin DOMAIN types'
    BY <1>3, <1>4 DEF Building, TypesInv
  <2>4. QED
    BY <1>3, <1>8, <1>10, <1>11, <2>2, <2>3 DEF TypesInv
<1>13. MeaningInv'
  BY <1>3, <1>4, <1>8, <1>9 DEF Building, MeaningInv
<1>14. Building'
  BY <1>4, <1>8, <1>9, <1>12, <1>13 DEF Building
<1>15. RestTyped'
  <2>1. RefSet' = RefSet
    BY <1>3, SameProgram
  <2>2. QED
    BY <1>3, <1>4, <1>11, <2>1 DEF RestTyped
<1>16. QED
  BY <1>3, <1>4, <1>7, <1>14, <1>15, StillUnbuilt


(***************************************************************************)
(* The removal of unused types leaves a closed part of the map: what it    *)
(* keeps refers to nothing it removes.                                     *)
(***************************************************************************)
LEMMA RemoveKeeps ==
  ASSUME RegistryInv, remove_unused_types
  PROVE  RegistryInv'
<1> DEFINE D == DOMAIN types
           next == [n \in D |-> Targets(n) \cap D]
           start == (DirectiveTargets \cup Roots \cup KeyedTypes) \cap D
<1>1. PICK used : used = Reach(next, start)
  OBVIOUS
<1>2. /\ phase = "register" /\ stack = <<>> /\ phase' = "extra" /\ stack' = stack
      /\ types' = [n \in used |-> types[n]] /\ todo' = program.extra
      /\ program' = program /\ implements' = implements
      /\ directives' = directives /\ keys' = keys /\ client' = client
  BY <1>1 DEF remove_unused_types
<1>3. Building /\ CallsTyped /\ RestTyped /\ Compiles(program) /\ client = NoClient
  BY <1>2, Unbuilt
<1>4. used \in SUBSET D /\ start \subseteq used /\ Closed(next, used)
  <2>1. IsFiniteSet(D) /\ next \in [D -> SUBSET D] /\ start \in SUBSET D
    BY <1>3 DEF Building, TypesInv
  <2> HIDE DEF D, next, start
  <2>2. QED
    BY <1>1, <2>1, ReachClosed
<1>5. /\ DOMAIN types' = used
      /\ \A n \in used : types'[n] = types[n] /\ n \in DOMAIN types
  BY <1>2, <1>4
<1>6. ASSUME NEW n \in used, NEW i \in DOMAIN types[n].refs PROVE types[n].refs[i].to \in used
  <2>1. types[n].refs[i].to \in D
    BY <1>3, <1>5 DEF Building, TypesInv, TargetsExist
  <2>2. types[n].refs[i].to \in next[n]
    BY <1>5, <2>1 DEF Targets, RefsOf, Range
  <2>3. QED
    <3> HIDE DEF next
    <3> QED BY <1>4, <2>2 DEF Closed
<1>7. StackTyped' /\ StackInv' /\ \A i \in DOMAIN stack' : FALSE
  BY <1>2, NoFrames
<1>8. TypesTyped'
  <2>1. TypeSet' = TypeSet
    BY <1>2, SameProgram
  <2>2. \A n \in used : types[n] \in TypeSet /\ n \in AllNames
    BY <1>3, <1>5 DEF Building, TypesTyped
  <2>3. QED
    BY <1>2, <1>5, <2>1, <2>2 DEF TypesTyped
<1>9. TypesInv'
  <2>1. IsFiniteSet(used)
    BY <1>3, <1>4, FS_Subset DEF Building, TypesInv
  <2>2. ASSUME NEW n \in used
        PROVE  /\ (types[n].refs \in Seq(FitRefs(types[n].kind)))' /\ TargetsExist(types[n].refs)'
               /\ (types[n].name = n)' /\ (types[n].kind = "Scalar" => n \in ScalarNames)'
    <3>1. PICK t : t = types[n]
      OBVIOUS
    <3>2. /\ t.refs \in Seq(FitRefs(t.kind)) /\ t.name = n
          /\ t.kind = "Scalar" => n \in ScalarNames
      <4>1. DOMAIN stack = {}
        BY <1>2
      <4>2. QED
        BY <1>3, <1>5, <3>1, <4>1 DEF Building, TypesInv
    <3>3. FitRefs(t.kind)' = FitRefs(t.kind) /\ ScalarNames' = ScalarNames
      BY <1>2, SameProgram
    <3>4. TargetsExist(t.refs)'
      BY <1>5, <1>6, <3>1 DEF TargetsExist
    <3>5. types'[n] = t
      BY <1>5, <3>1
    <3>6. QED
      BY <3>2, <3>3, <3>4, <3>5
  <2>3. Entity \notin used /\ Service \notin used
    BY <1>3, <1>4 DEF Building, TypesInv
  <2>4. TargetsExist(directives)'
    <3>1. \A i \in DOMAIN directives : directives[i].to \in D
      BY <1>3 DEF Building, TypesInv, TargetsExist
    <3>2. \A i \in DOMAIN directives : directives[i].to \in start
      BY <3>1 DEF DirectiveTargets
    <3>3. QED
      <4> HIDE DEF start
      <4> QED BY <1>2, <1>4, <1>5, <3>2 DEF TargetsExist
  <2>5. QED
    BY <1>5, <1>7, <2>1, <2>2, <2>3, <2>4 DEF TypesInv
<1>10. MeaningInv'
  <2> SUFFICES ASSUME program.ignore_name_conflicts = {}
               PROVE  \A n \in DOMAIN types' : RefsMean(types[n].refs)'
    BY <1>2, <1>7 DEF MeaningInv
  <2> TAKE n \in DOMAIN types'
  <2>1. PICK refs : refs = types[n].refs
    OBVIOUS
  <2>2. n \in used /\ types'[n].refs = refs
    BY <1>5, <2>1
  <2>3. RefsMean(refs)
    BY <1>3, <1>5, <2>1, <2>2 DEF Building, MeaningInv
  <2>4. ASSUME NEW i \in DOMAIN refs, refs[i].role # "arg"
        PROVE  StandsFor(refs[i].to, refs[i].decl)'
    <3>1. StandsFor(refs[i].to, refs[i].decl)
      BY <2>3, <2>4 DEF RefsMean
    <3>2. types'[refs[i].to] = types[refs[i].to]
      BY <1>5, <1>6, <2>1, <2>2
    <3>3. \A d : Decl(d)' = Decl(d) /\ Kind(d)' = Kind(d)
      BY <1>2, SameProgram
    <3>4. QED
      BY <3>1, <3>2, <3>3 DEF StandsFor, MadeFrom
  <2>5. RefsMean(refs)'
    BY <2>4 DEF RefsMean
  <2>6. QED
    BY <2>2, <2>5
<1>11. Building'
  BY <1>7, <1>8, <1>9, <1>10 DEF Building
<1>12. CallsTyped'
  <2> DEFINE S == [decl : Decls, as : {"root", "register", "directive"}]
             X == [decl : Decls, as : {"register"}]
                    \cup [decl : DeclsOf(program, InputKinds), as : {"directive"}]
  <2>1. program.extra \in Seq(X)
    BY <1>3 DEF Compiles, Decls
  <2>2. X \subseteq S
    BY DEF DeclsOf, Decls
  <2>3. program.extra \in Seq(S)
    <3> HIDE DEF X, S
    <3> QED BY <2>1, <2>2
  <2>4. Decls' = Decls
    BY <1>2, SameProgram
  <2>5. QED
    BY <1>2, <2>3, <2>4 DEF CallsTyped
<1>13. RestTyped'
  BY <1>2, <1>3, RestStays
<1>14. QED
  BY <1>2, <1>3, <1>11, <1>12, <1>13, StillUnbuilt

(***************************************************************************)
(* A finite set as a sequence of its elements.                             *)
(***************************************************************************)
LEMMA SetSequence ==
  ASSUME NEW S, IsFiniteSet(S)
  PROVE  /\ SetToSeq(S) \in [1 .. Cardinality(S) -> S] /\ IsInjective(SetToSeq(S))
         /\ SetToSeq(S) \in Seq(S)
<1>1. Cardinality(S) \in Nat /\ ExistsBijection(1 .. Cardinality(S), S)
  BY FS_CardinalityType
<1>2. PICK f \in [1 .. Cardinality(S) -> S] : IsInjective(f)
  BY <1>1 DEF ExistsBijection, Bijection, Injection
<1>3. SetToSeq(S) \in [1 .. Cardinality(S) -> S] /\ IsInjective(SetToSeq(S))
  BY <1>2 DEF SetToSeq
<1>4. QED
  BY <1>1, <1>3

(***************************************************************************)
(* What the end of the build makes of the types: the references of a type  *)
(* are those of a type that was registered and those of the federation     *)
(* types, and both name a type of the result.                              *)
(***************************************************************************)
Origins == UNION {RefsOf(n) : n \in DOMAIN types}

GoodRefs(names) ==
  {r \in RefSet : r.to \in names /\ (r.decl = "federation" \/ r \in Origins)}

Finished(T) ==
  /\ DOMAIN types \subseteq DOMAIN T /\ DOMAIN T \subseteq AllNames /\ IsFiniteSet(DOMAIN T)
  /\ T = [n \in DOMAIN T |-> T[n]]
  /\ \A n \in DOMAIN T : T[n] \in TypeSet /\ T[n].name = n /\ T[n].refs \in Seq(GoodRefs(DOMAIN T))
  /\ \A n \in DOMAIN types : T[n].kind = types[n].kind /\ T[n].rust = types[n].rust

LEMMA OldRefs ==
  ASSUME Building, stack = <<>>, NEW names, DOMAIN types \subseteq names, NEW n \in DOMAIN types
  PROVE  types[n] \in TypeSet /\ types[n].name = n /\ types[n].refs \in Seq(GoodRefs(names))
<1>1. types[n] \in TypeSet
  BY DEF Building, TypesTyped
<1>2. types[n].name = n
  BY DEF Building, TypesInv
<1>3. PICK s : s = types[n].refs
  OBVIOUS
<1>4. s \in Seq(RefSet) /\ TargetsExist(s)
  BY <1>1, <1>3 DEF TypeSet, Building, TypesInv
<1>5. s = [i \in DOMAIN s |-> s[i]]
  BY <1>4
<1>6. ASSUME NEW i \in DOMAIN s PROVE s[i] \in GoodRefs(names)
  <2>1. s[i] \in RefSet /\ s[i].to \in names
    BY <1>4 DEF TargetsExist
  <2>2. s[i] \in Origins
    BY <1>3 DEF Origins, RefsOf, Range
  <2>3. QED
    BY <2>1, <2>2 DEF GoodRefs
<1>7. s \in Seq(GoodRefs(names))
  BY <1>4, <1>5, <1>6, SeqOfValues
<1>8. QED
  BY <1>1, <1>2, <1>3, <1>7

LEMMA EntityTypesExist ==
  ASSUME IsFiniteSet(DOMAIN types)
  PROVE  entity_possible_types \subseteq DOMAIN types
<1> DEFINE D == DOMAIN types
           next == [m \in D |->
                      IF types[m].kind = "Interface" THEN PossibleTypes(m) \cap D ELSE {}]
<1>1. ASSUME NEW n \in D PROVE collect_entity_interface_possible_types(n) \subseteq D
  <2>1. next \in [D -> SUBSET D] /\ {n} \in SUBSET D
    OBVIOUS
  <2>2. Reach(next, {n}) \in SUBSET D
    <3> HIDE DEF next
    <3> QED BY <2>1, ReachClosed
  <2>3. QED
    BY <2>2 DEF collect_entity_interface_possible_types
<1>2. KeyedTypes \subseteq D
  BY DEF KeyedTypes
<1>3. QED
  BY <1>1, <1>2 DEF entity_possible_types

LEMMA NewType ==
  ASSUME NEW kind \in Kinds, NEW rust \in Labels, NEW n \in AllNames, NEW refs \in Seq(RefSet)
  PROVE  [kind |-> kind, rust |-> rust, name |-> n, marks |-> {}, refs |-> refs] \in TypeSet
BY DEF TypeSet

LEMMA FederationFinished ==
  ASSUME Building, stack = <<>>, Compiles(program)
  PROVE  Finished(create_federation_types)
<1>1. PICK possible : possible = SetToSeq(entity_possible_types)
  OBVIOUS
<1> DEFINE query == Roots \cap {Decl(program.roots[1]).name}
           ServiceType == [kind |-> "Object", rust |-> "Service", name |-> Service, marks |-> {},
                           refs |-> <<>>]
           possibleRefs == [i \in DOMAIN possible |->
                              [role |-> "possible", path |-> <<>>, decl |-> "federation",
                               marks |-> {}, to |-> possible[i]]]
           EntityType == [kind |-> "Union", rust |-> "Entity", name |-> Entity, marks |-> {},
                          refs |-> possibleRefs]
           service == Insert(types, Service, ServiceType)
           entity == IF possible = <<>> THEN service ELSE Insert(service, Entity, EntityType)
           ofEntity == IF possible = <<>> THEN <<>> ELSE <<FederationRef("_entities", Entity)>>
           added == <<FederationRef("_service", Service)>> \o ofEntity
           T == [n \in DOMAIN entity |->
                   IF n \in query THEN [entity[n] EXCEPT !.refs = @ \o added] ELSE entity[n]]
<1>2. create_federation_types = T
  BY <1>1 DEF create_federation_types
<1>3. IsFiniteSet(DOMAIN types) /\ Entity \notin DOMAIN types /\ Service \notin DOMAIN types
  BY DEF Building, TypesInv
<1>4. possible \in Seq(DOMAIN types)
  <2>1. entity_possible_types \subseteq DOMAIN types
    BY <1>3, EntityTypesExist
  <2>2. IsFiniteSet(entity_possible_types)
    BY <1>3, <2>1, FS_Subset
  <2>3. SetToSeq(entity_possible_types) \in Seq(entity_possible_types)
    BY <2>2, SetSequence
  <2>4. QED
    BY <1>1, <2>1, <2>3
<1>5. /\ DOMAIN service = DOMAIN types \cup {Service} /\ service[Service] = ServiceType
      /\ \A n \in DOMAIN types : service[n] = types[n]
  BY <1>3 DEF Insert
<1>6. PICK names : names = DOMAIN entity
  OBVIOUS
<1>7. /\ names \in {DOMAIN types \cup {Service}, DOMAIN types \cup {Service, Entity}}
      /\ possible # <<>> => Entity \in names
      /\ \A n \in names : \/ n \in DOMAIN types /\ entity[n] = types[n]
                          \/ n = Service /\ entity[n] = ServiceType
                          \/ n = Entity /\ entity[n] = EntityType
  <2> HIDE DEF ServiceType, EntityType, service
  <2>1. CASE possible = <<>>
    BY <1>5, <1>6, <2>1
  <2>2. CASE possible # <<>>
    <3>1. entity = Insert(service, Entity, EntityType)
      BY <2>2
    <3>2. /\ DOMAIN entity = DOMAIN types \cup {Service, Entity}
          /\ \A n \in DOMAIN entity : entity[n] = IF n = Entity THEN EntityType ELSE service[n]
      BY <1>5, <3>1 DEF Insert
    <3> HIDE DEF entity
    <3>3. QED
      BY <1>3, <1>5, <1>6, <2>2, <3>2
  <2>3. QED
    BY <2>1, <2>2
<1>8. names \subseteq AllNames /\ IsFiniteSet(names) /\ DOMAIN types \subseteq names /\ Service \in names
  <2>1. DOMAIN types \subseteq AllNames
    BY DEF Building, TypesTyped
  <2>2. Entity \in AllNames /\ Service \in AllNames
    BY BasesAssumption DEF AllNames, Entity, Service
  <2>3. IsFiniteSet({Service}) /\ IsFiniteSet({Service, Entity})
    <3>1. IsFiniteSet({} \cup {Service}) /\ IsFiniteSet(({} \cup {Service}) \cup {Entity})
      BY FS_EmptySet, FS_AddElement
    <3>2. ({} \cup {Service}) \cup {Entity} = {Service, Entity} /\ {} \cup {Service} = {Service}
      OBVIOUS
    <3>3. QED
      BY <3>1, <3>2
  <2>4. IsFiniteSet(DOMAIN types \cup {Service}) /\ IsFiniteSet(DOMAIN types \cup {Service, Entity})
    BY <1>3, <2>3, FS_Union
  <2>5. QED
    BY <1>7, <2>1, <2>2, <2>4
<1> DEFINE G == GoodRefs(names)
<1>9. ASSUME NEW field \in {"_service", "_entities"}, NEW to \in names
      PROVE  FederationRef(field, to) \in G
  <2>1. field \in Labels
    BY DEF Labels
  <2>2. <<field>> \in Seq(Labels) /\ {} \in SUBSET Labels
    BY <2>1
  <2>3. QED
    BY <1>8, <2>2 DEF FederationRef, GoodRefs, RefSet
<1>10. possibleRefs \in Seq(G)
  <2>1. ASSUME NEW i \in DOMAIN possible PROVE possibleRefs[i] \in G
    <3>1. possible[i] \in names
      BY <1>4, <1>8
    <3>2. <<>> \in Seq(Labels) /\ {} \in SUBSET Labels
      OBVIOUS
    <3>3. QED
      BY <1>8, <3>1, <3>2 DEF GoodRefs, RefSet
  <2>2. possibleRefs = [i \in DOMAIN possible |-> possibleRefs[i]]
    OBVIOUS
  <2> HIDE DEF possibleRefs, G
  <2>3. QED
    BY <1>4, <2>1, <2>2, SeqOfValues
<1>11. added \in Seq(G)
  <2>1. <<FederationRef("_service", Service)>> \in Seq(G)
    BY <1>8, <1>9
  <2>2. ofEntity \in Seq(G)
    <3>1. CASE possible = <<>>
      BY <3>1
    <3>2. CASE possible # <<>>
      BY <1>7, <1>9, <3>2
    <3>3. QED
      BY <3>1, <3>2
  <2> HIDE DEF ofEntity, G
  <2>3. QED
    BY <2>1, <2>2, ConcatProperties
<1>12. ASSUME NEW n \in names
       PROVE  entity[n] \in TypeSet /\ entity[n].name = n /\ entity[n].refs \in Seq(G)
  <2>1. G \subseteq RefSet
    BY DEF GoodRefs
  <2>2. n \in AllNames /\ {} \in SUBSET Labels /\ "Service" \in Labels /\ "Entity" \in Labels
    BY <1>8 DEF Labels
  <2>3. CASE n \in DOMAIN types /\ entity[n] = types[n]
    <3> HIDE DEF entity, G
    <3>1. types[n] \in TypeSet /\ types[n].name = n /\ types[n].refs \in Seq(GoodRefs(names))
      BY <1>8, <2>3, OldRefs
    <3>2. QED
      BY <2>3, <3>1 DEF G
  <2>4. CASE n = Service /\ entity[n] = ServiceType
    <3>1. <<>> \in Seq(G) /\ <<>> \in Seq(RefSet)
      OBVIOUS
    <3>2. ServiceType \in TypeSet
      <4>1. "Object" \in Kinds
        BY DEF Kinds
      <4>2. QED
        BY <2>2, <2>4, <3>1, <4>1, NewType
    <3> HIDE DEF entity, G
    <3>3. QED
      BY <2>4, <3>1, <3>2
  <2>5. CASE n = Entity /\ entity[n] = EntityType
    <3> HIDE DEF entity, possibleRefs, G
    <3>1. possibleRefs \in Seq(RefSet)
      BY <1>10, <2>1
    <3>2. EntityType \in TypeSet
      <4>1. "Union" \in Kinds
        BY DEF Kinds
      <4>2. QED
        BY <2>2, <2>5, <3>1, <4>1, NewType
    <3>3. QED
      BY <1>10, <2>5, <3>2
  <2>6. QED
    BY <1>7, <2>3, <2>4, <2>5
<1>13. ASSUME NEW n \in names
       PROVE  /\ T[n] \in TypeSet /\ T[n].name = n /\ T[n].refs \in Seq(G)
              /\ T[n].kind = entity[n].kind /\ T[n].rust = entity[n].rust
  <2>1. PICK t : t = entity[n]
    OBVIOUS
  <2>2. PICK as : as = added
    OBVIOUS
  <2>3. t \in TypeSet /\ t.name = n /\ t.refs \in Seq(G) /\ as \in Seq(G)
    BY <1>11, <1>12, <2>1, <2>2
  <2>4. T[n] = IF n \in query THEN [t EXCEPT !.refs = t.refs \o as] ELSE t
    BY <1>6, <2>1, <2>2
  <2> HIDE DEF T, entity, added, G, query
  <2>5. PICK refs : refs = t.refs \o as
    OBVIOUS
  <2>6. refs \in Seq(G)
    BY <2>3, <2>5, ConcatProperties
  <2>7. refs \in Seq(RefSet)
    BY <2>6 DEF G, GoodRefs
  <2>8. T[n] = [t EXCEPT !.refs = refs] \/ T[n] = t
    BY <2>4, <2>5
  <2>9. CASE T[n] = t
    BY <2>1, <2>3, <2>9
  <2>10. CASE T[n] = [t EXCEPT !.refs = refs]
    BY <2>1, <2>3, <2>6, <2>7, <2>10 DEF TypeSet
  <2>11. QED
    BY <2>8, <2>9, <2>10
<1>14. DOMAIN T = names
  BY <1>6
<1>15. ASSUME NEW n \in DOMAIN types PROVE T[n].kind = types[n].kind /\ T[n].rust = types[n].rust
  <2>1. n \in names /\ n # Service /\ n # Entity
    BY <1>3, <1>8
  <2>2. entity[n] = types[n]
    <3> HIDE DEF entity
    <3> QED BY <1>7, <2>1
  <2> HIDE DEF T, entity
  <2>3. QED
    BY <1>13, <2>1, <2>2
<1>16. T = [n \in DOMAIN T |-> T[n]]
  OBVIOUS
<1>17. Finished(T)
  <2> HIDE DEF T, entity
  <2>1. QED
    BY <1>8, <1>13, <1>14, <1>15, <1>16 DEF Finished
<1>18. QED
  <2> HIDE DEF T
  <2> QED BY <1>2, <1>17

(***************************************************************************)
(* The end of the build: what held of the references while types were      *)
(* registered holds of the schema.                                         *)
(***************************************************************************)
LEMMA FinishKeeps ==
  ASSUME RegistryInv, Finish
  PROVE  RegistryInv'
<1>1. PICK T : T = IF program.enable_federation \/ has_entities THEN create_federation_types ELSE types
  OBVIOUS
<1>2. /\ phase = "extra" /\ stack = <<>> /\ types' = T /\ phase' = "built"
      /\ program' = program /\ todo' = todo /\ stack' = stack /\ implements' = implements
      /\ directives' = directives /\ keys' = keys /\ client' = client
  BY <1>1 DEF Finish
<1>3. Building /\ CallsTyped /\ RestTyped /\ Compiles(program) /\ client = NoClient
  BY <1>2, Unbuilt
<1>4. Finished(T)
  <2>1. Finished(types)
    <3>1. types = [n \in DOMAIN types |-> types[n]] /\ DOMAIN types \subseteq AllNames
      BY <1>3 DEF Building, TypesTyped
    <3>2. IsFiniteSet(DOMAIN types)
      BY <1>3 DEF Building, TypesInv
    <3>3. ASSUME NEW n \in DOMAIN types
          PROVE  types[n] \in TypeSet /\ types[n].name = n /\ types[n].refs \in Seq(GoodRefs(DOMAIN types))
      BY <1>2, <1>3, OldRefs
    <3>4. QED
      BY <3>1, <3>2, <3>3 DEF Finished
  <2>2. Finished(create_federation_types)
    BY <1>2, <1>3, FederationFinished
  <2>3. T = types \/ T = create_federation_types
    BY <1>1
  <2>4. QED
    BY <2>1, <2>2, <2>3
<1>5. StackTyped' /\ StackInv' /\ \A i \in DOMAIN stack' : FALSE
  BY <1>2, NoFrames
<1>6. RegistryTypeOK'
  <2>1. TypesTyped'
    <3>1. TypeSet' = TypeSet
      BY <1>2, SameProgram
    <3>2. T \in [DOMAIN T -> TypeSet] /\ DOMAIN T \subseteq AllNames
      BY <1>4 DEF Finished
    <3>3. QED
      BY <1>2, <3>1, <3>2 DEF TypesTyped
  <2>2. CallsTyped'
    <3>1. Decls' = Decls
      BY <1>2, SameProgram
    <3>2. QED
      BY <1>2, <1>3, <3>1 DEF CallsTyped
  <2>3. RestTyped'
    BY <1>2, <1>3, RestStays
  <2>4. QED
    BY <1>2, <1>5, <2>1, <2>2, <2>3 DEF RegistryTypeOK, TypesTyped, StackTyped, CallsTyped, RestTyped
<1>7. PhaseInv'
  <2>1. Compiles(program)'
    BY <1>2, <1>3, SameProgram
  <2>2. QED
    BY <1>2, <2>1 DEF PhaseInv
<1>8. BuiltInv'
  <2>1. IsFiniteSet(DOMAIN types')
    BY <1>2, <1>4 DEF Finished
  <2>2. ASSUME NEW n \in DOMAIN types' PROVE (types[n].name = n)' /\ TargetsExist(types[n].refs)'
    <3>1. PICK refs : refs = types'[n].refs
      OBVIOUS
    <3>2. T[n].name = n /\ refs \in Seq(GoodRefs(DOMAIN T))
      BY <1>2, <1>4, <3>1 DEF Finished
    <3>3. \A i \in DOMAIN refs : refs[i].to \in DOMAIN T
      BY <3>2 DEF GoodRefs
    <3>4. TargetsExist(refs)'
      BY <1>2, <3>3 DEF TargetsExist
    <3>5. QED
      BY <1>2, <3>1, <3>2, <3>4
  <2>3. ASSUME program.ignore_name_conflicts = {}, NEW n \in DOMAIN types', NEW r \in RefsOf(n)',
               r.role # "arg", r.to \notin ScalarNames
        PROVE  Means(r)'
    <3>1. r \in GoodRefs(DOMAIN T)
      <4>1. PICK refs : refs = T[n].refs
        OBVIOUS
      <4>2. refs \in Seq(GoodRefs(DOMAIN T))
        BY <1>2, <1>4, <4>1 DEF Finished
      <4>3. r \in Range(refs)
        BY <1>2, <4>1 DEF RefsOf
      <4>4. QED
        BY <4>2, <4>3 DEF Range
    <3>2. CASE r.decl = "federation"
      BY <3>2 DEF Means
    <3>3. CASE r.decl # "federation"
      <4>1. PICK m \in DOMAIN types : \E i \in DOMAIN types[m].refs : r = types[m].refs[i]
        BY <3>1, <3>3 DEF GoodRefs, Origins, RefsOf, Range
      <4>2. StandsFor(r.to, r.decl) /\ r.to \in DOMAIN types
        BY <1>3, <2>3, <4>1 DEF Building, MeaningInv, RefsMean, TypesInv, TargetsExist
      <4>3. types[r.to].kind # "Scalar"
        BY <1>3, <2>3, <4>2 DEF Building, TypesInv
      <4>4. MadeFrom(r.to, r.decl)
        BY <4>2, <4>3 DEF StandsFor
      <4>5. T[r.to].kind = types[r.to].kind /\ T[r.to].rust = types[r.to].rust
        BY <1>4, <4>2 DEF Finished
      <4>6. Decl(r.decl)' = Decl(r.decl)
        BY <1>2, SameProgram
      <4>7. QED
        BY <1>2, <4>4, <4>5, <4>6 DEF Means, MadeFrom, Kind
    <3>4. QED
      BY <3>2, <3>3
  <2>4. NamesResolved'
    <3>1. ScalarNames' = ScalarNames
      BY <1>2, SameProgram
    <3>2. QED
      BY <1>2, <2>3, <3>1 DEF NamesResolved
  <2>5. ListedExactly'
    <3>1. client'.listed = {}
      BY <1>2, <1>3 DEF NoClient
    <3>2. QED
      BY <3>1 DEF ListedExactly
  <2>6. QED
    BY <2>1, <2>2, <2>4, <2>5 DEF BuiltInv
<1>9. QED
  BY <1>2, <1>6, <1>7, <1>8 DEF RegistryInv

(***************************************************************************)
(* What introspection lists: a set that holds every visible target of its  *)
(* members and no member without a reason.  The types reached from a start *)
(* are such a set but for the start itself, and each step of the pass over *)
(* the interfaces makes a larger one of it, in whatever order they come.   *)
(***************************************************************************)
VisiblyReached(S, start, hidden) ==
  /\ S \subseteq DOMAIN types \ hidden.types
  /\ \A n \in S : VisibleTargets(n, hidden) \subseteq S \cup hidden.types
  /\ \A n \in S \ start : \E m \in S \ {n} : n \in VisibleTargets(m, hidden)

Listable(S, hidden) ==
  /\ S \subseteq DOMAIN types \ hidden.types
  /\ \A n \in S : VisibleTargets(n, hidden) \subseteq S \cup hidden.types
  /\ \A n \in S :
       \/ n \in Roots \cup KeyedTypes \cup DirectiveTargets
       \/ \E m \in S \ {n} : n \in VisibleTargets(m, hidden)
       \/ types[n].kind = "Interface" /\ PossibleTypes(n) \cap S # {}

FiniteAndClosed ==
  IsFiniteSet(DOMAIN types) /\ \A n \in DOMAIN types : TargetsExist(types[n].refs)

LEMMA VisibleReachFacts ==
  ASSUME FiniteAndClosed, NEW hidden, NEW start
  PROVE  VisiblyReached(VisibleReach(start, hidden), start, hidden)
<1> DEFINE D == DOMAIN types
           next == [n \in D |-> (VisibleTargets(n, hidden) \cap D) \ hidden.types]
           start0 == (start \cap D) \ hidden.types
<1>1. PICK S : S = Reach(next, start0)
  OBVIOUS
<1>2. VisibleReach(start, hidden) = S
  BY <1>1 DEF VisibleReach
<1>3. /\ S \in SUBSET D /\ start0 \subseteq S /\ Closed(next, S)
      /\ \A n \in S \ start0 : \E m \in S \ {n} : n \in next[m]
  <2>1. IsFiniteSet(D) /\ next \in [D -> SUBSET D] /\ start0 \in SUBSET D
    BY DEF FiniteAndClosed
  <2> HIDE DEF D, next, start0
  <2>2. QED
    BY <1>1, <2>1, ReachClosed
<1>4. ASSUME NEW n \in D PROVE VisibleTargets(n, hidden) \subseteq D
  BY DEF FiniteAndClosed, VisibleTargets, RefsOf, Range, TargetsExist
<1>5. \A n \in S : VisibleTargets(n, hidden) \subseteq S \cup hidden.types
  BY <1>3, <1>4 DEF Closed
<1>6. \A n \in S : n \notin hidden.types
  BY <1>3
<1>7. \A n \in S \ start : \E m \in S \ {n} : n \in VisibleTargets(m, hidden)
  BY <1>3
<1>8. QED
  BY <1>2, <1>3, <1>5, <1>6, <1>7 DEF VisiblyReached

LEMMA ThroughKeepsListable ==
  ASSUME FiniteAndClosed, NEW hidden, NEW n \in Interfaces(hidden), NEW S, Listable(S, hidden)
  PROVE  Listable(VisibleThrough(S, n, hidden), hidden)
<1>1. CASE n \notin S /\ PossibleTypes(n) \cap S # {}
  <2>1. PICK W : W = VisibleReach({n}, hidden)
    OBVIOUS
  <2>2. VisiblyReached(W, {n}, hidden)
    BY <2>1, VisibleReachFacts
  <2>3. PICK U : U = S \cup W
    OBVIOUS
  <2>4. U \subseteq DOMAIN types \ hidden.types
    BY <2>2, <2>3 DEF VisiblyReached, Listable
  <2>5. \A m \in U : VisibleTargets(m, hidden) \subseteq U \cup hidden.types
    BY <2>2, <2>3 DEF VisiblyReached, Listable
  <2>6. ASSUME NEW m \in U
        PROVE  \/ m \in Roots \cup KeyedTypes \cup DirectiveTargets
               \/ \E k \in U \ {m} : m \in VisibleTargets(k, hidden)
               \/ types[m].kind = "Interface" /\ PossibleTypes(m) \cap U # {}
    <3>1. CASE m \in S
      BY <2>3, <3>1 DEF Listable
    <3>2. CASE m = n
      BY <1>1, <2>3, <3>2 DEF Interfaces
    <3>3. CASE m \in W /\ m # n
      BY <2>2, <2>3, <3>3 DEF VisiblyReached
    <3>4. QED
      BY <2>3, <3>1, <3>2, <3>3
  <2>7. Listable(U, hidden)
    BY <2>4, <2>5, <2>6 DEF Listable
  <2>8. QED
    BY <1>1, <2>1, <2>3, <2>7 DEF VisibleThrough
<1>2. CASE ~(n \notin S /\ PossibleTypes(n) \cap S # {})
  BY <1>2 DEF VisibleThrough
<1>3. QED
  BY <1>1, <1>2

(***************************************************************************)
(* The pass follows its recursion.                                         *)
(***************************************************************************)
PassedBy(g, hidden, order) ==
  /\ g[0] = VisibleReach(DirectiveTargets \cup Roots \cup KeyedTypes, hidden)
  /\ \A k \in 1 .. Len(order) : g[k] = VisibleThrough(g[k - 1], order[k], hidden)
  /\ find_visible_types(hidden, order) = g[Len(order)]

LEMMA PassFollows ==
  ASSUME FiniteAndClosed, NEW hidden, NEW order \in Seq(Interfaces(hidden))
  PROVE  \E g : PassedBy(g, hidden, order)
<1> DEFINE N == Len(order)
           X == SUBSET DOMAIN types
           first == VisibleReach(DirectiveTargets \cup Roots \cup KeyedTypes, hidden)
           Eq(g) == g = [i \in 0 .. N |->
                           IF i = 0 THEN first ELSE VisibleThrough(g[i - 1], order[i], hidden)]
           R == CHOOSE g : Eq(g)
           step == [k \in Nat |-> [r \in X |->
                      IF k \in 1 .. N THEN VisibleThrough(r, order[k], hidden) ELSE r]]
<1>1. N \in Nat
  OBVIOUS
<1>2. first \in X
  BY VisibleReachFacts DEF VisiblyReached
<1>3. ASSUME NEW r \in X, NEW k \in 1 .. N PROVE VisibleThrough(r, order[k], hidden) \in X
  <2>1. VisibleReach({order[k]}, hidden) \in X
    BY VisibleReachFacts DEF VisiblyReached
  <2>2. QED
    BY <2>1 DEF VisibleThrough
<1>4. step \in [Nat -> [X -> X]]
  <2> HIDE DEF X, N
  <2>1. \A k \in Nat : \A r \in X :
          (IF k \in 1 .. N THEN VisibleThrough(r, order[k], hidden) ELSE r) \in X
    BY <1>3
  <2>2. QED
    BY <2>1
<1>5. PICK g \in [0 .. N -> X] : Follows(g, first, step, N)
  <2> HIDE DEF N, step, X, first
  <2> QED BY <1>1, <1>2, <1>4, RecursionExists
<1>6. Eq(g)
  <2>1. \A i \in 0 .. N :
          g[i] = IF i = 0 THEN first ELSE VisibleThrough(g[i - 1], order[i], hidden)
    <3> TAKE i \in 0 .. N
    <3> HIDE DEF first
    <3>1. CASE i = 0
      BY <1>5, <3>1 DEF Follows
    <3>2. CASE i # 0
      <4> HIDE DEF X, N
      <4>1. i \in 1 .. N /\ i \in Nat /\ g[i - 1] \in X
        BY <1>1, <3>2
      <4>2. g[i] = step[i][g[i - 1]]
        BY <1>5, <4>1 DEF Follows
      <4>3. QED
        BY <3>2, <4>1, <4>2
    <3>3. QED
      BY <3>1, <3>2
  <2> HIDE DEF N, X, first
  <2>2. QED
    BY <2>1
<1>7. Eq(R)
  <2> HIDE DEF Eq
  <2> QED BY <1>6
<1>8. R[0] = first /\ \A k \in 1 .. N : R[k] = VisibleThrough(R[k - 1], order[k], hidden)
  <2> HIDE DEF R, N, first
  <2>1. R[0] = first
    BY <1>1, <1>7
  <2>2. ASSUME NEW k \in 1 .. N PROVE R[k] = VisibleThrough(R[k - 1], order[k], hidden)
    <3>1. k \in 0 .. N /\ k # 0
      BY <1>1
    <3>2. QED
      BY <1>7, <3>1
  <2>3. QED
    BY <2>1, <2>2
<1>9. find_visible_types(hidden, order) = R[N]
  BY DEF find_visible_types
<1>10. PassedBy(R, hidden, order)
  <2> HIDE DEF R
  <2> QED BY <1>8, <1>9 DEF PassedBy
<1>11. QED
  BY <1>10

LEMMA FoundListable ==
  ASSUME FiniteAndClosed, NEW hidden, NEW order \in Seq(Interfaces(hidden))
  PROVE  Listable(find_visible_types(hidden, order), hidden)
<1> DEFINE I == {S \in SUBSET DOMAIN types : Listable(S, hidden)}
           N == Len(order)
<1>1. PICK g : PassedBy(g, hidden, order)
  BY PassFollows
<1>2. g[0] \in I
  <2>1. PICK start : start = DirectiveTargets \cup Roots \cup KeyedTypes
    OBVIOUS
  <2>2. VisiblyReached(g[0], start, hidden)
    BY <1>1, <2>1, VisibleReachFacts DEF PassedBy
  <2>3. QED
    BY <2>1, <2>2 DEF VisiblyReached, Listable
<1>3. ASSUME NEW k \in 1 .. N, g[k - 1] \in I PROVE g[k] \in I
  <2>1. order[k] \in Interfaces(hidden)
    OBVIOUS
  <2>2. Listable(VisibleThrough(g[k - 1], order[k], hidden), hidden)
    BY <1>3, <2>1, ThroughKeepsListable
  <2>3. g[k] = VisibleThrough(g[k - 1], order[k], hidden)
    BY <1>1 DEF PassedBy
  <2>4. QED
    BY <2>2, <2>3 DEF Listable
<1>4. N \in Nat
  OBVIOUS
<1>5. \A k \in 0 .. N : g[k] \in I
  <2> HIDE DEF I, N
  <2> QED BY <1>2, <1>3, <1>4, RecursionInvariant
<1>6. g[N] \in I
  BY <1>4, <1>5
<1>7. QED
  BY <1>1, <1>6 DEF PassedBy

LEMMA IntrospectKeeps ==
  ASSUME RegistryInv, NEW hidden \in HiddenSets, Introspect(hidden)
  PROVE  RegistryInv'
<1>1. PICK order \in SetToSeqs(Interfaces(hidden)) :
        client' = [hidden |-> hidden, listed |-> find_visible_types(hidden, order),
                   shown |-> Shown(hidden, find_visible_types(hidden, order))]
  BY DEF Introspect
<1>2. /\ phase = "built" /\ program' = program /\ todo' = todo /\ stack' = stack /\ types' = types
      /\ implements' = implements /\ directives' = directives /\ keys' = keys /\ phase' = phase
  BY DEF Introspect
<1>3. RegistryTypeOK /\ PhaseInv /\ BuiltInv
  BY <1>2 DEF RegistryInv
<1>4. FiniteAndClosed
  BY <1>3 DEF BuiltInv, FiniteAndClosed
<1>5. order \in Seq(Interfaces(hidden))
  <2>1. IsFiniteSet(Interfaces(hidden))
    BY <1>4, FS_Subset DEF FiniteAndClosed, Interfaces
  <2>2. Cardinality(Interfaces(hidden)) \in Nat
    BY <2>1, FS_CardinalityType
  <2>3. order \in [1 .. Cardinality(Interfaces(hidden)) -> Interfaces(hidden)]
    BY DEF SetToSeqs
  <2>4. QED
    BY <2>2, <2>3
<1>6. PICK listed : listed = find_visible_types(hidden, order)
  OBVIOUS
<1>7. Listable(listed, hidden)
  BY <1>4, <1>5, <1>6, FoundListable
<1>8. client'.hidden = hidden /\ client'.listed = listed
  BY <1>1, <1>6
<1>9. \A d : Decl(d)' = Decl(d)
  BY <1>2, SameProgram
<1>10. /\ Roots' = Roots /\ KeyedTypes' = KeyedTypes /\ DirectiveTargets' = DirectiveTargets
       /\ \A n : VisibleTargets(n, hidden)' = VisibleTargets(n, hidden)
       /\ \A n : PossibleTypes(n)' = PossibleTypes(n)
       /\ \A n : RefsOf(n)' = RefsOf(n)
  BY <1>2, <1>9 DEF Roots, KeyedTypes, KeysOf, DirectiveTargets, VisibleTargets, PossibleTypes, RefsOf
<1>11. ListedExactly'
  BY <1>2, <1>7, <1>8, <1>10 DEF ListedExactly, Listable
<1>12. NamesResolved'
  <2>1. ScalarNames' = ScalarNames
    BY <1>2, SameProgram
  <2>2. \A r : Means(r)' <=> Means(r)
    BY <1>2, <1>9 DEF Means
  <2>3. QED
    BY <1>2, <1>3, <1>10, <2>1, <2>2 DEF BuiltInv, NamesResolved, Built
<1>13. BuiltInv'
  BY <1>2, <1>3, <1>11, <1>12, SameTypes DEF BuiltInv
<1>14. RegistryTypeOK'
  BY <1>2, <1>3, SameProgram DEF RegistryTypeOK
<1>15. PhaseInv'
  BY <1>2, <1>3, SameProgram DEF PhaseInv
<1>16. QED
  BY <1>2, <1>13, <1>14, <1>15 DEF RegistryInv

(***************************************************************************)
(* The first state and steps that change nothing.                          *)
(***************************************************************************)
LEMMA InitEstablishes ==
  ASSUME RegistryInit
  PROVE  RegistryInv
<1>1. /\ stack = <<>> /\ types = <<>> /\ implements = {} /\ directives = <<>> /\ keys = <<>>
      /\ phase = "register" /\ client = NoClient
      /\ todo = [i \in DOMAIN program.roots |-> [decl |-> program.roots[i], as |-> "root"]]
  BY DEF RegistryInit
<1>2. Compiles(program)
  BY ProgramsAssumption DEF RegistryInit
<1>3. DOMAIN types = {} /\ DOMAIN stack = {} /\ DOMAIN keys = {} /\ DOMAIN directives = {}
  BY <1>1
<1>4. todo \in Seq([decl : Decls, as : {"root", "register", "directive"}])
  <2> DEFINE S == [decl : Decls, as : {"root", "register", "directive"}]
  <2>1. PICK roots, objects : roots = program.roots /\ objects = DeclsOf(program, {"Object"})
    OBVIOUS
  <2>2. roots \in Seq(objects)
    BY <1>2, <2>1 DEF Compiles
  <2>3. objects \subseteq Decls
    BY <2>1, DeclsOfKind
  <2>4. \A i \in DOMAIN roots : todo[i] \in S
    BY <1>1, <2>1, <2>2, <2>3
  <2>5. todo = [i \in DOMAIN roots |-> todo[i]]
    BY <1>1, <2>1
  <2> HIDE DEF S
  <2>6. todo \in Seq(S)
    BY <2>2, <2>4, <2>5, SeqOfValues
  <2>7. QED
    BY <2>6 DEF S
<1>5. /\ stack \in Seq(FrameSet) /\ directives \in Seq(RefSet)
      /\ types \in [DOMAIN types -> TypeSet] /\ keys \in [DOMAIN keys -> Seq({"unresolvable", "entity"})]
  <2>1. <<>> \in Seq(FrameSet) /\ <<>> \in Seq(RefSet)
    OBVIOUS
  <2>2. types = [n \in {} |-> n] /\ keys = [n \in {} |-> n]
    BY <1>1
  <2>3. QED
    BY <1>1, <1>3, <2>1, <2>2
<1>6. RegistryTypeOK
  BY <1>1, <1>3, <1>4, <1>5 DEF RegistryTypeOK
<1>7. PhaseInv
  BY <1>1, <1>2 DEF PhaseInv
<1>8. TypesInv
  BY <1>3, FS_EmptySet DEF TypesInv, TargetsExist
<1>9. StackInv
  BY <1>3 DEF StackInv, CallsChain, InputsAbove
<1>10. MeaningInv
  BY <1>3 DEF MeaningInv
<1>11. QED
  BY <1>1, <1>6, <1>7, <1>8, <1>9, <1>10 DEF RegistryInv

LEMMA StutterKeeps ==
  ASSUME RegistryInv, UNCHANGED vars
  PROVE  RegistryInv'
<1>1. /\ program' = program /\ todo' = todo /\ stack' = stack /\ types' = types
      /\ implements' = implements /\ directives' = directives /\ keys' = keys
      /\ phase' = phase /\ client' = client
  BY DEF vars
<1>2. \A d : Decl(d)' = Decl(d) /\ Kind(d)' = Kind(d)
  BY <1>1, SameProgram
<1>3. RegistryTypeOK'
  BY <1>1, SameProgram DEF RegistryInv, RegistryTypeOK
<1>4. PhaseInv'
  BY <1>1, SameProgram DEF RegistryInv, PhaseInv, NoClient
<1>5. ASSUME TypesInv PROVE TypesInv'
  <2>1. ScalarNames' = ScalarNames
    BY <1>1, SameProgram
  <2>2. \A f : Pending(f)' <=> Pending(f)
    BY DEF Pending
  <2>3. \A refs : TargetsExist(refs)' <=> TargetsExist(refs)
    BY <1>1 DEF TargetsExist
  <2>4. ASSUME NEW n \in DOMAIN types
        PROVE  /\ (types[n].refs \in Seq(FitRefs(types[n].kind)))' /\ TargetsExist(types[n].refs)'
               /\ (types[n].kind = "Scalar" => n \in ScalarNames)'
    BY <1>1, <1>5, <2>1, <2>3, SameTypes DEF TypesInv
  <2>5. ASSUME NEW n \in DOMAIN types
        PROVE  (types[n].name = n \/ \E i \in DOMAIN stack : stack[i].name = n /\ Pending(stack[i]))'
    <3>1. types[n].name = n \/ \E i \in DOMAIN stack : stack[i].name = n /\ Pending(stack[i])
      BY <1>5 DEF TypesInv
    <3>2. QED
      BY <1>1, <2>2, <3>1
  <2>6. \A i \in DOMAIN stack : TargetsExist(stack[i].refs)'
    BY <1>1, <1>5, <2>3 DEF TypesInv
  <2>7. TargetsExist(directives)'
    BY <1>1, <1>5, <2>3 DEF TypesInv
  <2>8. IsFiniteSet(DOMAIN types') /\ Entity \notin DOMAIN types' /\ Service \notin DOMAIN types'
    BY <1>1, <1>5 DEF TypesInv
  <2>9. QED
    BY <1>1, <2>4, <2>5, <2>6, <2>7, <2>8 DEF TypesInv
<1>6. ASSUME StackInv PROVE StackInv'
  <2>1. ASSUME NEW f, FrameFits(f) PROVE FrameFits(f)'
    <3>1. /\ FitCalls(f.decl)' = FitCalls(f.decl) /\ Kind(f.decl)' = Kind(f.decl)
          /\ FitRefs(Kind(f.decl))' = FitRefs(Kind(f.decl)) /\ Decl(f.decl)' = Decl(f.decl)
      BY <1>1, <1>2, SameProgram
    <3>2. Pending(f)' <=> Pending(f)
      BY DEF Pending
    <3>3. MadeFrom(f.name, f.decl)' <=> MadeFrom(f.name, f.decl)
      BY <1>1, <3>1 DEF MadeFrom
    <3>4. QED
      BY <1>1, <2>1, <3>1, <3>2, <3>3 DEF FrameFits
  <2>2. CallsChain'
    BY <1>1, <1>6 DEF StackInv, CallsChain
  <2>3. InputsAbove'
    BY <1>1, <1>2, <1>6 DEF StackInv, InputsAbove
  <2>4. \A i \in DOMAIN stack : FrameFits(stack[i])'
    BY <1>1, <1>6, <2>1 DEF StackInv
  <2>5. QED
    BY <1>1, <2>2, <2>3, <2>4 DEF StackInv
<1>7. ASSUME MeaningInv PROVE MeaningInv'
  BY <1>1, <1>7, SameTypes DEF MeaningInv
<1>8. ASSUME BuiltInv PROVE BuiltInv'
  <2>1. /\ Roots' = Roots /\ KeyedTypes' = KeyedTypes /\ DirectiveTargets' = DirectiveTargets
        /\ \A n, hidden : VisibleTargets(n, hidden)' = VisibleTargets(n, hidden)
        /\ \A n : PossibleTypes(n)' = PossibleTypes(n)
        /\ \A n : RefsOf(n)' = RefsOf(n)
    BY <1>1, <1>2 DEF Roots, KeyedTypes, KeysOf, DirectiveTargets, VisibleTargets, PossibleTypes, RefsOf
  <2>2. ListedExactly'
    BY <1>1, <1>8, <2>1 DEF BuiltInv, ListedExactly
  <2>3. NamesResolved'
    <3>1. ScalarNames' = ScalarNames
      BY <1>1, SameProgram
    <3>2. \A r : Means(r)' <=> Means(r)
      BY <1>1, <1>2 DEF Means
    <3>3. QED
      BY <1>1, <1>8, <2>1, <3>1, <3>2 DEF BuiltInv, NamesResolved, Built
  <2>4. QED
    BY <1>1, <1>8, <2>2, <2>3, SameTypes DEF BuiltInv
<1>9. QED
  BY <1>1, <1>3, <1>4, <1>5, <1>6, <1>7, <1>8 DEF RegistryInv

(***************************************************************************)
(* The invariant holds in every reachable state, for every program.        *)
(***************************************************************************)
THEOREM RegistryInvariant == Spec => []RegistryInv
<1>1. RegistryInit => RegistryInv
  BY InitEstablishes
<1>2. ASSUME RegistryInv, [RegistryNext]_vars PROVE RegistryInv'
  <2>1. CASE BeginRoot
    BY <1>2, <2>1, BeginRootKeeps
  <2>2. CASE EndRoot
    BY <1>2, <2>2, EndRootKeeps
  <2>3. CASE CreateMember
    BY <1>2, <2>3, CreateMemberKeeps
  <2>4. CASE CloseType
    BY <1>2, <2>4, CloseTypeKeeps
  <2>5. CASE add_keys
    BY <1>2, <2>5, AddKeysKeeps
  <2>6. CASE Return
    BY <1>2, <2>6, ReturnKeeps
  <2>7. CASE remove_unused_types
    BY <1>2, <2>7, RemoveKeeps
  <2>8. CASE Finish
    BY <1>2, <2>8, FinishKeeps
  <2>9. CASE \E hidden \in HiddenSets : Introspect(hidden)
    BY <1>2, <2>9, IntrospectKeeps
  <2>10. CASE UNCHANGED vars
    BY <1>2, <2>10, StutterKeeps
  <2>11. QED
    BY <1>2, <2>1, <2>2, <2>3, <2>4, <2>5, <2>6, <2>7, <2>8, <2>9, <2>10 DEF RegistryNext
<1>3. QED
  BY <1>1, <1>2, PTL DEF Spec

(***************************************************************************)
(* A schema is closed: no reference of a built schema is to a type that is *)
(* not there or, where no conflict of names is ignored, to another type    *)
(* than was meant, and introspection lists what a client can meet and      *)
(* nothing else (registry/mod.rs:2100, 1546 and 2213).                     *)
(***************************************************************************)
THEOREM ClosedAlways == Spec => []RegistryClosed
<1>1. RegistryInv => RegistryClosed
  <2> SUFFICES ASSUME RegistryInv PROVE RegistryClosed
    OBVIOUS
  <2>1. CASE phase = "built"
    <3>1. RegistryTypeOK /\ BuiltInv
      BY <2>1 DEF RegistryInv
    <3>2. NothingDangles
      BY <3>1 DEF BuiltInv, NothingDangles, TargetsExist, RefsOf, Range
    <3>3. QED
      BY <3>1, <3>2 DEF BuiltInv, RegistryClosed
  <2>2. CASE phase # "built"
    <3>1. RegistryTypeOK /\ client = NoClient
      BY <2>2 DEF RegistryInv, PhaseInv
    <3>2. NothingDangles /\ NamesResolved
      BY <2>2 DEF NothingDangles, NamesResolved, Built
    <3>3. ListedExactly
      BY <3>1 DEF ListedExactly, NoClient
    <3>4. QED
      BY <3>1, <3>2, <3>3 DEF RegistryClosed
  <2>3. QED
    BY <2>1, <2>2
<1>2. QED
  BY <1>1, RegistryInvariant, PTL

(***************************************************************************)
(* Why the build of a schema panics (create_type, registry/mod.rs:1546,    *)
(* and the merged objects of the derive macros): only for a program that   *)
(* names two things alike.                                                 *)
(*                                                                         *)
(* The invariant above says what kind of Rust type an entry of the map was *)
(* made from; here each entry has an origin, a declaration that the build  *)
(* calls and whose name, or the name it was given, is the entry's, and     *)
(* each call under way has made a prefix of the calls of its constructor.  *)
(* An entry that create_type panics over is then a second declaration of   *)
(* the same name, and a field that a merged object refuses is one of two   *)
(* of its parts.                                                           *)
(***************************************************************************)


(***************************************************************************)
(* Reach finds nothing outside a closed set that holds the start.          *)
(***************************************************************************)
LEMMA ReachLeast ==
  ASSUME NEW D, IsFiniteSet(D), NEW next \in [D -> SUBSET D], NEW start \in SUBSET D,
         NEW S \in SUBSET D, start \subseteq S, Closed(next, S)
  PROVE  Reach(next, start) \subseteq S
<1> DEFINE N == Cardinality(D)
<1>1. N \in Nat
  BY FS_CardinalityType
<1>2. PICK R : ReachedBy(R, D, next, start)
  BY ReachFollows
<1>3. Grown(R, next, start, N) /\ Reach(next, start) = R[N]
  BY <1>2 DEF ReachedBy
<1> HIDE DEF N
<1> DEFINE I == SUBSET S
<1>4. R[0] \in I
  BY <1>3 DEF Grown
<1>5. ASSUME NEW k \in 1 .. N, R[k - 1] \in I PROVE R[k] \in I
  BY <1>3, <1>5 DEF Grown, Closed
<1>6. \A k \in 0 .. N : R[k] \in I
  <2> HIDE DEF I
  <2> QED BY <1>1, <1>4, <1>5, RecursionInvariant
<1>7. QED
  BY <1>1, <1>3, <1>6

(***************************************************************************)
(* The fields a merged object gets are its own and those of its parts.     *)
(***************************************************************************)
LEMMA PartsTyped ==
  ASSUME Compiles(program)
  PROVE  /\ IsFiniteSet(Decls) /\ Parts \in [Decls -> SUBSET Decls]
         /\ \A d \in Decls : \A i \in DOMAIN Decl(d).parts :
              Kind(d) = "Object" => Decl(d).parts[i] \in Decls /\ Decl(d).parts[i] \in Parts[d]
<1>1. IsFiniteSet(Decls)
  BY DEF Compiles, Decls
<1>2. ASSUME NEW d \in Decls
      PROVE  Decl(d).parts \in Seq(Decls)
  <2>1. Decl(d).parts \in Seq(DeclsOf(program, {"Object"}))
    BY DeclFacts DEF DeclSet
  <2>2. DeclsOf(program, {"Object"}) \subseteq Decls
    BY DeclsOfKind
  <2>3. QED
    BY <2>1, <2>2, SeqMonotonic
<1>3. ASSUME NEW d \in Decls
      PROVE  /\ Parts[d] \in SUBSET Decls
             /\ \A i \in DOMAIN Decl(d).parts :
                  Kind(d) = "Object" => Decl(d).parts[i] \in Decls /\ Decl(d).parts[i] \in Parts[d]
  BY <1>2 DEF Parts, Range, Kind
<1>4. Parts \in [Decls -> SUBSET Decls]
  <2>1. Parts = [d \in Decls |-> Parts[d]]
    BY DEF Parts
  <2>2. QED
    BY <1>3, <2>1
<1>5. QED
  BY <1>1, <1>3, <1>4

LEMMA MergedFieldsFacts ==
  ASSUME Compiles(program), NEW d \in Decls
  PROVE  /\ DeclFields(d) \subseteq MergedFields(d)
         /\ Kind(d) = "Object" =>
              \A i \in DOMAIN Decl(d).parts : MergedFields(Decl(d).parts[i]) \subseteq MergedFields(d)
<1>1. IsFiniteSet(Decls) /\ Parts \in [Decls -> SUBSET Decls]
  BY PartsTyped
<1> DEFINE Merged(e) == Reach(Parts, {e})
<1>2. d \in Merged(d) /\ Merged(d) \in SUBSET Decls /\ Closed(Parts, Merged(d))
  <2>1. {d} \in SUBSET Decls
    OBVIOUS
  <2>2. QED
    BY <1>1, <2>1, ReachClosed
<1>3. ASSUME Kind(d) = "Object", NEW i \in DOMAIN Decl(d).parts
      PROVE  Merged(Decl(d).parts[i]) \subseteq Merged(d)
  <2>1. PICK e \in Decls : e = Decl(d).parts[i] /\ e \in Parts[d]
    BY <1>3, PartsTyped
  <2>2. {e} \in SUBSET Decls /\ {e} \subseteq Merged(d)
    BY <1>2, <2>1 DEF Closed
  <2> HIDE DEF Merged
  <2>3. Reach(Parts, {e}) \subseteq Merged(d)
    BY <1>1, <1>2, <2>2, ReachLeast
  <2>4. QED
    BY <2>1, <2>3 DEF Merged
<1>4. QED
  BY <1>2, <1>3 DEF MergedFields

(***************************************************************************)
(* The calls of a constructor by their place: those of the members, the    *)
(* one that closes the type, and those of the entity resolvers.            *)
(***************************************************************************)
ByPlace(d, m, es, c) ==
  /\ Len(c) = Len(m) + 1 + Len(es) /\ DOMAIN c = 1 .. Len(m) + 1 + Len(es)
  /\ \A j \in 1 .. Len(m) : c[j] = m[j]
  /\ c[Len(m) + 1] = [op |-> "close", decl |-> d]
  /\ \A j \in 1 .. Len(es) : c[Len(m) + 1 + j] = es[j]

Placed(S, s, t, u) ==
  /\ u \in Seq(S) /\ Len(u) = Len(s) + Len(t) /\ DOMAIN u = 1 .. Len(s) + Len(t)
  /\ \A i \in 1 .. Len(s) : u[i] = s[i]
  /\ \A i \in 1 .. Len(t) : u[Len(s) + i] = t[i]

LEMMA ConcatPlaces ==
  ASSUME NEW S, NEW s \in Seq(S), NEW t \in Seq(S)
  PROVE  Placed(S, s, t, s \o t)
<1>1. PICK u : u = s \o t
  OBVIOUS
<1>2. s \o t \in Seq(S) /\ Len(s \o t) = Len(s) + Len(t)
      /\ DOMAIN (s \o t) = 1 .. Len(s) + Len(t)
  BY ConcatElements
<1>3. \A i \in 1 .. Len(s) : (s \o t)[i] = s[i]
  BY ConcatElements
<1>4. \A i \in 1 .. Len(t) : (s \o t)[Len(s) + i] = t[i]
  BY ConcatElements
<1>5. QED
  BY <1>1, <1>2, <1>3, <1>4 DEF Placed

LEMMA ConstructorPlaces ==
  ASSUME Compiles(program), NEW d \in Decls
  PROVE  ByPlace(d, MemberCalls(d), EntityCalls(d), Constructor(d))
<1> DEFINE S == FitCalls(d)
<1>1. PICK m, es : m = MemberCalls(d) /\ es = EntityCalls(d)
  OBVIOUS
<1>2. PICK last : last = <<[op |-> "close", decl |-> d]>>
  OBVIOUS
<1>3. m \in Seq(S) /\ es \in Seq(S) /\ last \in Seq(S) /\ Len(last) = 1
      /\ last[1] = [op |-> "close", decl |-> d]
  <2>1. [op |-> "close", decl |-> d] \in S
    BY DEF FitCalls, CallSet
  <2> HIDE DEF S
  <2>2. last \in Seq(S) /\ Len(last) = 1 /\ last[1] = [op |-> "close", decl |-> d]
    BY <1>2, <2>1
  <2>3. QED
    BY <1>1, <2>2, ConstructorFits DEF S
<1> HIDE DEF S
<1>4. Len(m) \in Nat /\ Len(es) \in Nat
  BY <1>3, LenProperties
<1>5. PICK ml : ml = m \o last
  OBVIOUS
<1>6. /\ ml \in Seq(S) /\ Len(ml) = Len(m) + 1
      /\ \A j \in 1 .. Len(m) : ml[j] = m[j]
      /\ ml[Len(m) + 1] = last[1]
  <2>1. Placed(S, m, last, ml)
    BY <1>3, <1>5, ConcatPlaces
  <2>2. QED
    BY <1>3, <2>1 DEF Placed
<1>7. PICK c : c = ml \o es
  OBVIOUS
<1>8. /\ Len(c) = Len(ml) + Len(es) /\ DOMAIN c = 1 .. Len(ml) + Len(es)
      /\ \A j \in 1 .. Len(ml) : c[j] = ml[j]
      /\ \A j \in 1 .. Len(es) : c[Len(ml) + j] = es[j]
  <2>1. Placed(S, ml, es, c)
    BY <1>3, <1>6, <1>7, ConcatPlaces
  <2>2. QED
    BY <2>1 DEF Placed
<1>9. ByPlace(d, m, es, c)
  <2>1. \A j \in 1 .. Len(m) : j \in 1 .. Len(ml) /\ c[j] = m[j]
    BY <1>4, <1>6, <1>8
  <2>2. Len(m) + 1 \in 1 .. Len(ml) /\ c[Len(m) + 1] = last[1]
    BY <1>4, <1>6, <1>8
  <2>3. QED
    BY <1>3, <1>6, <1>8, <2>1, <2>2 DEF ByPlace
<1>10. Constructor(d) = c
  BY <1>1, <1>2, <1>5, <1>7 DEF Constructor
<1>11. QED
  BY <1>1, <1>9, <1>10

(***************************************************************************)
(* The declarations that the build calls: the roots, what is registered    *)
(* afterwards, and what their constructors call.                           *)
(***************************************************************************)
LEMMA MetFacts ==
  ASSUME Compiles(program)
  PROVE  /\ Met \in SUBSET Decls
         /\ \A i \in DOMAIN program.roots : program.roots[i] \in Met
         /\ \A i \in DOMAIN program.extra : program.extra[i].decl \in Met
         /\ \A d \in Met : \A j \in DOMAIN Constructor(d) : Constructor(d)[j].decl \in Met
<1> DEFINE uses == [d \in Decls |-> {c.decl : c \in Range(MemberCalls(d) \o EntityCalls(d))}]
           start == Range(program.roots) \cup {x.decl : x \in Range(program.extra)}
<1>1. IsFiniteSet(Decls)
  BY PartsTyped
<1>2. ASSUME NEW d \in Decls
      PROVE  /\ uses[d] \in SUBSET Decls
             /\ \A j \in DOMAIN Constructor(d) :
                  Constructor(d)[j].decl \in uses[d] \cup {d}
  <2>1. PICK m, es, q : m = MemberCalls(d) /\ es = EntityCalls(d) /\ q = MemberCalls(d) \o EntityCalls(d)
    OBVIOUS
  <2>2. m \in Seq(FitCalls(d)) /\ es \in Seq(FitCalls(d)) /\ q = m \o es
    BY <2>1, ConstructorFits
  <2>3. /\ q \in Seq(FitCalls(d)) /\ DOMAIN q = 1 .. Len(m) + Len(es)
        /\ \A i \in 1 .. Len(m) : q[i] = m[i]
        /\ \A i \in 1 .. Len(es) : q[Len(m) + i] = es[i]
    <3>1. Placed(FitCalls(d), m, es, q)
      BY <2>2, ConcatPlaces
    <3>2. QED
      BY <3>1 DEF Placed
  <2>4. uses[d] = {q[i].decl : i \in DOMAIN q}
    BY <2>1 DEF Range
  <2>5. FitCalls(d) \subseteq CallSet
    BY DEF FitCalls
  <2>6. uses[d] \in SUBSET Decls
    <3>1. \A i \in DOMAIN q : q[i] \in CallSet
      BY <2>3, <2>5
    <3>2. \A c \in CallSet : c.decl \in Decls
      BY DEF CallSet
    <3>3. QED
      BY <2>4, <3>1, <3>2
  <2>7. Len(m) \in Nat /\ Len(es) \in Nat
    BY <2>2, LenProperties
  <2>8. ByPlace(d, m, es, Constructor(d))
    BY <2>1, ConstructorPlaces
  <2>9. PICK c : c = Constructor(d)
    OBVIOUS
  <2>10. ASSUME NEW j \in DOMAIN c PROVE c[j].decl \in uses[d] \cup {d}
    <3>1. j \in 1 .. Len(m) + 1 + Len(es)
      BY <2>8, <2>9 DEF ByPlace
    <3>2. CASE j \in 1 .. Len(m)
      <4>1. c[j] = q[j] /\ j \in DOMAIN q
        BY <2>3, <2>7, <2>8, <2>9, <3>2 DEF ByPlace
      <4>2. QED
        BY <2>4, <4>1
    <3>3. CASE j = Len(m) + 1
      BY <2>8, <2>9, <3>3 DEF ByPlace
    <3>4. CASE j > Len(m) + 1
      <4>1. PICK i \in 1 .. Len(es) : j = Len(m) + 1 + i
        <5>1. j - Len(m) - 1 \in 1 .. Len(es) /\ j = Len(m) + 1 + (j - Len(m) - 1)
          BY <2>7, <3>1, <3>4
        <5>2. QED
          BY <5>1
      <4>2. c[j] = q[Len(m) + i] /\ Len(m) + i \in DOMAIN q
        BY <2>3, <2>7, <2>8, <2>9, <4>1 DEF ByPlace
      <4>3. QED
        BY <2>4, <4>2
    <3>5. QED
      BY <2>7, <3>1, <3>2, <3>3, <3>4
  <2>11. QED
    BY <2>6, <2>9, <2>10
<1>3. uses \in [Decls -> SUBSET Decls]
  <2>1. uses = [d \in Decls |-> uses[d]]
    OBVIOUS
  <2> HIDE DEF uses
  <2>2. QED
    BY <1>2, <2>1
<1>4. /\ \A i \in DOMAIN program.roots : program.roots[i] \in Decls
      /\ \A i \in DOMAIN program.extra : program.extra[i].decl \in Decls
  <2>1. program.roots \in Seq(DeclsOf(program, {"Object"}))
    BY DEF Compiles
  <2>2. program.extra \in Seq([decl : DOMAIN program.decls, as : {"register"}]
                                \cup [decl : DeclsOf(program, InputKinds), as : {"directive"}])
    BY DEF Compiles
  <2>3. DeclsOf(program, {"Object"}) \subseteq Decls /\ DeclsOf(program, InputKinds) \subseteq Decls
    BY DeclsOfKind
  <2>4. QED
    BY <2>1, <2>2, <2>3 DEF Decls
<1>5. start \in SUBSET Decls
  BY <1>4 DEF Range
<1>6. Met = Reach(uses, start)
  BY DEF Met
<1>7. \A i \in DOMAIN program.roots : program.roots[i] \in start
  BY DEF Range
<1>8. \A i \in DOMAIN program.extra : program.extra[i].decl \in start
  BY DEF Range
<1> HIDE DEF uses, start
<1>9. Met \in SUBSET Decls /\ start \subseteq Met /\ Closed(uses, Met)
  BY <1>1, <1>3, <1>5, <1>6, ReachClosed
<1>10. QED
  BY <1>2, <1>7, <1>8, <1>9 DEF Closed

(***************************************************************************)
(* Calls that create an output type are those of the fields; a merged      *)
(* object first takes the fields of its parts, one part after the other,   *)
(* and no other call copies fields.                                        *)
(***************************************************************************)
Creates(c, role) == c.op = "create" /\ c.role = role

Extending(d, k) == Kind(d) = "Object" /\ k \in 1 .. Len(Decl(d).parts)

CallInPlace(d, k, c) ==
  /\ Creates(c, "out") => c.path[1] \in DeclFields(d)
  /\ Creates(c, "extend") <=> Extending(d, k)
  /\ Creates(c, "extend") => c.decl = Decl(d).parts[k]

OwnCalls(d) ==
  {c \in FitCalls(d) : ~Creates(c, "extend") /\ (Creates(c, "out") => c.path[1] \in DeclFields(d))}

LEMMA OwnMembers ==
  ASSUME Compiles(program), NEW d \in Decls, Kind(d) \in {"Object", "Interface"}
  PROVE  ObjectMembers(Decl(d)) \in Seq(OwnCalls(d))
<1> DEFINE S == OwnCalls(d)
<1>1. Decl(d).fields \in Seq(FieldSet(program))
  BY DeclFacts DEF DeclSet
<1>2. CallRoles(Kind(d)) = {"out", "arg", "possible", "extend", "none"}
  BY DEF CallRoles
<1>3. ASSUME NEW i \in DOMAIN Decl(d).fields PROVE FieldCalls(Decl(d).fields[i]) \in Seq(S)
  <2>1. PICK f \in FieldSet(program) : f = Decl(d).fields[i] /\ f.name \in DeclFields(d)
    BY <1>1 DEF DeclFields
  <2>2. f.out \in Decls /\ Kind(f.out) \in KindsFor("out") /\ f.name \in Labels
        /\ f.marks \in SUBSET Labels /\ f.args \in Seq(ArgSet(program))
    BY DeclsOfKind DEF FieldSet, KindsFor
  <2>3. PICK out : out = Call(f.out, "out", <<f.name>>, f.marks)
    OBVIOUS
  <2>4. out \in S
    <3>1. <<f.name>> \in Seq(Labels)
      BY <2>2
    <3>2. out \in FitCalls(d)
      BY <1>2, <2>2, <2>3, <3>1, CallFits
    <3>3. out.role = "out" /\ out.path[1] \in DeclFields(d)
      BY <2>1, <2>3 DEF Call
    <3>4. QED
      BY <3>2, <3>3 DEF OwnCalls, Creates
  <2> DEFINE calls == [j \in DOMAIN f.args |->
                         Call(f.args[j].of, "arg", <<f.name, f.args[j].name>>, f.args[j].marks)]
  <2>5. ASSUME NEW j \in DOMAIN f.args PROVE calls[j] \in S
    <3>1. f.args[j] \in ArgSet(program)
      BY <2>2
    <3>2. f.args[j].of \in Decls /\ Kind(f.args[j].of) \in KindsFor("arg")
      BY <3>1, DeclsOfKind DEF ArgSet, KindsFor
    <3>3. <<f.name, f.args[j].name>> \in Seq(Labels) /\ f.args[j].marks \in SUBSET Labels
      BY <2>2, <3>1 DEF ArgSet
    <3>4. calls[j] \in FitCalls(d) /\ calls[j].role = "arg"
      BY <1>2, <3>2, <3>3, CallFits DEF Call
    <3>5. QED
      BY <3>4 DEF OwnCalls, Creates
  <2>6. calls = [j \in DOMAIN f.args |-> calls[j]]
    OBVIOUS
  <2>7. PICK first : first = <<out>>
    OBVIOUS
  <2>8. FieldCalls(f) = first \o calls
    BY <2>3, <2>7 DEF FieldCalls
  <2> HIDE DEF calls, S
  <2>9. calls \in Seq(S) /\ first \in Seq(S)
    <3>1. calls \in Seq(S)
      BY <2>2, <2>5, <2>6, SeqOfValues
    <3>2. QED
      BY <2>4, <2>7, <3>1
  <2>10. Placed(S, first, calls, first \o calls)
    BY <2>9, ConcatPlaces
  <2>11. QED
    BY <2>1, <2>8, <2>10 DEF Placed
<1> DEFINE lists == [i \in DOMAIN Decl(d).fields |-> FieldCalls(Decl(d).fields[i])]
<1>4. lists = [i \in DOMAIN Decl(d).fields |-> lists[i]]
  OBVIOUS
<1>5. \A i \in DOMAIN Decl(d).fields : lists[i] \in Seq(S)
  BY <1>3
<1>6. lists \in Seq(Seq(S))
  <2> HIDE DEF lists, S
  <2> QED BY <1>1, <1>4, <1>5, SeqOfValues
<1>7. ObjectMembers(Decl(d)) = FlattenSeq(lists)
  BY DEF ObjectMembers
<1> HIDE DEF lists, S
<1>8. QED
  BY <1>6, <1>7, FlattenSeqType DEF S

LEMMA OwnPossible ==
  ASSUME Compiles(program), NEW d \in Decls, Kind(d) \in {"Interface", "Union"}
  PROVE  UnionMembers(Decl(d)) \in Seq(OwnCalls(d))
<1> DEFINE calls == [i \in DOMAIN Decl(d).possible |-> Call(Decl(d).possible[i], "possible", <<>>, {})]
           S == OwnCalls(d)
<1>1. Decl(d).possible \in Seq(DeclsOf(program, {"Object"}))
  BY DeclFacts DEF DeclSet
<1>2. ASSUME NEW i \in DOMAIN Decl(d).possible PROVE calls[i] \in S
  <2>1. Decl(d).possible[i] \in Decls /\ Kind(Decl(d).possible[i]) \in KindsFor("possible")
    BY <1>1, DeclsOfKind DEF KindsFor
  <2>2. "possible" \in CallRoles(Kind(d)) /\ <<>> \in Seq(Labels) /\ {} \in SUBSET Labels
    BY DEF CallRoles
  <2>3. calls[i] \in FitCalls(d) /\ calls[i].role = "possible"
    BY <2>1, <2>2, CallFits DEF Call
  <2>4. QED
    BY <2>3 DEF OwnCalls, Creates
<1>3. calls = [i \in DOMAIN Decl(d).possible |-> calls[i]]
  OBVIOUS
<1>4. calls \in Seq(S)
  <2> HIDE DEF calls, S
  <2> QED BY <1>1, <1>2, <1>3, SeqOfValues
<1>5. QED
  BY <1>4 DEF UnionMembers

LEMMA MembersInPlace ==
  ASSUME Compiles(program), NEW d \in Decls, NEW m, m = MemberCalls(d)
  PROVE  /\ Len(m) \in Nat /\ (Kind(d) = "Object" => Len(Decl(d).parts) <= Len(m))
         /\ \A k \in 1 .. Len(m) : CallInPlace(d, k, m[k])
<1>1. m \in Seq(FitCalls(d)) /\ Len(m) \in Nat /\ DOMAIN m = 1 .. Len(m)
  BY ConstructorFits, LenProperties
<1>2. CASE Kind(d) = "Object"
  <2>1. PICK p, q, parts : p = MergedMembers(Decl(d)) /\ q = ObjectMembers(Decl(d)) /\ parts = Decl(d).parts
    OBVIOUS
  <2>2. m = p \o q
    BY <1>2, <2>1 DEF MemberCalls, Kind
  <2>3. p = [i \in DOMAIN parts |-> Call(parts[i], "extend", <<>>, {})]
    BY <2>1 DEF MergedMembers
  <2>4. parts \in Seq(DeclsOf(program, {"Object"}))
    BY <2>1, DeclFacts DEF DeclSet
  <2>5. /\ p \in Seq(FitCalls(d)) /\ Len(p) = Len(parts)
        /\ \A i \in 1 .. Len(p) : p[i] = Call(parts[i], "extend", <<>>, {})
    <3>1. ASSUME NEW i \in DOMAIN parts PROVE p[i] \in FitCalls(d)
      <4>1. parts[i] \in Decls /\ Kind(parts[i]) \in KindsFor("extend")
        BY <2>4, DeclsOfKind DEF KindsFor
      <4>2. "extend" \in CallRoles(Kind(d)) /\ <<>> \in Seq(Labels) /\ {} \in SUBSET Labels
        BY <1>2 DEF CallRoles
      <4>3. QED
        BY <2>3, <4>1, <4>2, CallFits
    <3>2. p = [i \in DOMAIN parts |-> p[i]]
      BY <2>3
    <3>3. p \in Seq(FitCalls(d)) /\ Len(p) = Len(parts) /\ DOMAIN p = DOMAIN parts
      BY <2>4, <3>1, <3>2, SeqOfValues
    <3>4. DOMAIN parts = 1 .. Len(parts)
      BY <2>4, LenProperties
    <3>5. QED
      BY <2>3, <3>3, <3>4
  <2>6. q \in Seq(OwnCalls(d)) /\ OwnCalls(d) \subseteq FitCalls(d)
    BY <1>2, <2>1, OwnMembers DEF OwnCalls
  <2>7. q \in Seq(FitCalls(d))
    BY <2>6, SeqMonotonic
  <2>8. Placed(FitCalls(d), p, q, m)
    BY <2>2, <2>5, <2>7, ConcatPlaces
  <2>9. Len(p) \in Nat /\ Len(q) \in Nat /\ DOMAIN q = 1 .. Len(q)
    BY <2>5, <2>7, LenProperties
  <2>10. ASSUME NEW k \in 1 .. Len(m) PROVE CallInPlace(d, k, m[k])
    <3>1. CASE k \in 1 .. Len(p)
      <4>1. m[k] = Call(parts[k], "extend", <<>>, {})
        BY <2>5, <2>8, <3>1 DEF Placed
      <4>2. Extending(d, k)
        BY <1>2, <2>1, <2>5, <3>1 DEF Extending
      <4>3. QED
        BY <2>1, <4>1, <4>2 DEF CallInPlace, Creates, Call
    <3>2. CASE k \notin 1 .. Len(p)
      <4>1. k - Len(p) \in 1 .. Len(q) /\ k = Len(p) + (k - Len(p))
        BY <2>8, <2>9, <3>2 DEF Placed
      <4>2. m[k] = q[k - Len(p)]
        BY <2>8, <4>1 DEF Placed
      <4>3. m[k] \in OwnCalls(d)
        BY <2>6, <2>9, <4>1, <4>2
      <4>4. ~Extending(d, k)
        BY <2>1, <2>5, <3>2 DEF Extending
      <4>5. QED
        BY <4>3, <4>4 DEF CallInPlace, OwnCalls
    <3>3. QED
      BY <3>1, <3>2
  <2>11. Len(parts) <= Len(m)
    BY <2>5, <2>8, <2>9 DEF Placed
  <2>12. QED
    BY <1>1, <2>1, <2>10, <2>11
<1>3. CASE Kind(d) \in {"Interface", "Union"}
  <2>1. MemberCalls(d) \in Seq(OwnCalls(d))
    <3>1. PICK u, q : u = UnionMembers(Decl(d)) /\ q = ObjectMembers(Decl(d))
      OBVIOUS
    <3>2. u \in Seq(OwnCalls(d))
      BY <1>3, <3>1, OwnPossible
    <3>3. CASE Kind(d) = "Union"
      BY <3>1, <3>2, <3>3 DEF MemberCalls, Kind
    <3>4. CASE Kind(d) = "Interface"
      <4>1. q \in Seq(OwnCalls(d))
        BY <3>1, <3>4, OwnMembers
      <4>2. Placed(OwnCalls(d), u, q, u \o q)
        BY <3>2, <4>1, ConcatPlaces
      <4>3. MemberCalls(d) = u \o q
        BY <3>1, <3>4 DEF MemberCalls, Kind, InterfaceMembers
      <4>4. QED
        BY <4>2, <4>3 DEF Placed
    <3>5. QED
      BY <1>3, <3>3, <3>4
  <2>2. \A k \in 1 .. Len(m) : m[k] \in OwnCalls(d)
    BY <1>1, <2>1
  <2>3. \A k : ~Extending(d, k)
    BY <1>3 DEF Extending
  <2>4. QED
    BY <1>1, <1>3, <2>2, <2>3 DEF CallInPlace, OwnCalls
<1>4. CASE Kind(d) \in {"Scalar", "Enum", "InputObject"}
  <2>1. \A k \in 1 .. Len(m) : m[k] \in FitCalls(d)
    BY <1>1
  <2>2. \A k \in 1 .. Len(m) : ~Creates(m[k], "out") /\ ~Creates(m[k], "extend")
    BY <1>4, <2>1 DEF FitCalls, CallRoles, Creates
  <2>3. \A k : ~Extending(d, k)
    BY <1>4 DEF Extending
  <2>4. QED
    BY <1>1, <1>4, <2>2, <2>3 DEF CallInPlace
<1>5. QED
  BY <1>2, <1>3, <1>4, DeclFacts DEF Kinds

LEMMA ConstructorInPlace ==
  ASSUME Compiles(program), NEW d \in Decls
  PROVE  \A k \in DOMAIN Constructor(d) : CallInPlace(d, k, Constructor(d)[k])
<1>1. PICK m, es, c : m = MemberCalls(d) /\ es = EntityCalls(d) /\ c = Constructor(d)
  OBVIOUS
<1>2. ByPlace(d, m, es, c)
  BY <1>1, ConstructorPlaces
<1>3. /\ Len(m) \in Nat /\ (Kind(d) = "Object" => Len(Decl(d).parts) <= Len(m))
      /\ \A k \in 1 .. Len(m) : CallInPlace(d, k, m[k])
  BY <1>1, MembersInPlace
<1>4. es \in Seq(FitCalls(d)) /\ Len(es) \in Nat
  BY <1>1, ConstructorFits, LenProperties
<1>5. Decl(d).parts \in Seq(DeclsOf(program, {"Object"}))
  BY DeclFacts DEF DeclSet
<1>6. Len(Decl(d).parts) \in Nat
  BY <1>5, LenProperties
<1>7. \A k \in Nat : k > Len(m) => ~Extending(d, k)
  BY <1>3, <1>6 DEF Extending
<1>8. \A j \in 1 .. Len(es) : ~Creates(es[j], "out") /\ ~Creates(es[j], "extend")
  <2>1. PICK e : e = Decl(d).entities
    OBVIOUS
  <2>2. e \in Seq(DeclsOf(program, {"Object", "Interface"}))
    BY <2>1, DeclFacts DEF DeclSet
  <2>3. PICK creates, adds : /\ creates = [i \in DOMAIN e |-> Call(e[i], "none", <<>>, {})]
                             /\ adds = [i \in DOMAIN e |-> [op |-> "key", decl |-> e[i]]]
    OBVIOUS
  <2>4. es = creates \o adds
    BY <1>1, <2>1, <2>3 DEF EntityCalls
  <2> DEFINE V == {creates[i] : i \in DOMAIN e} \cup {adds[i] : i \in DOMAIN e}
  <2>5. creates \in Seq(V) /\ adds \in Seq(V)
    <3>1. creates = [i \in DOMAIN e |-> creates[i]] /\ adds = [i \in DOMAIN e |-> adds[i]]
      BY <2>3
    <3>2. \A i \in DOMAIN e : creates[i] \in V /\ adds[i] \in V
      OBVIOUS
    <3> HIDE DEF V
    <3>3. creates \in Seq(V)
      BY <2>2, <3>1, <3>2, SeqOfValues
    <3>4. adds \in Seq(V)
      BY <2>2, <3>1, <3>2, SeqOfValues
    <3>5. QED
      BY <3>3, <3>4
  <2>6. \A v \in V : ~Creates(v, "out") /\ ~Creates(v, "extend")
    BY <2>3 DEF Creates, Call
  <2> HIDE DEF V
  <2>7. Placed(V, creates, adds, es)
    BY <2>4, <2>5, ConcatPlaces
  <2>8. \A j \in 1 .. Len(es) : es[j] \in V
    BY <2>7, ElementOfSeq DEF Placed
  <2>9. QED
    BY <2>6, <2>8
<1>9. ASSUME NEW k \in DOMAIN c PROVE CallInPlace(d, k, c[k])
  <2>1. k \in 1 .. Len(m) + 1 + Len(es)
    BY <1>2 DEF ByPlace
  <2>2. CASE k \in 1 .. Len(m)
    BY <1>2, <1>3, <2>2 DEF ByPlace
  <2>3. CASE k = Len(m) + 1
    <3>1. c[k].op = "close"
      BY <1>2, <2>3 DEF ByPlace
    <3>2. QED
      BY <1>3, <1>7, <2>3, <3>1 DEF CallInPlace, Creates
  <2>4. CASE k > Len(m) + 1
    <3>1. PICK j \in 1 .. Len(es) : k = Len(m) + 1 + j
      <4>1. Len(m) \in Nat /\ Len(es) \in Nat
        BY <1>3, <1>4
      <4>2. k - (Len(m) + 1) \in 1 .. Len(es) /\ k = Len(m) + 1 + (k - (Len(m) + 1))
        BY <2>1, <2>4, <4>1
      <4>3. QED
        BY <4>2
    <3>2. c[k] = es[j]
      BY <1>2, <3>1 DEF ByPlace
    <3>3. ~Extending(d, k)
      BY <1>3, <1>7, <2>4
    <3>4. QED
      BY <1>8, <3>2, <3>3 DEF CallInPlace
  <2>5. QED
    BY <1>3, <2>1, <2>2, <2>3, <2>4
<1>10. QED
  BY <1>1, <1>9

(***************************************************************************)
(* Where what is registered comes from.  A type was made from a            *)
(* declaration the build met, under its own name or, for an input object,  *)
(* under one it was given because an object has its own; it has no fields  *)
(* but those of the declaration and its parts.                             *)
(***************************************************************************)
Given(n, e) ==
  /\ Kind(e) = "InputObject" /\ n[1] = Decl(e).name[1] /\ n[2] > 0
  /\ \E f \in Met : Kind(f) = "Object" /\ Decl(f).rust = Decl(e).rust

Origin(n, e) ==
  /\ e \in Met /\ MadeFrom(n, e)
  /\ n = Decl(e).name \/ Given(n, e)
  /\ FieldNames(types[n].refs) \subseteq MergedFields(e)

(***************************************************************************)
(* A frame has made the first k calls of its constructor.  Until a merged  *)
(* object has the fields of all its parts it has those of the parts so     *)
(* far and no others.                                                      *)
(***************************************************************************)
Progress(fr, k) ==
  /\ k + Len(fr.calls) = Len(Constructor(fr.decl))
  /\ \A j \in DOMAIN fr.calls : fr.calls[j] = Constructor(fr.decl)[k + j]
  /\ FieldNames(fr.refs) \subseteq MergedFields(fr.decl)
  /\ Extending(fr.decl, k + 1) =>
       \A x \in FieldNames(fr.refs) : \E i \in 1 .. k : x \in MergedFields(Decl(fr.decl).parts[i])

FrameOrigin(fr) == fr.decl \in Met /\ \E k \in Nat : Progress(fr, k)

OriginInv ==
  /\ \A i \in DOMAIN todo : todo[i].decl \in Met
  /\ \A i \in DOMAIN stack : FrameOrigin(stack[i])
  /\ \A n \in DOMAIN types : \E e \in Met : Origin(n, e)

LEMMA SameOrigins ==
  ASSUME program' = program
  PROVE  /\ Met' = Met
         /\ \A d : MergedFields(d)' = MergedFields(d)
         /\ \A n, e : Given(n, e)' <=> Given(n, e)
         /\ \A fr : FrameOrigin(fr)' <=> FrameOrigin(fr)
         /\ (NamesClash' <=> NamesClash) /\ (FieldsClash' <=> FieldsClash)
<1>1. Decls' = Decls /\ (\A d : Decl(d)' = Decl(d)) /\ (\A d : Kind(d)' = Kind(d))
  BY SameProgram
<1>2. \A d : MemberCalls(d)' = MemberCalls(d) /\ EntityCalls(d)' = EntityCalls(d)
  BY <1>1 DEF MemberCalls, EntityCalls
<1>3. \A d : Constructor(d)' = Constructor(d)
  BY <1>2 DEF Constructor
<1>4. Met' = Met
  BY <1>1, <1>2 DEF Met
<1>5. \A d : DeclFields(d)' = DeclFields(d)
  BY <1>1 DEF DeclFields
<1>6. Parts' = Parts
  BY <1>1 DEF Parts
<1>7. \A d : MergedFields(d)' = MergedFields(d)
  BY <1>5, <1>6 DEF MergedFields
<1>8. \A n, e : Given(n, e)' <=> Given(n, e)
  BY <1>1, <1>4 DEF Given
<1>9. \A d, k : Extending(d, k)' <=> Extending(d, k)
  BY <1>1 DEF Extending
<1>10. \A refs : FieldNames(refs)' = FieldNames(refs)
  BY DEF FieldNames
<1>11. \A fr, k : Progress(fr, k)' <=> Progress(fr, k)
  BY <1>1, <1>3, <1>7, <1>9, <1>10 DEF Progress
<1>12. \A fr : FrameOrigin(fr)' <=> FrameOrigin(fr)
  BY <1>4, <1>11 DEF FrameOrigin
<1>13. \A d, e : (Clash(d, e)' <=> Clash(d, e)) /\ (GivenName(d, e)' <=> GivenName(d, e))
  BY <1>1, <1>4 DEF Clash, GivenName
<1>14. NamesClash' <=> NamesClash
  BY <1>4, <1>13 DEF NamesClash
<1>15. FieldsClash' <=> FieldsClash
  BY <1>1, <1>4, <1>7 DEF FieldsClash
<1>16. QED
  BY <1>4, <1>7, <1>8, <1>12, <1>14, <1>15

(***************************************************************************)
(* A new frame has made no calls, or all but those of the entity           *)
(* resolvers.                                                              *)
(***************************************************************************)
LEMMA NewFrameOrigin ==
  ASSUME Compiles(program), NEW d \in Met, NEW n
  PROVE  /\ FrameOrigin(Frame(d, n, Constructor(d)))
         /\ FrameOrigin(Frame(d, n, EntityCalls(d)))
<1>1. d \in Decls
  BY MetFacts
<1>2. FieldNames(<<>>) = {}
  BY DEF FieldNames
<1>3. PICK c, m, es : c = Constructor(d) /\ m = MemberCalls(d) /\ es = EntityCalls(d)
  OBVIOUS
<1>4. ByPlace(d, m, es, c)
  BY <1>1, <1>3, ConstructorPlaces
<1>5. Len(m) \in Nat /\ Len(es) \in Nat /\ DOMAIN es = 1 .. Len(es)
  BY <1>1, <1>3, ConstructorFits, LenProperties
<1>6. Len(c) \in Nat /\ DOMAIN c = 1 .. Len(c)
  BY <1>4, <1>5 DEF ByPlace
<1>7. FrameOrigin(Frame(d, n, Constructor(d)))
  <2>1. PICK fr : fr = Frame(d, n, Constructor(d))
    OBVIOUS
  <2>2. fr.decl = d /\ fr.calls = c /\ fr.refs = <<>>
    BY <1>3, <2>1 DEF Frame
  <2>3. Progress(fr, 0)
    BY <1>2, <1>3, <1>6, <2>2 DEF Progress
  <2>4. QED
    BY <2>1, <2>2, <2>3 DEF FrameOrigin
<1>8. FrameOrigin(Frame(d, n, EntityCalls(d)))
  <2>1. PICK fr : fr = Frame(d, n, EntityCalls(d))
    OBVIOUS
  <2>2. fr.decl = d /\ fr.calls = es /\ fr.refs = <<>>
    BY <1>3, <2>1 DEF Frame
  <2>3. PICK k \in Nat : k = Len(m) + 1
    BY <1>5
  <2>4. k + Len(es) = Len(c) /\ \A j \in DOMAIN es : es[j] = c[k + j]
    BY <1>4, <1>5, <2>3 DEF ByPlace
  <2>5. Progress(fr, k)
    BY <1>2, <1>3, <2>2, <2>4 DEF Progress
  <2>6. QED
    BY <2>1, <2>2, <2>5 DEF FrameOrigin
<1>9. QED
  BY <1>7, <1>8

(***************************************************************************)
(* A frame makes its next call and keeps what that brings: the name of a   *)
(* field, or the fields of a part.                                         *)
(***************************************************************************)
Brings(c) ==
  IF Creates(c, "extend") THEN MergedFields(c.decl)
  ELSE IF Creates(c, "out") THEN {c.path[1]} ELSE {}

LEMMA NextCall ==
  ASSUME Compiles(program), NEW fr, fr.calls \in Seq(FitCalls(fr.decl)), fr.calls # <<>>,
         FrameOrigin(fr), NEW c, c = Head(fr.calls)
  PROVE  /\ fr.decl \in Decls /\ c.decl \in Met
         /\ \E k \in Nat : Progress(fr, k) /\ CallInPlace(fr.decl, k + 1, c)
<1>1. fr.decl \in Met /\ fr.decl \in Decls
  BY MetFacts DEF FrameOrigin
<1>2. PICK k \in Nat : Progress(fr, k)
  BY DEF FrameOrigin
<1>3. c = fr.calls[1] /\ 1 \in DOMAIN fr.calls
  <2>1. Without(FitCalls(fr.decl), fr.calls, Tail(fr.calls))
    BY TailFacts
  <2>2. QED
    BY <2>1 DEF Without
<1>4. PICK all : all = Constructor(fr.decl)
  OBVIOUS
<1>5. c = all[k + 1] /\ k + 1 \in DOMAIN all
  <2>1. all \in Seq(FitCalls(fr.decl))
    BY <1>1, <1>4, ConstructorFits
  <2>2. PICK l, n : l = Len(fr.calls) /\ n = Len(all)
    OBVIOUS
  <2>3. l \in Nat /\ DOMAIN fr.calls = 1 .. l /\ n \in Nat /\ DOMAIN all = 1 .. n
    BY <2>1, <2>2, LenProperties
  <2>4. c = all[k + 1] /\ k + l = n
    BY <1>2, <1>3, <1>4, <2>2 DEF Progress
  <2>5. 1 <= l
    BY <1>3, <2>3
  <2>6. k + 1 \in 1 .. n
    BY <2>3, <2>4, <2>5
  <2>7. QED
    BY <2>3, <2>4, <2>6
<1>6. c.decl \in Met
  BY <1>1, <1>4, <1>5, MetFacts
<1>7. CallInPlace(fr.decl, k + 1, c)
  BY <1>1, <1>4, <1>5, ConstructorInPlace
<1>8. QED
  BY <1>1, <1>2, <1>6, <1>7

LEMMA Advances ==
  ASSUME Compiles(program), NEW fr, fr.calls \in Seq(FitCalls(fr.decl)), fr.calls # <<>>,
         FrameOrigin(fr), NEW new, new.decl = fr.decl, new.calls = Tail(fr.calls),
         FieldNames(new.refs) \subseteq FieldNames(fr.refs) \cup Brings(Head(fr.calls))
  PROVE  FrameOrigin(new)
<1>1. PICK c, d, all : c = Head(fr.calls) /\ d = fr.decl /\ all = Constructor(d)
  OBVIOUS
<1>2. d \in Decls /\ d \in Met
  BY <1>1, NextCall DEF FrameOrigin
<1>3. PICK k \in Nat : Progress(fr, k) /\ CallInPlace(d, k + 1, c)
  BY <1>1, NextCall
<1>4. /\ \A i \in DOMAIN new.calls : i + 1 \in DOMAIN fr.calls /\ new.calls[i] = fr.calls[i + 1]
      /\ Len(new.calls) = Len(fr.calls) - 1 /\ Len(fr.calls) \in Nat
      /\ DOMAIN new.calls \subseteq Nat
  <2>1. Without(FitCalls(fr.decl), fr.calls, new.calls)
    BY TailFacts
  <2>2. Len(new.calls) = Len(fr.calls) - 1
    BY HeadTailProperties
  <2>3. Len(fr.calls) \in Nat /\ DOMAIN new.calls \subseteq Nat
    <3>1. new.calls \in Seq(FitCalls(fr.decl))
      BY <2>1 DEF Without
    <3>2. Len(fr.calls) \in Nat /\ Len(new.calls) \in Nat /\ DOMAIN new.calls = 1 .. Len(new.calls)
      BY <3>1, LenProperties
    <3>3. QED
      BY <3>2
  <2>4. \A i \in DOMAIN new.calls : i + 1 \in DOMAIN fr.calls /\ new.calls[i] = fr.calls[i + 1]
    BY <2>1 DEF Without
  <2>5. QED
    BY <2>2, <2>3, <2>4
<1>5. (k + 1) + Len(new.calls) = Len(all)
  <2>1. k + Len(fr.calls) = Len(all)
    BY <1>1, <1>3 DEF Progress
  <2>2. PICK l, n : l = Len(fr.calls) /\ n = Len(new.calls)
    OBVIOUS
  <2>3. l \in Nat /\ n = l - 1 /\ k + l = Len(all)
    BY <1>4, <2>1, <2>2
  <2>4. (k + 1) + n = k + l
    BY <2>3
  <2>5. QED
    BY <2>2, <2>3, <2>4
<1>6. \A j \in DOMAIN new.calls : new.calls[j] = all[(k + 1) + j]
  <2> TAKE j \in DOMAIN new.calls
  <2>1. new.calls[j] = fr.calls[j + 1] /\ j + 1 \in DOMAIN fr.calls
    BY <1>4
  <2>2. fr.calls[j + 1] = all[k + (j + 1)]
    BY <1>1, <1>3, <2>1 DEF Progress
  <2>3. j \in Nat /\ k + (j + 1) = (k + 1) + j
    BY <1>4
  <2>4. QED
    BY <2>1, <2>2, <2>3
<1>7. Decl(d).parts \in Seq(DeclsOf(program, {"Object"}))
  BY <1>2, DeclFacts DEF DeclSet
<1>8. Brings(c) \subseteq MergedFields(d)
  <2>1. CASE Creates(c, "extend")
    <3>1. Extending(d, k + 1) /\ c.decl = Decl(d).parts[k + 1]
      BY <1>3, <2>1 DEF CallInPlace
    <3>2. k + 1 \in DOMAIN Decl(d).parts /\ Kind(d) = "Object"
      BY <1>7, <3>1, LenProperties DEF Extending
    <3>3. QED
      BY <1>2, <2>1, <3>1, <3>2, MergedFieldsFacts DEF Brings
  <2>2. CASE ~Creates(c, "extend")
    <3>1. DeclFields(d) \subseteq MergedFields(d)
      BY <1>2, MergedFieldsFacts
    <3>2. QED
      BY <1>3, <2>2, <3>1 DEF Brings, CallInPlace
  <2>3. QED
    BY <2>1, <2>2
<1>9. FieldNames(new.refs) \subseteq MergedFields(d)
  BY <1>1, <1>3, <1>8 DEF Progress
<1>10. ASSUME Extending(d, (k + 1) + 1), NEW x \in FieldNames(new.refs)
       PROVE  \E i \in 1 .. (k + 1) : x \in MergedFields(Decl(d).parts[i])
  <2>1. Extending(d, k + 1)
    <3>1. Len(Decl(d).parts) \in Nat
      BY <1>7, LenProperties
    <3>2. QED
      BY <1>10, <3>1 DEF Extending
  <2>2. Creates(c, "extend") /\ c.decl = Decl(d).parts[k + 1]
    BY <1>3, <2>1 DEF CallInPlace
  <2>3. CASE x \in FieldNames(fr.refs)
    <3>1. PICK i \in 1 .. k : x \in MergedFields(Decl(d).parts[i])
      BY <1>1, <1>3, <2>1, <2>3 DEF Progress
    <3>2. i \in 1 .. (k + 1)
      OBVIOUS
    <3>3. QED
      BY <3>1, <3>2
  <2>4. CASE x \in Brings(c)
    <3>1. x \in MergedFields(Decl(d).parts[k + 1])
      BY <2>2, <2>4 DEF Brings
    <3>2. k + 1 \in 1 .. (k + 1)
      OBVIOUS
    <3>3. QED
      BY <3>1, <3>2
  <2>5. QED
    BY <1>1, <2>3, <2>4
<1>11. Progress(new, k + 1)
  BY <1>1, <1>5, <1>6, <1>9, <1>10 DEF Progress
<1>12. QED
  BY <1>1, <1>2, <1>11 DEF FrameOrigin

(***************************************************************************)
(* The parts so far have no field of the part whose turn it is.            *)
(***************************************************************************)
LEMMA PartsApart ==
  ASSUME Compiles(program), ~FieldsClash, NEW fr, fr.calls \in Seq(FitCalls(fr.decl)), fr.calls # <<>>,
         FrameOrigin(fr), NEW c, c = Head(fr.calls), Creates(c, "extend")
  PROVE  FieldNames(fr.refs) \cap MergedFields(c.decl) = {}
<1>1. PICK d : d = fr.decl
  OBVIOUS
<1>2. d \in Decls /\ d \in Met
  BY <1>1, NextCall DEF FrameOrigin
<1>3. PICK k \in Nat : Progress(fr, k) /\ CallInPlace(d, k + 1, c)
  BY <1>1, NextCall
<1>4. Extending(d, k + 1) /\ c.decl = Decl(d).parts[k + 1]
  BY <1>3 DEF CallInPlace
<1>5. Decl(d).parts \in Seq(DeclsOf(program, {"Object"}))
  BY <1>2, DeclFacts DEF DeclSet
<1>6. DOMAIN Decl(d).parts = 1 .. Len(Decl(d).parts) /\ k + 1 \in DOMAIN Decl(d).parts
  BY <1>4, <1>5, LenProperties DEF Extending
<1>7. SUFFICES ASSUME NEW x \in FieldNames(fr.refs), x \in MergedFields(c.decl) PROVE FALSE
  OBVIOUS
<1>8. PICK i \in 1 .. k : x \in MergedFields(Decl(d).parts[i])
  BY <1>1, <1>3, <1>4, <1>7 DEF Progress
<1>9. i \in DOMAIN Decl(d).parts /\ i # k + 1
  <2>1. Len(Decl(d).parts) \in Nat
    BY <1>5, LenProperties
  <2>2. QED
    BY <1>6, <2>1
<1>10. QED
  BY <1>2, <1>4, <1>6, <1>7, <1>8, <1>9 DEF FieldsClash

(***************************************************************************)
(* A type that stays of one declaration and gains no field keeps its       *)
(* origin, also under a new name.                                          *)
(***************************************************************************)
LEMMA KeptOrigin ==
  ASSUME program' = program, NEW n, NEW e, Origin(n, e), NEW m,
         types'[m].rust = types[n].rust, types'[m].kind = types[n].kind,
         FieldNames(types'[m].refs) \subseteq FieldNames(types[n].refs) \cup MergedFields(e),
         m = n \/ Given(m, e)
  PROVE  e \in Met' /\ Origin(m, e)'
<1>1. Met' = Met /\ MergedFields(e)' = MergedFields(e) /\ (Given(m, e)' <=> Given(m, e))
  BY SameOrigins
<1>2. Decl(e)' = Decl(e) /\ Kind(e)' = Kind(e)
  BY SameProgram
<1>3. MadeFrom(m, e)'
  BY <1>2 DEF Origin, MadeFrom
<1>4. (m = Decl(e).name \/ Given(m, e))'
  BY <1>1, <1>2 DEF Origin
<1>5. PICK refs : refs = types'[m].refs
  OBVIOUS
<1>6. FieldNames(refs)' = FieldNames(refs)
  BY DEF FieldNames
<1>7. FieldNames(types[m].refs)' = FieldNames(refs)
  BY <1>5, <1>6 DEF FieldNames
<1>8. (FieldNames(types[m].refs) \subseteq MergedFields(e))'
  BY <1>1, <1>5, <1>7 DEF Origin
<1>9. QED
  BY <1>1, <1>3, <1>4, <1>8 DEF Origin

LEMMA NewOrigin ==
  ASSUME program' = program, NEW d \in Met, NEW n, types'[n] = create_fake_type(d),
         n = Decl(d).name \/ Given(n, d)
  PROVE  d \in Met' /\ Origin(n, d)'
<1>1. Met' = Met /\ MergedFields(d)' = MergedFields(d) /\ (Given(n, d)' <=> Given(n, d))
  BY SameOrigins
<1>2. Decl(d)' = Decl(d) /\ Kind(d)' = Kind(d)
  BY SameProgram
<1>3. types'[n].rust = Decl(d).rust /\ types'[n].kind = Kind(d) /\ types'[n].refs = <<>>
  <2>1. PICK fake : fake = create_fake_type(d)
    OBVIOUS
  <2>2. fake.rust = Decl(d).rust /\ fake.kind = Kind(d) /\ fake.refs = <<>>
    BY <2>1 DEF create_fake_type, Kind
  <2>3. QED
    BY <2>1, <2>2
<1>4. MadeFrom(n, d)'
  BY <1>2, <1>3 DEF MadeFrom
<1>5. FieldNames(types[n].refs)' = {}
  BY <1>3 DEF FieldNames
<1>6. QED
  BY <1>1, <1>2, <1>4, <1>5 DEF Origin

LEMMA PushOrigins ==
  ASSUME program' = program, todo' = todo, StackTyped, OriginInv, NEW fr \in FrameSet, FrameOrigin(fr),
         stack' = Append(stack, fr),
         \A n \in DOMAIN types' : \E e \in Met' : Origin(n, e)'
  PROVE  OriginInv'
<1>1. Met' = Met /\ \A f : FrameOrigin(f)' <=> FrameOrigin(f)
  BY SameOrigins
<1>2. /\ Len(stack) \in Nat /\ DOMAIN stack = 1 .. Len(stack) /\ DOMAIN stack' = 1 .. Len(stack) + 1
      /\ \A i \in 1 .. Len(stack) : stack'[i] = stack[i]
      /\ stack'[Len(stack) + 1] = fr
  BY AppendProperties, LenProperties DEF StackTyped
<1>3. ASSUME NEW i \in DOMAIN stack' PROVE FrameOrigin(stack[i])'
  <2>1. PICK f : f = stack'[i]
    OBVIOUS
  <2>2. FrameOrigin(f)
    <3>1. CASE i = Len(stack) + 1
      BY <1>2, <2>1, <3>1
    <3>2. CASE i # Len(stack) + 1
      BY <1>2, <2>1, <3>2 DEF OriginInv
    <3>3. QED
      BY <3>1, <3>2
  <2>3. FrameOrigin(f)'
    BY <1>1, <2>2
  <2>4. QED
    BY <2>1, <2>3
<1>4. \A i \in DOMAIN todo' : todo'[i].decl \in Met'
  BY <1>1 DEF OriginInv
<1>5. QED
  BY <1>3, <1>4 DEF OriginInv

(***************************************************************************)
(* The branches of create_type.  Without a clash of names none panics.     *)
(***************************************************************************)
LEMMA ReuseOrigins ==
  ASSUME program' = program, todo' = todo, Compiles(program), Building, OriginInv,
         NEW d \in Met, NEW n \in DOMAIN types, types' = types,
         stack' = Append(stack, Frame(d, n, EntityCalls(d)))
  PROVE  OriginInv'
<1>1. d \in Decls /\ n \in AllNames
  BY MetFacts DEF Building, TypesTyped
<1>2. PICK fr \in FrameSet : fr = Frame(d, n, EntityCalls(d))
  BY <1>1, NewFrame
<1>3. FrameOrigin(fr)
  BY <1>2, NewFrameOrigin
<1>4. ASSUME NEW m \in DOMAIN types' PROVE \E e \in Met' : Origin(m, e)'
  <2>1. PICK e \in Met : Origin(m, e)
    BY DEF OriginInv
  <2>2. e \in Met' /\ Origin(m, e)'
    BY <2>1, KeptOrigin
  <2>3. QED
    BY <2>2
<1>5. QED
  BY <1>2, <1>3, <1>4, PushOrigins DEF Building

LEMMA InsertOrigins ==
  ASSUME program' = program, todo' = todo, Compiles(program), Building, OriginInv,
         NEW d \in Met, NEW n \in AllNames, n \notin DOMAIN types, n = Decl(d).name \/ Given(n, d),
         types' = Insert(types, n, create_fake_type(d)),
         stack' = Append(stack, Frame(d, n, Constructor(d)))
  PROVE  OriginInv'
<1>1. d \in Decls
  BY MetFacts
<1>2. PICK fr \in FrameSet : fr = Frame(d, n, Constructor(d))
  BY <1>1, NewFrame
<1>3. FrameOrigin(fr)
  BY <1>2, NewFrameOrigin
<1>4. /\ DOMAIN types' = DOMAIN types \cup {n} /\ types'[n] = create_fake_type(d)
      /\ \A m \in DOMAIN types : types'[m] = types[m]
  BY DEF Insert
<1>5. ASSUME NEW m \in DOMAIN types' PROVE \E e \in Met' : Origin(m, e)'
  <2>1. CASE m = n
    <3>1. d \in Met' /\ Origin(m, d)'
      BY <1>4, <2>1, NewOrigin
    <3>2. QED
      BY <3>1
  <2>2. CASE m \in DOMAIN types
    <3>1. PICK e \in Met : Origin(m, e)
      BY <2>2 DEF OriginInv
    <3>2. types'[m] = types[m]
      BY <1>4, <2>2
    <3>3. e \in Met' /\ Origin(m, e)'
      BY <3>1, <3>2, KeptOrigin
    <3>4. QED
      BY <3>3
  <2>3. QED
    BY <1>4, <2>1, <2>2
<1>6. QED
  BY <1>2, <1>3, <1>5, PushOrigins DEF Building

LEMMA RenamedFields ==
  ASSUME NEW refs, NEW renamed, NEW from, NEW to, Renames(refs, renamed, from, to)
  PROVE  FieldNames(renamed) = FieldNames(refs)
BY DEF Renames, FieldNames

LEMMA RenameOrigins ==
  ASSUME program' = program, todo' = todo, Compiles(program), Building, OriginInv, ~NamesClash,
         NEW d \in Met, Kind(d) = "Object",
         NEW name \in DOMAIN types, name = Decl(d).name, types[name].kind = "InputObject",
         types' = Insert(rename_conflicting_input_object(name), name, create_fake_type(d)),
         stack' = Append(stack, Frame(d, name, Constructor(d)))
  PROVE  OriginInv'
<1>1. d \in Decls /\ name \in AllNames
  BY MetFacts DEF Building, TypesTyped
<1>2. PICK fake, to : fake = create_fake_type(d) /\ to = unused_input_object_name(name, DOMAIN types)
  OBVIOUS
<1>3. /\ to \in AllNames \ DOMAIN types /\ RenamedMap(types', name, to, fake)
      /\ to[1] = name[1] /\ to[2] > 0
  <2>1. TypesTyped /\ TypesInv /\ IsFiniteSet(DOMAIN types)
    BY DEF Building, TypesInv
  <2>2. to[1] = name[1] /\ to[2] \in Nat \ {0}
    BY <1>1, <1>2, <2>1, UnusedName
  <2>3. QED
    BY <1>2, <2>1, <2>2, RenamedTypes
<1>4. ASSUME NEW n \in DOMAIN types, NEW m, m = IF n = name THEN to ELSE n
      PROVE  /\ types'[m].rust = types[n].rust /\ types'[m].kind = types[n].kind
             /\ FieldNames(types'[m].refs) = FieldNames(types[n].refs)
  <2>1. PICK refs : refs = rename_input_type_references_in_type(types[n].refs, name, to)
    OBVIOUS
  <2>2. types[n] \in TypeSet /\ types[n].refs \in Seq(FitRefs(types[n].kind))
    BY DEF Building, TypesTyped, TypesInv
  <2>3. Renames(types[n].refs, refs, name, to)
    BY <1>3, <2>1, <2>2, RenamedRefs
  <2>4. FieldNames(refs) = FieldNames(types[n].refs)
    BY <2>3, RenamedFields
  <2>5. types'[m].rust = types[n].rust /\ types'[m].kind = types[n].kind /\ types'[m].refs = refs
    <3>1. CASE n = name
      <4>1. types'[m] = [types[name] EXCEPT !.name = to,
                           !.refs = rename_input_type_references_in_type(@, name, to)]
        BY <1>3, <1>4, <3>1 DEF RenamedMap
      <4>2. types'[m] = [types[n] EXCEPT !.name = to, !.refs = refs]
        BY <2>1, <3>1, <4>1
      <4>3. QED
        BY <2>2, <4>2 DEF TypeSet
    <3>2. CASE n # name
      <4>1. types'[n] = [types[n] EXCEPT !.refs = rename_input_type_references_in_type(@, name, to)]
        BY <1>3, <3>2 DEF RenamedMap
      <4>2. types'[m] = [types[n] EXCEPT !.refs = refs]
        BY <1>4, <2>1, <3>2, <4>1
      <4>3. QED
        BY <2>2, <4>2 DEF TypeSet
    <3>3. QED
      BY <3>1, <3>2
  <2>6. QED
    BY <2>4, <2>5
<1>5. PICK e \in Met : Origin(name, e)
  BY DEF OriginInv
<1>6. Given(to, e)
  <2>1. Kind(e) = "InputObject"
    BY <1>5 DEF Origin, MadeFrom
  <2>2. CASE name = Decl(e).name
    <3>1. ~Clash(d, e)
      BY DEF NamesClash
    <3>2. Decl(d).rust = Decl(e).rust
      BY <2>2, <3>1 DEF Clash
    <3>3. QED
      BY <1>3, <2>1, <2>2, <3>2 DEF Given
  <2>3. CASE Given(name, e)
    BY <1>3, <2>3 DEF Given
  <2>4. QED
    BY <1>5, <2>2, <2>3 DEF Origin
<1>7. ASSUME NEW m \in DOMAIN types' PROVE \E x \in Met' : Origin(m, x)'
  <2>1. CASE m = name
    <3>1. types'[m] = create_fake_type(d)
      BY <1>2, <1>3, <2>1 DEF RenamedMap
    <3>2. d \in Met' /\ Origin(m, d)'
      BY <2>1, <3>1, NewOrigin
    <3>3. QED
      BY <3>2
  <2>2. CASE m = to
    <3>1. /\ types'[m].rust = types[name].rust /\ types'[m].kind = types[name].kind
          /\ FieldNames(types'[m].refs) = FieldNames(types[name].refs)
      BY <1>4, <2>2
    <3>2. e \in Met' /\ Origin(m, e)'
      BY <1>5, <1>6, <2>2, <3>1, KeptOrigin
    <3>3. QED
      BY <3>2
  <2>3. CASE m \in DOMAIN types \ {name}
    <3>1. /\ types'[m].rust = types[m].rust /\ types'[m].kind = types[m].kind
          /\ FieldNames(types'[m].refs) = FieldNames(types[m].refs)
      BY <1>4, <2>3
    <3>2. PICK x \in Met : Origin(m, x)
      BY <2>3 DEF OriginInv
    <3>3. x \in Met' /\ Origin(m, x)'
      BY <3>1, <3>2, KeptOrigin
    <3>4. QED
      BY <3>3
  <2>4. QED
    BY <1>3, <2>1, <2>2, <2>3 DEF RenamedMap
<1>8. PICK fr \in FrameSet : fr = Frame(d, name, Constructor(d))
  BY <1>1, NewFrame
<1>9. FrameOrigin(fr)
  BY <1>8, NewFrameOrigin
<1>10. QED
  BY <1>7, <1>8, <1>9, PushOrigins DEF Building

LEMMA CreateOrigins ==
  ASSUME program' = program, todo' = todo, Compiles(program), Building, OriginInv, ~NamesClash,
         NEW d \in Met, create_type(d)
  PROVE  OriginInv' /\ phase' = phase
<1> DEFINE name == Decl(d).name
           prev == types[name]
           same_rust == SameRustType(prev, d)
<1>1. d \in Decls /\ name \in AllNames /\ Kind(d) = Decl(d).kind
  BY MetFacts, DeclFacts DEF Kind
<1>2. CASE name \notin DOMAIN types /\ CreateNew(d, types, name)
  <2>1. types' = Insert(types, name, create_fake_type(d)) /\ phase' = phase
        /\ stack' = Append(stack, Frame(d, name, Constructor(d)))
    BY <1>2 DEF CreateNew, Push
  <2>2. OriginInv'
    BY <1>1, <1>2, <2>1, InsertOrigins
  <2>3. QED
    BY <2>1, <2>2
<1>3. ASSUME name \in DOMAIN types, prev.kind # "Scalar",
             \/ ~same_rust
             \/ /\ same_rust /\ prev.kind # Decl(d).kind
                /\ {prev.kind, Decl(d).kind} # {"Object", "InputObject"}
      PROVE  FALSE
  <2>1. PICK e \in Met : Origin(name, e)
    BY <1>3 DEF OriginInv
  <2>2. prev.rust = Decl(e).rust /\ prev.kind = Decl(e).kind
    BY <2>1 DEF Origin, MadeFrom, Kind
  <2>3. ~Clash(d, e) /\ ~GivenName(d, e)
    BY DEF NamesClash
  <2>4. CASE name = Decl(e).name
    BY <1>3, <2>2, <2>3, <2>4 DEF Clash, SameRustType
  <2>5. CASE Given(name, e)
    <3>1. PICK f \in Met : Kind(f) = "Object" /\ Decl(f).rust = Decl(e).rust
      BY <2>5 DEF Given
    <3>2. Decl(e).kind = "InputObject" /\ Decl(f).kind = "Object"
      BY <2>5, <3>1 DEF Given, Kind
    <3>3. Decl(d).name[1] = Decl(e).name[1] /\ Decl(d).name[2] > 0
      BY <2>5 DEF Given
    <3>4. Decl(d).rust # Decl(e).rust \/ Decl(d).kind \notin {"Object", "InputObject"}
      BY <1>3, <2>2, <3>2 DEF SameRustType
    <3>5. QED
      BY <2>3, <3>1, <3>2, <3>3, <3>4 DEF GivenName
  <2>6. QED
    BY <2>1, <2>4, <2>5 DEF Origin
<1>4. CASE name \in DOMAIN types /\ Reuse(d, name)
  <2>1. types' = types /\ phase' = phase /\ stack' = Append(stack, Frame(d, name, EntityCalls(d)))
    BY <1>4 DEF Reuse, Push
  <2>2. OriginInv'
    BY <1>4, <2>1, ReuseOrigins
  <2>3. QED
    BY <2>1, <2>2
<1>5. CASE /\ name \in DOMAIN types /\ prev.kind = "InputObject" /\ Decl(d).kind = "Object"
           /\ CreateNew(d, rename_conflicting_input_object(name), name)
  <2>1. /\ types' = Insert(rename_conflicting_input_object(name), name, create_fake_type(d))
        /\ phase' = phase /\ stack' = Append(stack, Frame(d, name, Constructor(d)))
    BY <1>5 DEF CreateNew, Push
  <2>2. OriginInv'
    BY <1>1, <1>5, <2>1, RenameOrigins
  <2>3. QED
    BY <2>1, <2>2
<1>6. CASE /\ registered_input_object_name(Decl(d).rust) # {}
           /\ Reuse(d, CHOOSE n \in registered_input_object_name(Decl(d).rust) : TRUE)
  <2>1. PICK n \in registered_input_object_name(Decl(d).rust) : Reuse(d, n)
    BY <1>6
  <2>2. n \in DOMAIN types
    BY DEF registered_input_object_name
  <2>3. types' = types /\ phase' = phase /\ stack' = Append(stack, Frame(d, n, EntityCalls(d)))
    BY <2>1 DEF Reuse, Push
  <2>4. OriginInv'
    BY <2>2, <2>3, ReuseOrigins
  <2>5. QED
    BY <2>3, <2>4
<1>7. CASE /\ name \in DOMAIN types /\ prev.kind = "Object" /\ Decl(d).kind = "InputObject"
           /\ CreateNew(d, types, unused_input_object_name(name, DOMAIN types))
  <2>1. PICK n : n = unused_input_object_name(name, DOMAIN types)
    OBVIOUS
  <2>2. n \in AllNames /\ n \notin DOMAIN types /\ n[1] = name[1] /\ n[2] > 0
    <3>1. IsFiniteSet(DOMAIN types)
      BY DEF Building, TypesInv
    <3>2. n \in AllNames \ DOMAIN types /\ n[1] = name[1] /\ n[2] \in Nat \ {0}
      BY <1>1, <2>1, <3>1, UnusedName
    <3>3. QED
      BY <3>2
  <2>3. types' = Insert(types, n, create_fake_type(d)) /\ phase' = phase
        /\ stack' = Append(stack, Frame(d, n, Constructor(d)))
    BY <1>7, <2>1 DEF CreateNew, Push
  <2>4. Given(n, d)
    <3>1. PICK e \in Met : Origin(name, e)
      BY <1>7 DEF OriginInv
    <3>2. Kind(e) = "Object" /\ name = Decl(e).name
      BY <1>7, <3>1 DEF Origin, MadeFrom, Given
    <3>3. ~Clash(d, e)
      BY DEF NamesClash
    <3>4. Decl(e).rust = Decl(d).rust
      BY <3>2, <3>3 DEF Clash
    <3>5. QED
      BY <1>1, <1>7, <2>2, <3>2, <3>4 DEF Given
  <2>5. OriginInv'
    BY <2>2, <2>3, <2>4, InsertOrigins
  <2>6. QED
    BY <2>3, <2>5
<1>8. QED
  BY <1>2, <1>3, <1>4, <1>5, <1>6, <1>7 DEF create_type

(***************************************************************************)
(* The state of a step that leaves the types with their origins and lets   *)
(* the innermost frame go on.                                              *)
(***************************************************************************)
TypesOrigin == \A n \in DOMAIN types : \E e \in Met : Origin(n, e)

LEMMA TypesStay ==
  ASSUME program' = program, OriginInv, DOMAIN types' \subseteq DOMAIN types,
         \A n \in DOMAIN types' : types'[n] = types[n]
  PROVE  TypesOrigin'
<1>1. ASSUME NEW n \in DOMAIN types' PROVE \E e \in Met' : Origin(n, e)'
  <2>1. PICK e \in Met : Origin(n, e)
    BY DEF OriginInv
  <2>2. types'[n] = types[n]
    OBVIOUS
  <2>3. e \in Met' /\ Origin(n, e)'
    BY <2>1, <2>2, KeptOrigin
  <2>4. QED
    BY <2>3
<1>2. QED
  BY <1>1 DEF TypesOrigin

LEMMA StackOrigins ==
  ASSUME program' = program, todo' = todo, OriginInv, TypesOrigin',
         NEW k \in DOMAIN stack', NEW fr, FrameOrigin(fr), stack'[k] = fr,
         \A i \in DOMAIN stack' : i = k \/ (i \in DOMAIN stack /\ stack'[i] = stack[i])
  PROVE  OriginInv'
<1>1. Met' = Met /\ \A f : FrameOrigin(f)' <=> FrameOrigin(f)
  BY SameOrigins
<1>2. ASSUME NEW i \in DOMAIN stack' PROVE FrameOrigin(stack[i])'
  <2>1. PICK f : f = stack'[i]
    OBVIOUS
  <2>2. FrameOrigin(f)
    BY <2>1 DEF OriginInv
  <2>3. FrameOrigin(f)'
    BY <1>1, <2>2
  <2>4. QED
    BY <2>1, <2>3
<1>3. \A i \in DOMAIN todo' : todo'[i].decl \in Met'
  BY <1>1 DEF OriginInv
<1>4. QED
  BY <1>2, <1>3 DEF OriginInv, TypesOrigin

LEMMA DoneOrigins ==
  ASSUME program' = program, todo' = todo, Compiles(program), StackTyped, StackInv,
         stack # <<>>, Top.calls # <<>>, stack' = Replaced(stack, DoneWith(Top)),
         OriginInv, TypesOrigin'
  PROVE  OriginInv'
<1>1. PICK top, fr : top = Top /\ fr = DoneWith(Top)
  OBVIOUS
<1>2. stack \in Seq(FrameSet) /\ DOMAIN stack = 1 .. Len(stack) /\ Len(stack) \in Nat \ {0}
      /\ top = stack[Len(stack)] /\ top \in FrameSet
  <2>1. stack \in Seq(FrameSet)
    BY DEF StackTyped
  <2>2. /\ Len(stack) \in Nat \ {0} /\ DOMAIN stack = 1 .. Len(stack)
        /\ Last(stack) = stack[Len(stack)] /\ Last(stack) \in FrameSet
    BY <2>1, TopFacts
  <2>3. QED
    BY <1>1, <2>1, <2>2 DEF Top
<1>3. FrameFits(top) /\ FrameOrigin(top)
  <2>1. Len(stack) \in DOMAIN stack
    BY <1>2
  <2>2. QED
    BY <1>2, <2>1 DEF StackInv, OriginInv
<1>4. fr \in FrameSet /\ fr.decl = top.decl /\ fr.refs = top.refs /\ fr.calls = Tail(top.calls)
  <2>1. fr \in FrameSet /\ fr.decl = top.decl /\ fr.refs = top.refs
    BY <1>1, <1>2, <1>3, DoneCall
  <2>2. fr.calls = Tail(top.calls)
    BY <1>1, <1>2 DEF DoneWith, FrameSet
  <2>3. QED
    BY <2>1, <2>2
<1>5. FrameOrigin(fr)
  <2>1. top.calls \in Seq(FitCalls(top.decl)) /\ top.calls # <<>>
    BY <1>1, <1>3 DEF FrameFits
  <2>2. QED
    BY <1>3, <1>4, <2>1, Advances
<1>6. ReplacedFacts(FrameSet, stack, fr, stack')
  BY <1>1, <1>2, <1>4, ReplaceTop
<1>7. /\ Len(stack) \in DOMAIN stack' /\ stack'[Len(stack)] = fr
      /\ \A i \in DOMAIN stack' : i = Len(stack) \/ (i \in DOMAIN stack /\ stack'[i] = stack[i])
  BY <1>2, <1>6 DEF ReplacedFacts
<1>8. QED
  BY <1>5, <1>7, StackOrigins

(***************************************************************************)
(* One declaration for each side of a Rust type.                           *)
(***************************************************************************)
LEMMA OneSide ==
  ASSUME Compiles(program), NEW d \in Decls, NEW e \in Decls,
         Decl(d).rust = Decl(e).rust, Kind(d) = Kind(e)
  PROVE  d = e
BY DEF Compiles, Decls, Decl, Kind

LEMMA CloseOrigins ==
  ASSUME RegistryInv, OriginInv, CloseType
  PROVE  OriginInv' /\ phase' = phase
<1> DEFINE d == Current.decl
           closed == [kind |-> Decl(d).kind, rust |-> Decl(d).rust, name |-> Top.name,
                      marks |-> Decl(d).marks,
                      refs |-> rename_input_type_references_in_type(Top.refs, Decl(d).name, Top.name)]
<1>1. /\ phase \in {"register", "extra"} /\ stack # <<>> /\ Top.calls # <<>> /\ Current.op = "close"
      /\ types' = [types EXCEPT ![Top.name] = closed]
      /\ stack' = Replaced(stack, DoneWith(Top))
      /\ program' = program /\ todo' = todo /\ phase' = phase
  BY DEF CloseType, Replaced, DoneWith, Below
<1>2. Building /\ Compiles(program)
  BY <1>1, Unbuilt
<1>3. PICK top, n, e : top = Top /\ n = Top.name /\ e = Current.decl
  OBVIOUS
<1>4. PICK new : new = closed
  OBVIOUS
<1>5. stack \in Seq(FrameSet) /\ Len(stack) \in DOMAIN stack /\ top = stack[Len(stack)]
  <2>1. stack \in Seq(FrameSet) /\ stack # <<>>
    BY <1>1, <1>2 DEF Building, StackTyped
  <2>2. Len(stack) \in Nat \ {0} /\ DOMAIN stack = 1 .. Len(stack) /\ Last(stack) = stack[Len(stack)]
    BY <2>1, TopFacts
  <2>3. QED
    BY <1>3, <2>1, <2>2 DEF Top
<1>6. /\ top \in FrameSet /\ FrameFits(top) /\ n = top.name /\ n \in DOMAIN types /\ n \in AllNames
      /\ top.calls # <<>> /\ Head(top.calls) = Current /\ FrameOrigin(top)
  BY <1>1, <1>2, <1>3, <1>5 DEF Building, StackTyped, StackInv, Current, OriginInv, TypesTyped
<1>7. Current \in FitCalls(top.decl) /\ Pending(top)
  BY <1>1, <1>6, DoneCall
<1>8. e = top.decl /\ e \in Decls /\ e \in Met
  BY <1>1, <1>3, <1>6, <1>7 DEF FitCalls, FrameSet, FrameOrigin
<1>9. MadeFrom(n, e)
  BY <1>6, <1>7, <1>8 DEF FrameFits
<1>10. PICK refs : refs = rename_input_type_references_in_type(top.refs, Decl(e).name, n)
  OBVIOUS
<1>11. FieldNames(refs) = FieldNames(top.refs)
  <2>1. top.refs \in Seq(FitRefs(Kind(e)))
    BY <1>6, <1>8 DEF FrameFits
  <2>2. Renames(top.refs, refs, Decl(e).name, n)
    BY <1>6, <1>10, <2>1, RenamedRefs
  <2>3. QED
    BY <2>2, RenamedFields
<1>12. FieldNames(refs) \subseteq MergedFields(e)
  BY <1>6, <1>8, <1>11 DEF FrameOrigin, Progress
<1>13. new.kind = Kind(e) /\ new.rust = Decl(e).rust /\ new.refs = refs
  BY <1>3, <1>4, <1>10 DEF Kind
<1>14. /\ DOMAIN types' = DOMAIN types
       /\ types'[n] = new /\ \A m \in DOMAIN types : m # n => types'[m] = types[m]
  <2>1. types' = [types EXCEPT ![n] = new]
    BY <1>1, <1>3, <1>4
  <2>2. types \in [DOMAIN types -> TypeSet]
    BY <1>2 DEF Building, TypesTyped
  <2>3. QED
    BY <1>6, <2>1, <2>2
<1>15. ASSUME NEW m \in DOMAIN types' PROVE \E x \in Met' : Origin(m, x)'
  <2>1. PICK x \in Met : Origin(m, x)
    BY <1>14 DEF OriginInv
  <2>2. CASE m = n
    <3>1. x = e
      <4>1. x \in Decls
        BY <1>2, MetFacts
      <4>2. Decl(x).rust = Decl(e).rust /\ Kind(x) = Kind(e)
        BY <1>9, <2>1, <2>2 DEF Origin, MadeFrom
      <4>3. QED
        BY <1>2, <1>8, <4>1, <4>2, OneSide
    <3>2. /\ types'[m].rust = types[m].rust /\ types'[m].kind = types[m].kind
          /\ FieldNames(types'[m].refs) \subseteq MergedFields(x)
      BY <1>9, <1>12, <1>13, <1>14, <2>2, <3>1 DEF MadeFrom
    <3>3. x \in Met' /\ Origin(m, x)'
      BY <1>1, <2>1, <3>2, KeptOrigin
    <3>4. QED
      BY <3>3
  <2>3. CASE m # n
    <3>1. types'[m] = types[m]
      BY <1>14, <2>3
    <3>2. x \in Met' /\ Origin(m, x)'
      BY <1>1, <2>1, <3>1, KeptOrigin
    <3>3. QED
      BY <3>2
  <2>4. QED
    BY <2>2, <2>3
<1>16. TypesOrigin'
  BY <1>15 DEF TypesOrigin
<1>17. QED
  BY <1>1, <1>2, <1>16, DoneOrigins DEF Building

LEMMA AddKeysOrigins ==
  ASSUME RegistryInv, OriginInv, add_keys
  PROVE  OriginInv' /\ phase' = phase
<1>1. /\ phase \in {"register", "extra"} /\ stack # <<>> /\ Top.calls # <<>>
      /\ types' = types
      /\ stack' = Replaced(stack, DoneWith(Top))
      /\ program' = program /\ todo' = todo /\ phase' = phase
  BY DEF add_keys, Replaced, DoneWith, Below
<1>2. Building /\ Compiles(program)
  BY <1>1, Unbuilt
<1>3. TypesOrigin'
  BY <1>1, TypesStay
<1>4. QED
  BY <1>1, <1>2, <1>3, DoneOrigins DEF Building

(***************************************************************************)
(* What a call returns: a field, or the fields of the part that is the     *)
(* object registered under its name.                                       *)
(***************************************************************************)
LEMMA PartsFields ==
  ASSUME Compiles(program), Building, OriginInv, ~NamesClash,
         NEW top \in FrameSet, FrameFits(top), top.name \in DOMAIN types, FrameOrigin(top),
         Kind(top.decl) = "Object"
  PROVE  FieldNames(types[top.name].refs) \subseteq MergedFields(top.decl)
<1>1. PICK n, d : n = top.name /\ d = top.decl
  OBVIOUS
<1>2. n = Decl(d).name /\ d \in Met /\ types[n].kind \in {"Scalar", "Object"}
  BY <1>1 DEF FrameFits, FrameOrigin
<1>3. PICK e \in Met : Origin(n, e)
  BY <1>1 DEF OriginInv
<1>4. Kind(e) \in {"Scalar", "Object"} /\ n = Decl(e).name
  BY <1>2, <1>3 DEF Origin, MadeFrom, Given
<1>5. ~Clash(d, e)
  BY <1>2 DEF NamesClash
<1>6. Decl(d).rust = Decl(e).rust /\ Kind(d) = Kind(e)
  BY <1>1, <1>2, <1>4, <1>5 DEF Clash, Kind
<1>7. d = e
  BY <1>2, <1>6, MetFacts, OneSide
<1>8. QED
  BY <1>1, <1>3, <1>7 DEF Origin

LEMMA JoinedFields ==
  ASSUME NEW S, NEW s \in Seq(S), NEW t \in Seq(S)
  PROVE  FieldNames(s \o t) \subseteq FieldNames(s) \cup FieldNames(t)
<1>1. PICK u : u = s \o t
  OBVIOUS
<1>2. Joined(S, s, t, u)
  BY <1>1, ConcatJoins
<1>3. FieldNames(u) \subseteq FieldNames(s) \cup FieldNames(t)
  BY <1>2 DEF Joined, FieldNames
<1>4. QED
  BY <1>1, <1>3

LEMMA ReturnOrigins ==
  ASSUME RegistryInv, OriginInv, ~NamesClash, ~FieldsClash, Return
  PROVE  OriginInv' /\ phase' = phase
<1>1. PICK caller, call, top : caller = Last(Below) /\ call = Head(caller.calls) /\ top = Top
  OBVIOUS
<1>2. /\ phase \in {"register", "extra"} /\ Len(stack) > 1
      /\ program' = program /\ todo' = todo /\ types' = types
  BY DEF Return
<1>3. Building /\ Compiles(program)
  BY <1>2, Unbuilt
<1>4. /\ Len(stack) \in Nat /\ DOMAIN stack = 1 .. Len(stack)
      /\ Len(stack) \in DOMAIN stack /\ Len(stack) - 1 \in DOMAIN stack
      /\ Below \in Seq(FrameSet) /\ Below # <<>> /\ Len(Below) = Len(stack) - 1
      /\ \A i \in 1 .. Len(stack) - 1 : Below[i] = stack[i]
      /\ top = stack[Len(stack)] /\ caller = stack[Len(stack) - 1]
      /\ caller \in FrameSet /\ FrameFits(caller) /\ caller.calls # <<>>
      /\ call.op = "create" /\ call.decl = top.decl
  BY <1>1, <1>2, <1>3, CallerFacts DEF Building
<1>5. /\ top \in FrameSet /\ FrameFits(top) /\ top.name \in DOMAIN types
      /\ FrameOrigin(top) /\ FrameOrigin(caller)
      /\ program.ignore_name_conflicts = {} => StandsFor(top.name, top.decl)
  BY <1>3, <1>4 DEF Building, StackTyped, StackInv, MeaningInv, OriginInv
<1>6. PICK d \in Decls : d = caller.decl
  BY <1>4 DEF FrameSet
<1>7. caller.calls \in Seq(FitCalls(d)) /\ caller.refs \in Seq(FitRefs(Kind(d)))
  BY <1>4, <1>6 DEF FrameFits
<1>8. call \in FitCalls(d)
  BY <1>1, <1>4, <1>7, HeadTailProperties
<1>9. PICK more : more = RefsReturned(call, top.name)
  OBVIOUS
<1>10. more \in Seq(FitRefs(Kind(d)))
  BY <1>3, <1>4, <1>5, <1>8, <1>9, ReturnedRefs
<1>11. ASSUME call.role = "extend" PROVE FieldNames(types[top.name].refs) \subseteq MergedFields(call.decl)
  <2>1. Kind(top.decl) = "Object"
    BY <1>4, <1>8, <1>11 DEF FitCalls, KindsFor
  <2>2. QED
    BY <1>3, <1>4, <1>5, <2>1, PartsFields
<1>12. FieldNames(more) \subseteq Brings(call)
  <2>1. CASE call.role = "extend"
    BY <1>4, <1>9, <1>11, <2>1 DEF RefsReturned, Brings, Creates
  <2>2. CASE call.role = "out"
    <3>1. more = <<Ref(call, top.name)>>
      BY <1>9, <2>2 DEF RefsReturned
    <3>2. PICK r : r = Ref(call, top.name)
      OBVIOUS
    <3>3. r.path = call.path /\ more = <<r>>
      BY <3>1, <3>2 DEF Ref
    <3>4. FieldNames(more) \subseteq {call.path[1]}
      BY <3>3 DEF FieldNames
    <3>5. QED
      BY <1>4, <2>2, <3>4 DEF Brings, Creates
  <2>3. CASE call.role \in {"arg", "input", "possible", "none"}
    <3>1. CASE call.role = "none"
      <4>1. more = <<>>
        BY <1>9, <3>1 DEF RefsReturned
      <4>2. QED
        BY <4>1 DEF FieldNames
    <3>2. CASE call.role # "none"
      <4>1. PICK r : more = <<r>> /\ r.role = call.role
        <5>1. more = <<Ref(call, top.name)>> \/ more = <<Ref(call, Decl(call.decl).name)>>
          BY <1>9, <2>3, <3>2 DEF RefsReturned
        <5>2. \A to : Ref(call, to).role = call.role
          BY DEF Ref
        <5>3. QED
          BY <5>1, <5>2
      <4>2. QED
        BY <2>3, <3>2, <4>1 DEF FieldNames
    <3>3. QED
      BY <3>1, <3>2
  <2>4. call.role \in {"out", "arg", "input", "possible", "extend", "none"}
    BY <1>4, <1>8 DEF FitCalls, CallSet
  <2>5. QED
    BY <2>1, <2>2, <2>3, <2>4
<1>13. ~extend_fields_panics(call, top.name)
  <2> SUFFICES ASSUME call.role = "extend"
               PROVE  FieldNames(caller.refs) \cap FieldNames(types[top.name].refs) = {}
    BY <1>1 DEF extend_fields_panics
  <2>1. Creates(call, "extend") /\ caller.calls \in Seq(FitCalls(caller.decl))
    BY <1>4, <1>6, <1>7 DEF Creates
  <2>2. FieldNames(caller.refs) \cap MergedFields(call.decl) = {}
    BY <1>1, <1>3, <1>4, <1>5, <2>1, PartsApart
  <2>3. QED
    BY <1>11, <2>2
<1>14. stack' = Replaced(Below, ReturnedTo(caller, more)) /\ phase' = phase
  BY <1>1, <1>9, <1>13 DEF Return, Replaced, ReturnedTo
<1>15. PICK fr : fr = ReturnedTo(caller, more)
  OBVIOUS
<1>16. /\ fr \in FrameSet /\ fr.decl = caller.decl /\ fr.calls = Tail(caller.calls)
       /\ fr.refs = caller.refs \o more
  <2>1. Head(caller.calls).op # "close" /\ more \in Seq(FitRefs(Kind(caller.decl)))
    BY <1>1, <1>4, <1>6, <1>10
  <2>2. fr \in FrameSet /\ fr.decl = caller.decl
    BY <1>4, <1>15, <2>1, CallerFits
  <2>3. fr.calls = Tail(caller.calls) /\ fr.refs = caller.refs \o more
    BY <1>4, <1>15 DEF ReturnedTo, FrameSet
  <2>4. QED
    BY <2>2, <2>3
<1>17. FrameOrigin(fr)
  <2>1. FieldNames(caller.refs \o more) \subseteq FieldNames(caller.refs) \cup FieldNames(more)
    BY <1>7, <1>10, JoinedFields
  <2>2. FieldNames(fr.refs) \subseteq FieldNames(caller.refs) \cup Brings(Head(caller.calls))
    BY <1>1, <1>12, <1>16, <2>1
  <2>3. caller.calls \in Seq(FitCalls(caller.decl)) /\ caller.calls # <<>>
    BY <1>4, <1>6, <1>7
  <2>4. QED
    BY <1>3, <1>5, <1>16, <2>2, <2>3, Advances
<1>18. ReplacedFacts(FrameSet, Below, fr, stack')
  BY <1>4, <1>14, <1>15, <1>16, ReplaceTop
<1>19. PICK k : k = Len(stack) - 1
  OBVIOUS
<1>20. /\ k \in DOMAIN stack' /\ stack'[k] = fr
       /\ \A i \in DOMAIN stack' : i = k \/ (i \in DOMAIN stack /\ stack'[i] = stack[i])
  BY <1>4, <1>18, <1>19 DEF ReplacedFacts
<1>21. TypesOrigin'
  BY <1>2, TypesStay
<1>22. QED
  BY <1>2, <1>14, <1>17, <1>20, <1>21, StackOrigins

LEMMA CreateMemberOrigins ==
  ASSUME RegistryInv, OriginInv, ~NamesClash, CreateMember
  PROVE  OriginInv' /\ phase' = phase
<1>1. /\ phase \in {"register", "extra"} /\ stack # <<>> /\ Top.calls # <<>>
      /\ create_type(Current.decl) /\ program' = program /\ todo' = todo
  BY DEF CreateMember
<1>2. Building /\ Compiles(program)
  BY <1>1, Unbuilt
<1>3. PICK top : top = Top
  OBVIOUS
<1>4. FrameFits(top) /\ FrameOrigin(top) /\ top.calls # <<>> /\ Current = Head(top.calls)
  <2>1. Len(stack) \in Nat \ {0} /\ DOMAIN stack = 1 .. Len(stack) /\ top = stack[Len(stack)]
    BY <1>1, <1>2, <1>3, TopFacts DEF Building, StackTyped, Top
  <2>2. Len(stack) \in DOMAIN stack
    BY <2>1
  <2>3. QED
    BY <1>1, <1>2, <1>3, <2>1, <2>2 DEF Building, StackInv, OriginInv, Current
<1>5. PICK d \in Met : d = Current.decl
  <2>1. top.calls \in Seq(FitCalls(top.decl))
    BY <1>4 DEF FrameFits
  <2>2. Current.decl \in Met
    BY <1>2, <1>4, <2>1, NextCall
  <2>3. QED
    BY <2>2
<1>6. QED
  BY <1>1, <1>2, <1>5, CreateOrigins

LEMMA BeginRootOrigins ==
  ASSUME RegistryInv, OriginInv, ~NamesClash, BeginRoot
  PROVE  OriginInv' /\ phase' = phase
<1>1. /\ phase \in {"register", "extra"} /\ todo # <<>>
      /\ create_type(Head(todo).decl) /\ program' = program /\ todo' = todo
  BY DEF BeginRoot
<1>2. Building /\ Compiles(program) /\ CallsTyped
  BY <1>1, Unbuilt
<1>3. PICK d \in Met : d = Head(todo).decl
  <2>1. PICK S : todo \in Seq(S)
    BY <1>2 DEF CallsTyped
  <2>2. Without(S, todo, Tail(todo))
    BY <1>1, <2>1, TailFacts
  <2>3. 1 \in DOMAIN todo /\ Head(todo) = todo[1]
    BY <2>2 DEF Without
  <2>4. QED
    BY <2>3 DEF OriginInv
<1>4. QED
  BY <1>1, <1>2, <1>3, CreateOrigins

(***************************************************************************)
(* The steps between the roots keep no frame and enter no type.            *)
(***************************************************************************)
LEMMA NoFrameOrigins ==
  ASSUME program' = program, stack' = <<>>, TypesOrigin',
         \A i \in DOMAIN todo' : todo'[i].decl \in Met
  PROVE  OriginInv'
<1>1. Met' = Met
  BY SameOrigins
<1>2. DOMAIN stack' = {}
  OBVIOUS
<1>3. QED
  BY <1>1, <1>2 DEF OriginInv, TypesOrigin

LEMMA EndRootOrigins ==
  ASSUME RegistryInv, OriginInv, EndRoot
  PROVE  OriginInv' /\ phase' = phase
<1>1. /\ phase \in {"register", "extra"} /\ Len(stack) = 1
      /\ stack' = <<>> /\ todo' = Tail(todo)
      /\ program' = program /\ types' = types /\ phase' = phase
  BY DEF EndRoot
<1>2. Building /\ CallsTyped
  BY <1>1, Unbuilt
<1>3. TypesOrigin'
  BY <1>1, TypesStay
<1>4. ASSUME NEW i \in DOMAIN todo' PROVE todo'[i].decl \in Met
  <2>1. stack \in Seq(FrameSet)
    BY <1>2 DEF Building, StackTyped
  <2>2. todo # <<>>
    BY <1>1, <1>2, <2>1, EmptySeq DEF CallsTyped
  <2>3. PICK S : todo \in Seq(S)
    BY <1>2 DEF CallsTyped
  <2>4. Without(S, todo, Tail(todo))
    BY <2>2, <2>3, TailFacts
  <2>5. PICK rest : rest = Tail(todo)
    OBVIOUS
  <2>6. PICK j \in DOMAIN todo : rest[i] = todo[j]
    BY <1>1, <2>4, <2>5 DEF Without
  <2>7. QED
    BY <1>1, <2>5, <2>6 DEF OriginInv
<1>5. QED
  BY <1>1, <1>3, <1>4, NoFrameOrigins

LEMMA RemoveOrigins ==
  ASSUME RegistryInv, OriginInv, remove_unused_types
  PROVE  OriginInv' /\ phase' = "extra"
<1> DEFINE D == DOMAIN types
           next == [n \in D |-> Targets(n) \cap D]
           start == (DirectiveTargets \cup Roots \cup KeyedTypes) \cap D
<1>1. PICK used : used = Reach(next, start)
  OBVIOUS
<1>2. /\ phase = "register" /\ stack = <<>> /\ phase' = "extra" /\ stack' = stack
      /\ types' = [n \in used |-> types[n]] /\ todo' = program.extra /\ program' = program
  BY <1>1 DEF remove_unused_types
<1>3. Building /\ Compiles(program)
  BY <1>2, Unbuilt
<1>4. used \in SUBSET D
  <2>1. IsFiniteSet(D) /\ next \in [D -> SUBSET D] /\ start \in SUBSET D
    BY <1>3 DEF Building, TypesInv
  <2> HIDE DEF D, next, start
  <2>2. QED
    BY <1>1, <2>1, ReachClosed
<1>5. TypesOrigin'
  BY <1>2, <1>4, TypesStay
<1>6. \A i \in DOMAIN todo' : todo'[i].decl \in Met
  BY <1>2, <1>3, MetFacts
<1>7. QED
  BY <1>2, <1>5, <1>6, NoFrameOrigins

LEMMA InitOrigins ==
  ASSUME RegistryInit
  PROVE  OriginInv
<1>1. /\ stack = <<>> /\ types = <<>>
      /\ todo = [i \in DOMAIN program.roots |-> [decl |-> program.roots[i], as |-> "root"]]
  BY DEF RegistryInit
<1>2. Compiles(program)
  BY ProgramsAssumption DEF RegistryInit
<1>3. DOMAIN types = {} /\ DOMAIN stack = {}
  BY <1>1
<1>4. \A i \in DOMAIN todo : todo[i].decl \in Met
  BY <1>1, <1>2, MetFacts
<1>5. QED
  BY <1>3, <1>4 DEF OriginInv

LEMMA StutterOrigins ==
  ASSUME OriginInv, UNCHANGED vars
  PROVE  OriginInv' /\ phase' = phase
<1>1. program' = program /\ todo' = todo /\ stack' = stack /\ types' = types /\ phase' = phase
  BY DEF vars
<1>2. Met' = Met /\ \A f : FrameOrigin(f)' <=> FrameOrigin(f)
  BY <1>1, SameOrigins
<1>3. TypesOrigin'
  BY <1>1, TypesStay
<1>4. ASSUME NEW i \in DOMAIN stack' PROVE FrameOrigin(stack[i])'
  <2>1. PICK f : f = stack'[i]
    OBVIOUS
  <2>2. FrameOrigin(f)
    BY <1>1, <2>1 DEF OriginInv
  <2>3. FrameOrigin(f)'
    BY <1>2, <2>2
  <2>4. QED
    BY <2>1, <2>3
<1>5. \A i \in DOMAIN todo' : todo'[i].decl \in Met'
  BY <1>1, <1>2 DEF OriginInv
<1>6. QED
  BY <1>1, <1>3, <1>4, <1>5 DEF OriginInv, TypesOrigin

(***************************************************************************)
(* A program without a clash keeps the origins through the build and never *)
(* panics: every disjunct of create_type that panics, and extend_fields    *)
(* that finds a field twice, shows two things the program names alike      *)
(* (registry/mod.rs:1546, derive/src/merged_object.rs).                    *)
(***************************************************************************)
PanicInv ==
  NamesClash \/ FieldsClash
    \/ (phase # "panicked" /\ (phase \in {"register", "extra"} => OriginInv))

LEMMA PanicInvKept ==
  ASSUME RegistryInv, PanicInv, [RegistryNext]_vars
  PROVE  PanicInv'
<1>1. CASE UNCHANGED vars
  <2>1. program' = program /\ phase' = phase
    BY <1>1 DEF vars
  <2>2. (NamesClash' <=> NamesClash) /\ (FieldsClash' <=> FieldsClash)
    BY <2>1, SameOrigins
  <2>3. OriginInv => OriginInv'
    BY <1>1, StutterOrigins
  <2>4. QED
    BY <2>1, <2>2, <2>3 DEF PanicInv
<1>2. CASE RegistryNext
  <2>1. program' = program
    BY <1>2 DEF RegistryNext, BeginRoot, EndRoot, CreateMember, CloseType, add_keys, Return,
                remove_unused_types, Finish, Introspect
  <2>2. (NamesClash' <=> NamesClash) /\ (FieldsClash' <=> FieldsClash)
    BY <2>1, SameOrigins
  <2>3. CASE NamesClash \/ FieldsClash
    BY <2>2, <2>3 DEF PanicInv
  <2>4. CASE ~NamesClash /\ ~FieldsClash
    <3>1. phase \in {"register", "extra"} => OriginInv
      BY <2>4 DEF PanicInv
    <3>2. CASE BeginRoot
      <4>1. phase \in {"register", "extra"}
        BY <3>2 DEF BeginRoot
      <4>2. OriginInv' /\ phase' = phase
        BY <2>4, <3>1, <3>2, <4>1, BeginRootOrigins
      <4>3. QED
        BY <4>1, <4>2 DEF PanicInv
    <3>3. CASE EndRoot
      <4>1. phase \in {"register", "extra"}
        BY <3>3 DEF EndRoot
      <4>2. OriginInv' /\ phase' = phase
        BY <3>1, <3>3, <4>1, EndRootOrigins
      <4>3. QED
        BY <4>1, <4>2 DEF PanicInv
    <3>4. CASE CreateMember
      <4>1. phase \in {"register", "extra"}
        BY <3>4 DEF CreateMember
      <4>2. OriginInv' /\ phase' = phase
        BY <2>4, <3>1, <3>4, <4>1, CreateMemberOrigins
      <4>3. QED
        BY <4>1, <4>2 DEF PanicInv
    <3>5. CASE CloseType
      <4>1. phase \in {"register", "extra"}
        BY <3>5 DEF CloseType
      <4>2. OriginInv' /\ phase' = phase
        BY <3>1, <3>5, <4>1, CloseOrigins
      <4>3. QED
        BY <4>1, <4>2 DEF PanicInv
    <3>6. CASE add_keys
      <4>1. phase \in {"register", "extra"}
        BY <3>6 DEF add_keys
      <4>2. OriginInv' /\ phase' = phase
        BY <3>1, <3>6, <4>1, AddKeysOrigins
      <4>3. QED
        BY <4>1, <4>2 DEF PanicInv
    <3>7. CASE Return
      <4>1. phase \in {"register", "extra"}
        BY <3>7 DEF Return
      <4>2. OriginInv' /\ phase' = phase
        BY <2>4, <3>1, <3>7, <4>1, ReturnOrigins
      <4>3. QED
        BY <4>1, <4>2 DEF PanicInv
    <3>8. CASE remove_unused_types
      <4>1. phase = "register"
        BY <3>8 DEF remove_unused_types
      <4>2. OriginInv' /\ phase' = "extra"
        BY <3>1, <3>8, <4>1, RemoveOrigins
      <4>3. QED
        BY <4>2 DEF PanicInv
    <3>9. CASE Finish
      <4>1. phase' = "built"
        BY <3>9 DEF Finish
      <4>2. QED
        BY <4>1 DEF PanicInv
    <3>10. CASE \E hidden \in HiddenSets : Introspect(hidden)
      <4>1. phase' = "built"
        BY <3>10 DEF Introspect
      <4>2. QED
        BY <4>1 DEF PanicInv
    <3>11. QED
      BY <1>2, <3>2, <3>3, <3>4, <3>5, <3>6, <3>7, <3>8, <3>9, <3>10 DEF RegistryNext
  <2>5. QED
    BY <2>3, <2>4
<1>3. QED
  BY <1>1, <1>2

(***************************************************************************)
(* The build of a schema panics only for a program that names two things   *)
(* alike (the panics of create_type, registry/mod.rs:1546, and of a merged *)
(* object that has a field twice).                                         *)
(***************************************************************************)
THEOREM PanicsExplained == Spec => []PanicsOnlyOnClash
<1>1. RegistryInit => PanicInv
  <2> SUFFICES ASSUME RegistryInit PROVE PanicInv
    OBVIOUS
  <2>1. OriginInv
    BY InitOrigins
  <2>2. phase = "register"
    BY DEF RegistryInit
  <2>3. QED
    BY <2>1, <2>2 DEF PanicInv
<1>2. RegistryInv /\ PanicInv /\ [RegistryNext]_vars => PanicInv'
  BY PanicInvKept
<1>3. PanicInv => PanicsOnlyOnClash
  BY DEF PanicInv, PanicsOnlyOnClash
<1>4. QED
  BY <1>1, <1>2, <1>3, RegistryInvariant, PTL DEF Spec

(***************************************************************************)
(* The entities of the query root and of its parts are served              *)
(* (add_keys, registry/mod.rs:1677; entity_possible_types, :1770).         *)
(*                                                                         *)
(* A key is lost when it is added to a type under construction: the        *)
(* finished type replaces the one that has it.  It is not here, because    *)
(* the entity resolvers of the query root are the last calls of the        *)
(* outermost frame, and those of a part the last calls of the frame above  *)
(* it: no other type is under construction.  The invariant follows each    *)
(* key from the call that is owed to the type that has it; until the query *)
(* root is registered its frame is the first of the stack.                 *)
(***************************************************************************)
NameOf(e) == Decl(e).name

KeyCall(e) == [op |-> "key", decl |-> e]

\* no frame is still constructing the type n
Unopened(n) == \A i \in DOMAIN stack : stack[i].name = n => ~Pending(stack[i])

Made(e) == NameOf(e) \in DOMAIN types /\ types[NameOf(e)].kind = Kind(e)

HasKey(n, key) == n \in DOMAIN keys /\ \E i \in DOMAIN keys[n] : keys[n][i] = key

Settled(e) == Made(e) /\ Unopened(NameOf(e)) /\ HasKey(NameOf(e), "entity")

\* the calls add the key of e after they created its type and closed their own
OwedIn(calls, e) ==
  \E i \in DOMAIN calls :
    /\ calls[i] = KeyCall(e)
    /\ \A j \in DOMAIN calls : j > i => calls[j].op # "close"
    /\ Made(e) \/ \E j \in DOMAIN calls : j < i /\ calls[j].op = "create" /\ calls[j].decl = e

\* the query root has the part p still to create, or the frame above it is that of p
OwedByPart(p, e) ==
  \E i \in DOMAIN stack[1].calls :
    /\ stack[1].calls[i].op = "create" /\ stack[1].calls[i].decl = p
    /\ i = 1 /\ Len(stack) > 1 => OwedIn(stack[2].calls, e)

QueryParts == Range(Decl(QueryDecl).parts)

RootOpen ==
  /\ stack # <<>> /\ stack[1].decl = QueryDecl
  /\ \A e \in FoundEntities(QueryDecl) : Settled(e) \/ OwedIn(stack[1].calls, e)
  /\ \A p \in QueryParts : \A e \in FoundEntities(p) : Settled(e) \/ OwedByPart(p, e)

AllSettled == \A e \in EntityDecls : Settled(e)

RootMade == NameOf(QueryDecl) \in DOMAIN types /\ types[NameOf(QueryDecl)].kind = "Object"

NotBegun ==
  /\ phase = "register" /\ stack = <<>> /\ types = <<>> /\ keys = <<>>
  /\ todo # <<>> /\ Head(todo).decl = QueryDecl

\* a type is marked unresolvable by the declaration it was made from
KeysTrue ==
  \A n \in DOMAIN types :
    Unopened(n) /\ types[n].kind = "Object" /\ HasKey(n, "unresolvable") =>
      \E d \in Decls : Decl(d).unresolvable /\ MadeFrom(n, d)

KeysInv == KeysTrue /\ (NotBegun \/ (RootMade /\ (RootOpen \/ AllSettled)))

EntityInv ==
  /\ phase # "built" => KeysInv
  /\ EntitiesServed

(***************************************************************************)
(* The declarations do not change, and an entity is an object or an        *)
(* interface with a name of its own.                                       *)
(***************************************************************************)
LEMMA SameEntities ==
  ASSUME program' = program
  PROVE  /\ QueryDecl' = QueryDecl /\ QueryParts' = QueryParts /\ EntityDecls' = EntityDecls
         /\ \A d : FoundEntities(d)' = FoundEntities(d)
         /\ \A d : NameOf(d)' = NameOf(d) /\ Kind(d)' = Kind(d) /\ Decl(d)' = Decl(d)
<1>1. \A d : Decl(d)' = Decl(d) /\ Kind(d)' = Kind(d)
  BY SameProgram
<1>2. ScalarNames' = ScalarNames
  BY SameProgram
<1>3. QueryDecl' = QueryDecl
  BY DEF QueryDecl
<1>4. \A d : NameOf(d)' = NameOf(d)
  BY <1>1 DEF NameOf
<1>5. \A d : FoundEntities(d)' = FoundEntities(d)
  BY <1>1, <1>2, <1>3 DEF FoundEntities
<1>6. QueryParts' = QueryParts
  BY <1>1, <1>3 DEF QueryParts
<1>7. EntityDecls' = EntityDecls
  BY <1>1, <1>3, <1>5 DEF EntityDecls
<1>8. QED
  BY <1>1, <1>3, <1>4, <1>5, <1>6, <1>7

LEMMA EntityFacts ==
  ASSUME Compiles(program), NEW d \in Decls, NEW e \in FoundEntities(d)
  PROVE  /\ e \in Decls /\ Kind(e) \in {"Object", "Interface"}
         /\ NameOf(e) \in AllNames \ {Entity, Service}
         /\ NameOf(e) \notin ScalarNames /\ NameOf(e) # NameOf(QueryDecl)
         /\ \E i \in DOMAIN Decl(d).entities : Decl(d).entities[i] = e
<1>1. PICK es, S : es = Decl(d).entities /\ S = DeclsOf(program, {"Object", "Interface"})
  OBVIOUS
<1>2. es \in Seq(S)
  BY <1>1, DeclFacts DEF DeclSet
<1>3. S \subseteq Decls /\ \A x \in S : Kind(x) \in {"Object", "Interface"}
  BY <1>1, DeclsOfKind
<1>4. PICK i \in DOMAIN es : es[i] = e
  BY <1>1 DEF FoundEntities, Range
<1>5. e \in S
  BY <1>2, <1>4
<1>6. NameOf(e) \in AllNames \ {Entity, Service}
  BY <1>3, <1>5, DeclFacts DEF NameOf
<1>7. QED
  BY <1>1, <1>3, <1>4, <1>5, <1>6 DEF FoundEntities, NameOf

LEMMA RootFacts ==
  ASSUME Compiles(program)
  PROVE  /\ QueryDecl \in Decls /\ Kind(QueryDecl) = "Object"
         /\ 1 \in DOMAIN program.roots
         /\ QueryParts \subseteq Decls
         /\ \A e \in EntityDecls : \E d \in {QueryDecl} \cup QueryParts : e \in FoundEntities(d)
<1>1. PICK roots, S : roots = program.roots /\ S = DeclsOf(program, {"Object"})
  OBVIOUS
<1>2. roots \in Seq(S) /\ roots # <<>>
  BY <1>1 DEF Compiles
<1>3. 1 \in DOMAIN roots /\ roots[1] \in S
  <2>1. Without(S, roots, Tail(roots))
    BY <1>2, TailFacts
  <2>2. QED
    BY <1>2, <2>1 DEF Without
<1>4. S \subseteq Decls /\ \A x \in S : Kind(x) = "Object"
  BY <1>1, DeclsOfKind
<1>5. QueryDecl \in Decls /\ Kind(QueryDecl) = "Object"
  BY <1>1, <1>3, <1>4 DEF QueryDecl
<1>6. Decl(QueryDecl).parts \in Seq(S)
  BY <1>1, <1>5, DeclFacts DEF DeclSet
<1>7. QueryParts \subseteq Decls
  BY <1>4, <1>6 DEF QueryParts, Range
<1>8. \A e \in EntityDecls : \E d \in {QueryDecl} \cup QueryParts : e \in FoundEntities(d)
  BY DEF EntityDecls, QueryParts
<1>9. QED
  BY <1>1, <1>3, <1>5, <1>7, <1>8

(***************************************************************************)
(* A constructor owes each entity its key, and each call that is made      *)
(* leaves what is owed or adds the key to the type that has been created.  *)
(***************************************************************************)
LEMMA EntityCallsOwe ==
  ASSUME Compiles(program), NEW d \in Decls, NEW e \in FoundEntities(d)
  PROVE  OwedIn(EntityCalls(d), e) /\ OwedIn(Constructor(d), e)
<1>1. PICK i \in DOMAIN Decl(d).entities : Decl(d).entities[i] = e
  BY EntityFacts
<1>2. PICK es, n : es = Decl(d).entities /\ n = Len(es)
  OBVIOUS
<1>3. /\ n \in Nat /\ DOMAIN es = 1 .. n /\ i \in 1 .. n /\ es[i] = e
      /\ es \in Seq(DeclsOf(program, {"Object", "Interface"}))
  <2>1. es \in Seq(DeclsOf(program, {"Object", "Interface"}))
    BY <1>2, DeclFacts DEF DeclSet
  <2>2. QED
    BY <1>1, <1>2, <2>1, LenProperties
<1> DEFINE creates == [j \in DOMAIN es |-> Call(es[j], "none", <<>>, {})]
           adds == [j \in DOMAIN es |-> KeyCall(es[j])]
           V == {creates[j] : j \in DOMAIN es} \cup {adds[j] : j \in DOMAIN es}
<1>4. PICK calls : calls = EntityCalls(d)
  OBVIOUS
<1>5. calls = creates \o adds
  BY <1>2, <1>4 DEF EntityCalls, KeyCall
<1>6. creates \in Seq(V) /\ adds \in Seq(V) /\ Len(creates) = n /\ Len(adds) = n
  <2>1. es \in Seq(DeclsOf(program, {"Object", "Interface"}))
    BY <1>3
  <2>2. creates = [j \in DOMAIN es |-> creates[j]] /\ adds = [j \in DOMAIN es |-> adds[j]]
    OBVIOUS
  <2>3. \A j \in DOMAIN es : creates[j] \in V /\ adds[j] \in V
    OBVIOUS
  <2>4. DOMAIN creates = 1 .. n /\ DOMAIN adds = 1 .. n
    BY <1>3
  <2> HIDE DEF V, creates, adds
  <2>5. creates \in Seq(V) /\ adds \in Seq(V)
    BY <2>1, <2>2, <2>3, SeqOfValues
  <2>6. QED
    BY <1>3, <2>4, <2>5, LenProperties
<1>7. creates[i] = Call(e, "none", <<>>, {}) /\ adds[i] = KeyCall(e)
  BY <1>3
<1>8. \A v \in V : v.op # "close"
  BY DEF Call, KeyCall
<1> HIDE DEF V, creates, adds
<1>9. Placed(V, creates, adds, calls)
  BY <1>5, <1>6, ConcatPlaces
<1>10. /\ DOMAIN calls = 1 .. n + n /\ Len(calls) = n + n
       /\ calls[i] = Call(e, "none", <<>>, {}) /\ calls[n + i] = KeyCall(e)
       /\ \A j \in 1 .. n + n : calls[j].op # "close"
  <2>1. \A j \in 1 .. n + n : calls[j] \in V
    BY <1>6, <1>9 DEF Placed
  <2>2. QED
    BY <1>3, <1>6, <1>7, <1>8, <1>9, <2>1 DEF Placed
<1>11. i \in 1 .. n + n /\ n + i \in 1 .. n + n /\ i < n + i
  BY <1>3
<1>12. calls[i].op = "create" /\ calls[i].decl = e
  BY <1>10 DEF Call
<1>13. OwedIn(calls, e)
  BY <1>10, <1>11, <1>12 DEF OwedIn
<1>14. PICK all, m : all = Constructor(d) /\ m = Len(MemberCalls(d)) + 1
  OBVIOUS
<1>15. m \in Nat /\ DOMAIN all = 1 .. m + (n + n) /\ \A j \in 1 .. n + n : all[m + j] = calls[j]
  <2>1. ByPlace(d, MemberCalls(d), calls, all)
    BY <1>4, <1>14, ConstructorPlaces
  <2>2. PICK l \in Nat : l = Len(MemberCalls(d))
    BY ConstructorFits, LenProperties
  <2>3. m = l + 1 /\ Len(calls) = n + n
    BY <1>10, <1>14, <2>2
  <2>4. /\ DOMAIN all = 1 .. l + 1 + (n + n)
        /\ \A j \in 1 .. n + n : all[l + 1 + j] = calls[j]
    BY <2>1, <2>2, <2>3 DEF ByPlace
  <2>5. m \in Nat
    BY <2>2, <2>3
  <2>6. DOMAIN all = 1 .. m + (n + n) /\ \A j \in 1 .. n + n : all[m + j] = calls[j]
    <3>1. m = l + 1
      BY <2>3
    <3>2. QED
      BY <2>4, <3>1, Zenon
  <2>7. QED
    BY <2>5, <2>6, Zenon
<1>16. OwedIn(all, e)
  <2>1. m + (n + i) \in DOMAIN all /\ all[m + (n + i)] = KeyCall(e)
    BY <1>3, <1>10, <1>11, <1>15
  <2>2. m + i \in DOMAIN all /\ m + i < m + (n + i) /\ all[m + i] = calls[i]
    BY <1>3, <1>11, <1>15
  <2>3. ASSUME NEW j \in DOMAIN all, j > m + (n + i) PROVE all[j].op # "close"
    <3>1. j - m \in 1 .. n + n /\ j = m + (j - m)
      BY <1>3, <1>15, <2>3
    <3>2. all[j] = calls[j - m]
      BY <1>15, <3>1
    <3>3. QED
      BY <1>10, <3>1, <3>2
  <2>4. QED
    BY <1>12, <2>1, <2>2, <2>3 DEF OwedIn
<1>17. QED
  BY <1>4, <1>13, <1>14, <1>16

LEMMA OwedStays ==
  ASSUME NEW calls, NEW e, OwedIn(calls, e), Made(e) => Made(e)'
  PROVE  OwedIn(calls, e)'
<1>1. KeyCall(e)' = KeyCall(e)
  BY DEF KeyCall
<1>2. QED
  BY <1>1 DEF OwedIn

LEMMA OwedTail ==
  ASSUME NEW S, NEW calls \in Seq(S), calls # <<>>, NEW rest, rest = Tail(calls),
         NEW e, OwedIn(calls, e), Made(e) => Made(e)',
         Head(calls).op = "create" /\ Head(calls).decl = e => Made(e)'
  PROVE  \/ OwedIn(rest, e)'
         \/ /\ Head(calls) = KeyCall(e) /\ Made(e)
            /\ \A j \in DOMAIN calls : calls[j].op # "close"
<1>1. PICK n : n = Len(calls)
  OBVIOUS
<1>2. /\ n \in Nat \ {0} /\ DOMAIN calls = 1 .. n /\ DOMAIN rest = 1 .. n - 1
      /\ Head(calls) = calls[1] /\ \A j \in 1 .. n - 1 : rest[j] = calls[j + 1]
  <2>1. /\ rest \in Seq(S) /\ Len(rest) = Len(calls) - 1
        /\ \A j \in 1 .. Len(rest) : rest[j] = calls[j + 1]
    BY HeadTailProperties
  <2>2. Without(S, calls, rest)
    BY TailFacts
  <2>3. Len(calls) \in Nat \ {0} /\ DOMAIN calls = 1 .. Len(calls) /\ DOMAIN rest = 1 .. Len(rest)
    BY <2>1, LenProperties, EmptySeq
  <2>4. QED
    BY <1>1, <2>1, <2>2, <2>3 DEF Without
<1>3. PICK i \in 1 .. n :
         /\ calls[i] = KeyCall(e) /\ \A j \in 1 .. n : j > i => calls[j].op # "close"
         /\ Made(e) \/ \E j \in 1 .. n : j < i /\ calls[j].op = "create" /\ calls[j].decl = e
  BY <1>2 DEF OwedIn
<1>4. CASE i = 1
  <2>1. Made(e)
    BY <1>2, <1>3, <1>4
  <2>2. calls[1].op # "close"
    BY <1>3, <1>4 DEF KeyCall
  <2>3. \A j \in 1 .. n : calls[j].op # "close"
    BY <1>2, <1>3, <1>4, <2>2
  <2>4. QED
    BY <1>2, <1>3, <1>4, <2>1, <2>3
<1>5. CASE i # 1
  <2>1. i - 1 \in 1 .. n - 1 /\ rest[i - 1] = calls[i]
    BY <1>2, <1>5
  <2>2. ASSUME NEW j \in 1 .. n - 1, j > i - 1 PROVE rest[j].op # "close"
    <3>1. j + 1 \in 1 .. n /\ j + 1 > i
      BY <1>2, <2>2
    <3>2. QED
      BY <1>2, <1>3, <3>1
  <2>3. Made(e)' \/ \E j \in 1 .. n - 1 : j < i - 1 /\ rest[j].op = "create" /\ rest[j].decl = e
    <3>1. CASE Made(e)
      BY <3>1
    <3>2. CASE ~Made(e)
      <4>1. PICK j \in 1 .. n : j < i /\ calls[j].op = "create" /\ calls[j].decl = e
        BY <1>3, <3>2
      <4>2. CASE j = 1
        BY <1>2, <4>1, <4>2
      <4>3. CASE j # 1
        <5>1. j - 1 \in 1 .. n - 1 /\ j - 1 < i - 1 /\ rest[j - 1] = calls[j]
          BY <1>2, <4>1, <4>3
        <5>2. QED
          BY <4>1, <5>1
      <4>4. QED
        BY <4>2, <4>3
    <3>3. QED
      BY <3>1, <3>2
  <2>4. KeyCall(e)' = KeyCall(e)
    BY DEF KeyCall
  <2>5. OwedIn(rest, e)'
    BY <1>2, <1>3, <2>1, <2>2, <2>3, <2>4 DEF OwedIn
  <2>6. QED
    BY <2>5
<1>6. QED
  BY <1>4, <1>5

(***************************************************************************)
(* What a step keeps of a type that is no input object, and with it the    *)
(* keys that were added to it.                                             *)
(***************************************************************************)
NameStays(n) ==
  /\ n \in DOMAIN types' /\ types'[n].kind = types[n].kind /\ types'[n].rust = types[n].rust
  /\ Unopened(n) => (Unopened(n)' /\ (HasKey(n, "entity") => HasKey(n, "entity")'))

StepKeeps == \A n \in DOMAIN types : types[n].kind # "InputObject" => NameStays(n)

LEMMA SettledStays ==
  ASSUME program' = program, StepKeeps, NEW e, Kind(e) # "InputObject"
  PROVE  (Made(e) => Made(e)') /\ (Settled(e) => Settled(e)')
<1>1. PICK n, kind : n = NameOf(e) /\ kind = Kind(e)
  OBVIOUS
<1>2. NameOf(e)' = n /\ Kind(e)' = kind
  BY <1>1, SameEntities
<1>3. ASSUME Made(e) PROVE Made(e)' /\ NameStays(n)
  <2>1. n \in DOMAIN types /\ types[n].kind = kind /\ kind # "InputObject"
    BY <1>1, <1>3 DEF Made
  <2>2. NameStays(n)
    BY <2>1 DEF StepKeeps
  <2>3. Made(e)'
    BY <1>2, <2>1, <2>2 DEF Made, NameStays
  <2>4. QED
    BY <2>2, <2>3
<1>4. ASSUME Settled(e) PROVE Settled(e)'
  <2>1. Made(e) /\ Unopened(n) /\ HasKey(n, "entity")
    BY <1>1, <1>4 DEF Settled
  <2>2. Made(e)' /\ Unopened(n)' /\ HasKey(n, "entity")'
    BY <1>3, <2>1 DEF NameStays
  <2>3. Unopened(NameOf(e))' /\ HasKey(NameOf(e), "entity")'
    BY <1>2, <2>2 DEF Unopened, HasKey
  <2>4. QED
    BY <2>2, <2>3 DEF Settled
<1>5. QED
  BY <1>3, <1>4

LEMMA EntitiesStay ==
  ASSUME program' = program, Compiles(program), StepKeeps, NEW d \in Decls, NEW e \in FoundEntities(d)
  PROVE  (Made(e) => Made(e)') /\ (Settled(e) => Settled(e)')
<1>1. Kind(e) \in {"Object", "Interface"}
  BY EntityFacts
<1>2. QED
  BY <1>1, SettledStays

LEMMA KeysTrueStays ==
  ASSUME program' = program, KeysTrue,
         \A n \in DOMAIN types' :
           types'[n].kind = "Object" /\ Unopened(n)' /\ HasKey(n, "unresolvable")' =>
             \/ /\ n \in DOMAIN types /\ types[n].kind = "Object" /\ types'[n].rust = types[n].rust
                /\ Unopened(n) /\ HasKey(n, "unresolvable")
             \/ \E d \in Decls : /\ Decl(d).unresolvable /\ types'[n].rust = Decl(d).rust
                                 /\ types'[n].kind = Kind(d)
  PROVE  KeysTrue'
<1>1. Decls' = Decls /\ \A d : Decl(d)' = Decl(d) /\ Kind(d)' = Kind(d)
  BY SameProgram
<1>2. ASSUME NEW n \in DOMAIN types', types'[n].kind = "Object", Unopened(n)', HasKey(n, "unresolvable")'
      PROVE  \E d \in Decls : /\ Decl(d).unresolvable /\ types'[n].rust = Decl(d).rust
                              /\ types'[n].kind = Kind(d)
  <2>1. CASE /\ n \in DOMAIN types /\ types[n].kind = "Object" /\ types'[n].rust = types[n].rust
             /\ Unopened(n) /\ HasKey(n, "unresolvable")
    <3>1. PICK d \in Decls : Decl(d).unresolvable /\ MadeFrom(n, d)
      BY <2>1 DEF KeysTrue
    <3>2. types'[n].rust = Decl(d).rust /\ types'[n].kind = Kind(d)
      BY <1>2, <2>1, <3>1 DEF MadeFrom
    <3>3. QED
      BY <3>1, <3>2
  <2>2. QED
    BY <1>2, <2>1
<1>3. ASSUME NEW n \in DOMAIN types', (Unopened(n) /\ types[n].kind = "Object" /\ HasKey(n, "unresolvable"))'
      PROVE  (\E d \in Decls : Decl(d).unresolvable /\ MadeFrom(n, d))'
  <2>1. PICK d \in Decls : Decl(d).unresolvable /\ types'[n].rust = Decl(d).rust /\ types'[n].kind = Kind(d)
    BY <1>2, <1>3
  <2>2. d \in Decls' /\ Decl(d)'.unresolvable /\ MadeFrom(n, d)'
    BY <1>1, <2>1 DEF MadeFrom
  <2>3. QED
    BY <2>2
<1>4. QED
  BY <1>3 DEF KeysTrue

LEMMA RootMadeStays ==
  ASSUME program' = program, RootMade, StepKeeps
  PROVE  RootMade'
<1>1. PICK n : n = NameOf(QueryDecl)
  OBVIOUS
<1>2. QueryDecl' = QueryDecl /\ NameOf(QueryDecl)' = n
  BY <1>1, SameEntities DEF NameOf
<1>3. n \in DOMAIN types /\ types[n].kind = "Object"
  BY <1>1 DEF RootMade
<1>4. NameStays(n)
  BY <1>3 DEF StepKeeps
<1>5. QED
  BY <1>2, <1>3, <1>4 DEF RootMade, NameStays

(***************************************************************************)
(* What must be shown of a step while the query root is registered, and    *)
(* afterwards.                                                             *)
(***************************************************************************)
FirstFramesStay ==
  /\ stack' # <<>> /\ stack'[1].decl = stack[1].decl
  /\ \A e \in FoundEntities(QueryDecl) :
       OwedIn(stack[1].calls, e) => Settled(e)' \/ OwedIn(stack[1].calls, e)'
  /\ \A p \in QueryParts : \A e \in FoundEntities(p) :
       OwedByPart(p, e) => Settled(e)' \/ OwedByPart(p, e)'

LEMMA OpenStays ==
  ASSUME program' = program, Compiles(program), StepKeeps, RootOpen, FirstFramesStay
  PROVE  RootOpen'
<1>1. /\ QueryDecl' = QueryDecl /\ QueryParts' = QueryParts
      /\ \A d : FoundEntities(d)' = FoundEntities(d)
  BY SameEntities
<1>2. QueryDecl \in Decls /\ QueryParts \subseteq Decls
  BY RootFacts
<1>3. ASSUME NEW e \in FoundEntities(QueryDecl) PROVE Settled(e)' \/ OwedIn(stack[1].calls, e)'
  <2>1. Settled(e) \/ OwedIn(stack[1].calls, e)
    BY DEF RootOpen
  <2>2. Settled(e) => Settled(e)'
    BY <1>2, EntitiesStay
  <2>3. QED
    BY <2>1, <2>2 DEF FirstFramesStay
<1>4. ASSUME NEW p \in QueryParts, NEW e \in FoundEntities(p) PROVE Settled(e)' \/ OwedByPart(p, e)'
  <2>1. Settled(e) \/ OwedByPart(p, e)
    BY DEF RootOpen
  <2>2. Settled(e) => Settled(e)'
    BY <1>2, EntitiesStay
  <2>3. QED
    BY <2>1, <2>2 DEF FirstFramesStay
<1>5. stack' # <<>> /\ stack'[1].decl = QueryDecl
  BY DEF RootOpen, FirstFramesStay
<1>6. \A e \in FoundEntities(QueryDecl)' : (Settled(e) \/ OwedIn(stack[1].calls, e))'
  <2>1. FoundEntities(QueryDecl)' = FoundEntities(QueryDecl)
    BY <1>1 DEF FoundEntities
  <2>2. QED
    BY <1>3, <2>1
<1>7. \A p \in QueryParts' : \A e \in FoundEntities(p)' : (Settled(e) \/ OwedByPart(p, e))'
  BY <1>1, <1>4
<1>8. QED
  BY <1>1, <1>5, <1>6, <1>7 DEF RootOpen

LEMMA AllSettledStays ==
  ASSUME program' = program, Compiles(program), StepKeeps, AllSettled
  PROVE  AllSettled'
<1>1. EntityDecls' = EntityDecls
  BY SameEntities
<1>2. ASSUME NEW e \in EntityDecls PROVE Settled(e)'
  <2>1. PICK d \in Decls : e \in FoundEntities(d)
    BY RootFacts
  <2>2. Settled(e)
    BY DEF AllSettled
  <2>3. QED
    BY <2>1, <2>2, EntitiesStay
<1>3. QED
  BY <1>1, <1>2 DEF AllSettled

LEMMA KeysInvStays ==
  ASSUME program' = program, Compiles(program), KeysInv, ~NotBegun, StepKeeps, KeysTrue',
         RootOpen => FirstFramesStay
  PROVE  KeysInv'
<1>1. RootMade /\ (RootOpen \/ AllSettled)
  BY DEF KeysInv
<1>2. RootMade'
  BY <1>1, RootMadeStays
<1>3. RootOpen' \/ AllSettled'
  BY <1>1, OpenStays, AllSettledStays
<1>4. QED
  BY <1>2, <1>3 DEF KeysInv

(***************************************************************************)
(* create_type panics, calls the entity resolvers of a type it finds, or   *)
(* opens a new type, of which only an input object can make way.           *)
(***************************************************************************)
Opens(fr) ==
  /\ Pending(fr) /\ KeepsTypes({fr.name})
  /\ fr.name \in DOMAIN types => types[fr.name].kind = "InputObject"
  /\ \A m \in DOMAIN types' : m \in DOMAIN types \/ m = fr.name \/ types'[m].kind = "InputObject"

CreatesFrame(fr) ==
  /\ fr.calls \in {Constructor(fr.decl), EntityCalls(fr.decl)}
  /\ (types' = types /\ ~Pending(fr)) \/ Opens(fr)

LEMMA InsertOpens ==
  ASSUME Compiles(program), NEW d \in Decls, NEW n \in AllNames, n \notin DOMAIN types,
         types' = Insert(types, n, create_fake_type(d))
  PROVE  LET fr == Frame(d, n, Constructor(d)) IN fr \in FrameSet /\ fr.decl = d /\ CreatesFrame(fr)
<1>1. PICK fr : fr = Frame(d, n, Constructor(d))
  OBVIOUS
<1>2. fr \in FrameSet /\ Pending(fr) /\ fr.decl = d /\ fr.name = n /\ fr.calls = Constructor(d)
  <2>1. fr \in FrameSet /\ Pending(fr)
    BY <1>1, NewFrame
  <2>2. QED
    BY <1>1, <2>1 DEF Frame
<1>3. DOMAIN types' = DOMAIN types \cup {n} /\ \A m \in DOMAIN types : types'[m] = types[m]
  BY DEF Insert
<1>4. Opens(fr)
  BY <1>2, <1>3 DEF Opens, KeepsTypes
<1>5. QED
  BY <1>1, <1>2, <1>4 DEF CreatesFrame

LEMMA ReuseCreates ==
  ASSUME Compiles(program), NEW d \in Decls, NEW n \in AllNames, types' = types
  PROVE  LET fr == Frame(d, n, EntityCalls(d)) IN fr \in FrameSet /\ fr.decl = d /\ CreatesFrame(fr)
<1>1. PICK fr : fr = Frame(d, n, EntityCalls(d))
  OBVIOUS
<1>2. fr \in FrameSet /\ ~Pending(fr)
  BY <1>1, NewFrame
<1>3. fr.decl = d /\ fr.calls = EntityCalls(d)
  BY <1>1 DEF Frame
<1>4. QED
  BY <1>1, <1>2, <1>3 DEF CreatesFrame

LEMMA RenameOpens ==
  ASSUME Compiles(program), Building, NEW d \in Decls,
         NEW n \in DOMAIN types, types[n].kind = "InputObject",
         types' = Insert(rename_conflicting_input_object(n), n, create_fake_type(d))
  PROVE  LET fr == Frame(d, n, Constructor(d)) IN fr \in FrameSet /\ fr.decl = d /\ CreatesFrame(fr)
<1>1. PICK fr : fr = Frame(d, n, Constructor(d))
  OBVIOUS
<1>2. fr \in FrameSet /\ Pending(fr) /\ fr.decl = d /\ fr.name = n /\ fr.calls = Constructor(d)
  <2>1. n \in AllNames
    BY DEF Building, TypesTyped
  <2>2. fr \in FrameSet /\ Pending(fr)
    BY <1>1, <2>1, NewFrame
  <2>3. QED
    BY <1>1, <2>2 DEF Frame
<1>3. PICK fake, to : fake = create_fake_type(d) /\ to = unused_input_object_name(n, DOMAIN types)
  OBVIOUS
<1>4. RenamedMap(types', n, to, fake)
  BY <1>3, RenamedTypes DEF Building
<1>5. ASSUME NEW m \in DOMAIN types, m # n
      PROVE  types'[m].kind = types[m].kind /\ types'[m].rust = types[m].rust
  <2>1. PICK refs : refs = rename_input_type_references_in_type(types[m].refs, n, to)
    OBVIOUS
  <2>2. types'[m] = [types[m] EXCEPT !.refs = refs]
    BY <1>4, <1>5, <2>1 DEF RenamedMap
  <2>3. types[m] \in TypeSet
    BY DEF Building, TypesTyped
  <2>4. QED
    BY <2>2, <2>3 DEF TypeSet
<1>6. types'[to].kind = "InputObject"
  <2>1. PICK refs : refs = rename_input_type_references_in_type(types[n].refs, n, to)
    OBVIOUS
  <2>2. types'[to] = [types[n] EXCEPT !.name = to, !.refs = rename_input_type_references_in_type(@, n, to)]
    BY <1>4 DEF RenamedMap
  <2>3. types[n] \in TypeSet
    BY DEF Building, TypesTyped
  <2>4. types'[to] = [types[n] EXCEPT !.name = to, !.refs = refs]
    BY <2>1, <2>2
  <2>5. QED
    BY <2>3, <2>4 DEF TypeSet
<1>7. DOMAIN types' = DOMAIN types \cup {to}
  BY <1>4 DEF RenamedMap
<1>8. Opens(fr)
  BY <1>2, <1>5, <1>6, <1>7 DEF Opens, KeepsTypes
<1>9. QED
  BY <1>1, <1>2, <1>8 DEF CreatesFrame

LEMMA CreateOutcome ==
  ASSUME Compiles(program), Building, NEW d \in Decls, create_type(d)
  PROVE  \/ phase' = "panicked" /\ types' = types /\ stack' = stack
         \/ \E fr \in FrameSet : stack' = Append(stack, fr) /\ fr.decl = d /\ phase' = phase /\ CreatesFrame(fr)
<1> DEFINE name == Decl(d).name
           Good == \E fr \in FrameSet :
                     stack' = Append(stack, fr) /\ fr.decl = d /\ phase' = phase /\ CreatesFrame(fr)
<1>1. name \in AllNames
  BY DeclFacts
<1>2. ASSUME NEW n \in AllNames, Reuse(d, n) PROVE Good
  BY <1>2, ReuseCreates DEF Reuse, Push
<1>3. ASSUME NEW n \in AllNames, n \notin DOMAIN types, CreateNew(d, types, n) PROVE Good
  BY <1>3, InsertOpens DEF CreateNew, Push
<1>4. ASSUME Panic PROVE phase' = "panicked" /\ types' = types /\ stack' = stack
  BY <1>4 DEF Panic
<1>5. ASSUME name \in DOMAIN types, types[name].kind = "InputObject",
             CreateNew(d, rename_conflicting_input_object(name), name)
      PROVE  Good
  BY <1>5, RenameOpens DEF CreateNew, Push
<1>6. ASSUME registered_input_object_name(Decl(d).rust) # {},
             Reuse(d, CHOOSE n \in registered_input_object_name(Decl(d).rust) : TRUE)
      PROVE  Good
  <2>1. PICK n \in registered_input_object_name(Decl(d).rust) : Reuse(d, n)
    BY <1>6
  <2>2. n \in AllNames
    BY DEF registered_input_object_name, Building, TypesTyped
  <2>3. QED
    BY <1>2, <2>1, <2>2
<1>7. ASSUME CreateNew(d, types, unused_input_object_name(name, DOMAIN types)) PROVE Good
  <2>1. PICK n : n = unused_input_object_name(name, DOMAIN types)
    OBVIOUS
  <2>2. n \in AllNames /\ n \notin DOMAIN types
    BY <1>1, <2>1, UnusedName DEF Building, TypesInv
  <2>3. QED
    BY <1>3, <1>7, <2>1, <2>2
<1> HIDE DEF Good
<1>8. (phase' = "panicked" /\ types' = types /\ stack' = stack) \/ Good
  <2>1. Reuse(d, name) => Good
    BY <1>1, <1>2
  <2>2. name \notin DOMAIN types /\ CreateNew(d, types, name) => Good
    BY <1>1, <1>3
  <2>3. Panic => phase' = "panicked" /\ types' = types /\ stack' = stack
    BY <1>4
  <2> HIDE DEF name
  <2>4. QED
    BY <1>5, <1>6, <1>7, <2>1, <2>2, <2>3 DEF create_type, name
<1>9. QED
  BY <1>8 DEF Good

LEMMA PushedFrame ==
  ASSUME StackTyped, NEW fr \in FrameSet, stack' = Append(stack, fr)
  PROVE  /\ Len(stack) \in Nat /\ DOMAIN stack = 1 .. Len(stack)
         /\ DOMAIN stack' = 1 .. Len(stack) + 1 /\ Len(stack') = Len(stack) + 1
         /\ \A i \in 1 .. Len(stack) : stack'[i] = stack[i]
         /\ stack'[Len(stack) + 1] = fr
         /\ \A n : Unopened(n)' <=> Unopened(n) /\ (fr.name = n => ~Pending(fr))
<1>1. /\ Len(stack) \in Nat /\ DOMAIN stack = 1 .. Len(stack)
      /\ DOMAIN stack' = 1 .. Len(stack) + 1 /\ Len(stack') = Len(stack) + 1
      /\ \A i \in 1 .. Len(stack) : stack'[i] = stack[i]
      /\ stack'[Len(stack) + 1] = fr
  BY AppendProperties, LenProperties DEF StackTyped
<1>2. \A f : Pending(f)' <=> Pending(f)
  BY DEF Pending
<1>3. ASSUME NEW n PROVE Unopened(n)' <=> Unopened(n) /\ (fr.name = n => ~Pending(fr))
  <2>1. Unopened(n)' <=> \A i \in DOMAIN stack' : stack'[i].name = n => ~Pending(stack'[i])
    <3>1. \A i : Pending(stack[i])' <=> Pending(stack'[i])
      BY DEF Pending
    <3>2. QED
      BY <3>1 DEF Unopened
  <2>2. Unopened(n)' => Unopened(n) /\ (fr.name = n => ~Pending(fr))
    <3>1. \A i \in 1 .. Len(stack) : i \in DOMAIN stack'
      BY <1>1
    <3>2. Len(stack) + 1 \in DOMAIN stack'
      BY <1>1
    <3>3. QED
      BY <1>1, <2>1, <3>1, <3>2 DEF Unopened
  <2>3. ASSUME Unopened(n), fr.name = n => ~Pending(fr) PROVE Unopened(n)'
    <3>1. \A i \in DOMAIN stack' : i \in 1 .. Len(stack) \/ i = Len(stack) + 1
      BY <1>1
    <3>2. QED
      BY <1>1, <2>1, <2>3, <3>1 DEF Unopened
  <2>4. QED
    BY <2>2, <2>3
<1>4. QED
  BY <1>1, <1>3

LEMMA OwedHere ==
  ASSUME NEW calls, NEW e, NEW i, calls = stack'[i].calls, OwedIn(calls, e)'
  PROVE  OwedIn(stack[i].calls, e)'
BY DEF OwedIn

LEMMA PartOwedHere ==
  ASSUME NEW p, NEW e, NEW calls, calls = stack'[1].calls, NEW i \in DOMAIN calls,
         calls[i].op = "create", calls[i].decl = p,
         i = 1 /\ Len(stack') > 1 => OwedIn(stack[2].calls, e)'
  PROVE  OwedByPart(p, e)'
BY DEF OwedByPart

(***************************************************************************)
(* A new frame keeps the types that are not input objects, and below it    *)
(* what is owed; it is the frame of a part if it is the second.            *)
(***************************************************************************)
LEMMA CreatedKeeps ==
  ASSUME program' = program, keys' = keys, Compiles(program), Building, KeysTrue,
         NEW fr \in FrameSet, stack' = Append(stack, fr), CreatesFrame(fr)
  PROVE  StepKeeps /\ KeysTrue'
<1>1. \A n : Unopened(n)' <=> Unopened(n) /\ (fr.name = n => ~Pending(fr))
  BY PushedFrame DEF Building
<1>2. \A n, key : HasKey(n, key)' <=> HasKey(n, key)
  BY DEF HasKey
<1>3. CASE types' = types /\ ~Pending(fr)
  <2>1. StepKeeps
    BY <1>1, <1>2, <1>3 DEF StepKeeps, NameStays
  <2>2. KeysTrue'
    BY <1>1, <1>2, <1>3, KeysTrueStays
  <2>3. QED
    BY <2>1, <2>2
<1>4. CASE Opens(fr)
  <2>1. ASSUME NEW n \in DOMAIN types, n # fr.name
        PROVE  n \in DOMAIN types' /\ types'[n].kind = types[n].kind /\ types'[n].rust = types[n].rust
    BY <1>4, <2>1 DEF Opens, KeepsTypes
  <2>2. StepKeeps
    <3> SUFFICES ASSUME NEW n \in DOMAIN types, types[n].kind # "InputObject" PROVE NameStays(n)
      BY DEF StepKeeps
    <3>1. n # fr.name
      BY <1>4 DEF Opens
    <3>2. QED
      BY <1>1, <1>2, <2>1, <3>1 DEF NameStays
  <2>3. ASSUME NEW n \in DOMAIN types', types'[n].kind = "Object", Unopened(n)', HasKey(n, "unresolvable")'
        PROVE  /\ n \in DOMAIN types /\ types[n].kind = "Object" /\ types'[n].rust = types[n].rust
               /\ Unopened(n) /\ HasKey(n, "unresolvable")
    <3>1. Unopened(n) /\ n # fr.name
      BY <1>1, <1>4, <2>3 DEF Opens
    <3>2. n \in DOMAIN types
      BY <1>4, <2>3, <3>1 DEF Opens
    <3>3. QED
      BY <1>2, <2>1, <2>3, <3>1, <3>2
  <2>4. KeysTrue'
    BY <2>3, KeysTrueStays
  <2>5. QED
    BY <2>2, <2>4
<1>5. QED
  BY <1>3, <1>4 DEF CreatesFrame

LEMMA NewFrameOwes ==
  ASSUME program' = program, Compiles(program), StepKeeps, NEW fr, fr.decl \in Decls, CreatesFrame(fr),
         NEW e \in FoundEntities(fr.decl)
  PROVE  OwedIn(fr.calls, e)'
<1>1. PICK calls : calls = fr.calls
  OBVIOUS
<1>2. OwedIn(calls, e)
  BY <1>1, EntityCallsOwe DEF CreatesFrame
<1>3. OwedIn(calls, e)'
  BY <1>2, EntitiesStay, OwedStays
<1>4. QED
  BY <1>1, <1>3

LEMMA CreatedFrames ==
  ASSUME program' = program, Compiles(program), StepKeeps, StackTyped, stack # <<>>, RootOpen,
         NEW fr \in FrameSet, fr.decl \in Decls, stack' = Append(stack, fr), CreatesFrame(fr),
         Last(stack).calls # <<>>, Head(Last(stack).calls).decl = fr.decl
  PROVE  FirstFramesStay
<1>1. PICK n, calls : n = Len(stack) /\ calls = stack[1].calls
  OBVIOUS
<1>2. /\ n \in Nat \ {0} /\ DOMAIN stack = 1 .. n /\ Len(stack') = n + 1
      /\ \A i \in 1 .. n : stack'[i] = stack[i]
      /\ stack'[n + 1] = fr /\ Last(stack) = stack[n]
  <2>1. stack \in Seq(FrameSet)
    BY DEF StackTyped
  <2>2. n \in Nat \ {0} /\ Last(stack) = stack[n]
    BY <1>1, <2>1, TopFacts
  <2>3. QED
    BY <1>1, <2>2, PushedFrame
<1>3. 1 \in 1 .. n /\ stack'[1] = stack[1] /\ calls = stack'[1].calls
  BY <1>1, <1>2
<1>4. QueryDecl \in Decls /\ QueryParts \subseteq Decls
  BY RootFacts
<1>5. ASSUME NEW e \in FoundEntities(QueryDecl), OwedIn(stack[1].calls, e)
      PROVE  OwedIn(stack[1].calls, e)'
  <2>1. OwedIn(calls, e)
    BY <1>1, <1>5
  <2>2. OwedIn(calls, e)'
    BY <1>4, <2>1, EntitiesStay, OwedStays
  <2>3. QED
    BY <1>3, <2>2, OwedHere
<1>6. ASSUME NEW p \in QueryParts, NEW e \in FoundEntities(p), OwedByPart(p, e)
      PROVE  OwedByPart(p, e)'
  <2>1. PICK i \in DOMAIN calls :
          /\ calls[i].op = "create" /\ calls[i].decl = p
          /\ i = 1 /\ n > 1 => OwedIn(stack[2].calls, e)
    BY <1>1, <1>6 DEF OwedByPart
  <2>2. ASSUME i = 1 PROVE OwedIn(stack[2].calls, e)'
    <3>1. CASE n > 1
      <4>1. PICK c : c = stack[2].calls
        OBVIOUS
      <4>2. c = stack'[2].calls
        BY <1>2, <3>1, <4>1
      <4>3. OwedIn(c, e)
        BY <2>1, <2>2, <3>1, <4>1
      <4>4. OwedIn(c, e)'
        BY <1>4, <4>3, EntitiesStay, OwedStays
      <4>5. QED
        BY <4>2, <4>4, OwedHere
    <3>2. CASE n = 1
      <4>1. fr.decl = p
        <5>1. stack[1] \in FrameSet
          BY <1>2, <3>2 DEF StackTyped
        <5>2. calls \in Seq(CallSet) /\ calls # <<>>
          BY <1>1, <1>2, <3>2, <5>1 DEF FrameSet
        <5>3. Without(CallSet, calls, Tail(calls))
          BY <5>2, TailFacts
        <5>4. QED
          BY <1>1, <1>2, <2>1, <2>2, <3>2, <5>3 DEF Without
      <4>2. PICK c : c = fr.calls
        OBVIOUS
      <4>3. OwedIn(fr.calls, e)'
        BY <4>1, NewFrameOwes
      <4>4. OwedIn(c, e)'
        BY <4>2, <4>3
      <4>5. c = stack'[2].calls
        BY <1>2, <3>2, <4>2
      <4>6. QED
        BY <4>4, <4>5, OwedHere
    <3>3. QED
      BY <1>2, <3>1, <3>2
  <2>3. QED
    BY <1>3, <2>1, <2>2, PartOwedHere
<1>7. stack' # <<>>
  <2>1. Len(stack') # 0
    BY <1>2
  <2>2. QED
    BY <2>1
<1>8. QED
  BY <1>3, <1>5, <1>6, <1>7 DEF FirstFramesStay

LEMMA SameKeys ==
  ASSUME program' = program, types' = types, stack' = stack, keys' = keys, Compiles(program),
         KeysInv, ~NotBegun
  PROVE  KeysInv'
<1>1. \A n : Unopened(n)' <=> Unopened(n)
  BY DEF Unopened, Pending
<1>2. \A n, key : HasKey(n, key)' <=> HasKey(n, key)
  BY DEF HasKey
<1>3. StepKeeps
  BY <1>1, <1>2 DEF StepKeeps, NameStays
<1>4. KeysTrue'
  BY <1>1, <1>2, KeysTrueStays DEF KeysInv
<1>5. ASSUME RootOpen PROVE FirstFramesStay
  <2>1. QueryDecl \in Decls /\ QueryParts \subseteq Decls
    BY RootFacts
  <2>2. ASSUME NEW d \in Decls, NEW e \in FoundEntities(d), NEW i, OwedIn(stack[i].calls, e)
        PROVE  OwedIn(stack[i].calls, e)'
    <3>1. PICK calls : calls = stack[i].calls
      OBVIOUS
    <3>2. OwedIn(calls, e)'
      BY <1>3, <2>2, <3>1, EntitiesStay, OwedStays
    <3>3. calls = stack'[i].calls
      BY <3>1
    <3>4. QED
      BY <3>2, <3>3, OwedHere
  <2>3. ASSUME NEW p \in QueryParts, NEW e \in FoundEntities(p), OwedByPart(p, e)
        PROVE  OwedByPart(p, e)'
    <3>1. PICK calls, n : calls = stack[1].calls /\ n = Len(stack)
      OBVIOUS
    <3>2. PICK i \in DOMAIN calls :
            /\ calls[i].op = "create" /\ calls[i].decl = p
            /\ i = 1 /\ n > 1 => OwedIn(stack[2].calls, e)
      BY <2>3, <3>1 DEF OwedByPart
    <3>3. i = 1 /\ n > 1 => OwedIn(stack[2].calls, e)'
      BY <2>1, <2>2, <3>2
    <3>4. calls = stack'[1].calls /\ n = Len(stack')
      BY <3>1
    <3>5. QED
      BY <3>2, <3>3, <3>4, PartOwedHere
  <2>4. stack' # <<>> /\ stack'[1].decl = stack[1].decl
    BY <1>5 DEF RootOpen
  <2>5. QED
    BY <2>1, <2>2, <2>3, <2>4 DEF FirstFramesStay
<1>6. QED
  BY <1>3, <1>4, <1>5, KeysInvStays

LEMMA CreateMemberServes ==
  ASSUME RegistryInv, KeysInv, CreateMember
  PROVE  KeysInv'
<1>1. /\ phase \in {"register", "extra"} /\ stack # <<>> /\ Top.calls # <<>> /\ Current.op = "create"
      /\ create_type(Current.decl) /\ program' = program /\ todo' = todo /\ keys' = keys
  BY DEF CreateMember
<1>2. Building /\ Compiles(program)
  BY <1>1, Unbuilt
<1>3. PICK d \in Decls : d = Current.decl /\ Calling(d)
  BY <1>1, <1>2, MemberCalling
<1>4. KeysTrue /\ ~NotBegun
  BY <1>1 DEF KeysInv, NotBegun
<1>5. CASE types' = types /\ stack' = stack
  BY <1>1, <1>2, <1>4, <1>5, SameKeys
<1>6. ASSUME NEW fr \in FrameSet, stack' = Append(stack, fr), fr.decl = d, CreatesFrame(fr)
      PROVE  KeysInv'
  <2>1. StepKeeps /\ KeysTrue'
    BY <1>1, <1>2, <1>4, <1>6, CreatedKeeps
  <2>2. Last(stack).calls # <<>> /\ Head(Last(stack).calls).decl = fr.decl
    BY <1>1, <1>3, <1>6 DEF Calling
  <2>3. RootOpen => FirstFramesStay
    BY <1>1, <1>2, <1>6, <2>1, <2>2, CreatedFrames DEF Building
  <2>4. QED
    BY <1>1, <1>2, <1>4, <2>1, <2>3, KeysInvStays
<1>7. QED
  BY <1>1, <1>2, <1>3, <1>5, <1>6, CreateOutcome

(***************************************************************************)
(* The query root is the first type: its frame has its parts to create and *)
(* its entity resolvers to call.                                           *)
(***************************************************************************)
LEMMA PartsCalled ==
  ASSUME Compiles(program), NEW p \in QueryParts, NEW calls, calls = Constructor(QueryDecl)
  PROVE  \E i \in DOMAIN calls : calls[i].op = "create" /\ calls[i].decl = p
<1>1. PICK d \in Decls : d = QueryDecl /\ Kind(d) = "Object"
  BY RootFacts
<1>2. PICK parts, m : parts = Decl(d).parts /\ m = MemberCalls(d)
  OBVIOUS
<1>3. parts \in Seq(DeclsOf(program, {"Object"}))
  BY <1>1, <1>2, DeclFacts DEF DeclSet
<1>4. DOMAIN parts = 1 .. Len(parts) /\ Len(parts) \in Nat
  BY <1>3, LenProperties
<1>5. PICK i \in 1 .. Len(parts) : parts[i] = p
  BY <1>1, <1>2, <1>4 DEF QueryParts, Range
<1>6. Len(m) \in Nat /\ Len(parts) <= Len(m)
  BY <1>1, <1>2, MembersInPlace
<1>7. i \in DOMAIN calls
  <2>1. ByPlace(d, m, EntityCalls(d), calls)
    BY <1>1, <1>2, ConstructorPlaces
  <2>2. DOMAIN calls = 1 .. Len(m) + 1 + Len(EntityCalls(d))
    BY <2>1 DEF ByPlace
  <2>3. Len(EntityCalls(d)) \in Nat
    BY <1>1, ConstructorFits, LenProperties
  <2>4. QED
    BY <1>4, <1>6, <2>2, <2>3
<1>8. CallInPlace(d, i, calls[i])
  BY <1>1, <1>7, ConstructorInPlace
<1>9. Extending(d, i)
  BY <1>1, <1>2 DEF Extending
<1>10. Creates(calls[i], "extend") /\ calls[i].decl = p
  BY <1>2, <1>5, <1>8, <1>9 DEF CallInPlace
<1>11. QED
  BY <1>7, <1>10 DEF Creates

LEMMA FirstRootServes ==
  ASSUME Compiles(program), Building, NotBegun, program' = program, keys' = keys,
         create_type(QueryDecl)
  PROVE  KeysInv'
<1>1. PICK d, n : d = QueryDecl /\ n = NameOf(d)
  OBVIOUS
<1>2. d \in Decls /\ Kind(d) = "Object" /\ QueryParts \subseteq Decls
  BY <1>1, RootFacts
<1>3. n \in AllNames /\ n = Decl(d).name
  BY <1>1, <1>2, DeclFacts DEF NameOf
<1>4. DOMAIN types = {} /\ stack = <<>>
  BY DEF NotBegun
<1>5. CreateNew(d, types, n)
  <2>1. create_type(d) /\ Decl(d).name \notin DOMAIN types
    BY <1>1, <1>4
  <2>2. CreateNew(d, types, Decl(d).name)
    BY <2>1 DEF create_type
  <2>3. QED
    BY <1>3, <2>2
<1>6. PICK fr : fr = Frame(d, n, Constructor(d))
  OBVIOUS
<1>7. types' = Insert(types, n, create_fake_type(d)) /\ stack' = Append(stack, fr)
  BY <1>5, <1>6 DEF CreateNew, Push
<1>8. fr \in FrameSet /\ Pending(fr) /\ fr.decl = d /\ fr.name = n /\ fr.calls = Constructor(d)
  <2>1. fr \in FrameSet /\ Pending(fr)
    BY <1>2, <1>3, <1>6, NewFrame
  <2>2. QED
    BY <1>6, <2>1 DEF Frame
<1>9. DOMAIN types' = {n} /\ types'[n].kind = "Object"
  <2>1. create_fake_type(d).kind = "Object"
    BY <1>2 DEF create_fake_type, Kind
  <2>2. QED
    BY <1>4, <1>7, <2>1 DEF Insert
<1>10. /\ Len(stack') = 1 /\ stack'[1] = fr /\ stack' # <<>>
       /\ \A m : Unopened(m)' <=> Unopened(m) /\ (fr.name = m => ~Pending(fr))
  <2>1. Len(stack) = 0
    BY <1>4
  <2>2. /\ Len(stack') = Len(stack) + 1 /\ stack'[Len(stack) + 1] = fr
        /\ \A m : Unopened(m)' <=> Unopened(m) /\ (fr.name = m => ~Pending(fr))
    BY <1>7, <1>8, PushedFrame DEF Building
  <2>3. Len(stack') # 0
    BY <2>1, <2>2
  <2>4. QED
    BY <2>1, <2>2, <2>3
<1>11. /\ QueryDecl' = d /\ QueryParts' = QueryParts /\ NameOf(d)' = n
       /\ \A x : FoundEntities(x)' = FoundEntities(x)
  BY <1>1, SameEntities
<1>12. KeysTrue'
  BY <1>8, <1>9, <1>10 DEF KeysTrue
<1>13. RootMade'
  BY <1>9, <1>11 DEF RootMade, NameOf
<1>14. \A e : ~Made(e)
  BY <1>4 DEF Made
<1>15. PICK calls : calls = fr.calls
  OBVIOUS
<1>16. calls = stack'[1].calls /\ calls = Constructor(d)
  BY <1>8, <1>10, <1>15
<1>17. ASSUME NEW x \in Decls, NEW e \in FoundEntities(x) PROVE OwedIn(Constructor(x), e)
  BY <1>17, EntityCallsOwe
<1>18. ASSUME NEW e \in FoundEntities(d) PROVE OwedIn(stack[1].calls, e)'
  <2>1. OwedIn(calls, e)
    BY <1>2, <1>16, <1>17
  <2>2. OwedIn(calls, e)'
    BY <1>14, <2>1, OwedStays
  <2>3. QED
    BY <1>16, <2>2, OwedHere
<1>19. ASSUME NEW p \in QueryParts, NEW e PROVE OwedByPart(p, e)'
  <2>1. PICK i \in DOMAIN calls : calls[i].op = "create" /\ calls[i].decl = p
    BY <1>1, <1>16, PartsCalled
  <2>2. ~(Len(stack') > 1)
    BY <1>10
  <2>3. QED
    BY <1>16, <2>1, <2>2, PartOwedHere
<1>20. RootOpen'
  <2>1. stack' # <<>> /\ stack'[1].decl = QueryDecl'
    BY <1>8, <1>10, <1>11
  <2>2. \A e \in FoundEntities(QueryDecl)' : (Settled(e) \/ OwedIn(stack[1].calls, e))'
    <3>1. FoundEntities(QueryDecl)' = FoundEntities(d)
      BY <1>11 DEF FoundEntities
    <3>2. QED
      BY <1>18, <3>1
  <2>3. \A p \in QueryParts' : \A e \in FoundEntities(p)' : (Settled(e) \/ OwedByPart(p, e))'
    BY <1>11, <1>19
  <2>4. QED
    BY <2>1, <2>2, <2>3 DEF RootOpen
<1>21. QED
  BY <1>12, <1>13, <1>20 DEF KeysInv

LEMMA BeginRootServes ==
  ASSUME RegistryInv, KeysInv, BeginRoot
  PROVE  KeysInv'
<1>1. /\ phase \in {"register", "extra"} /\ stack = <<>> /\ todo # <<>>
      /\ create_type(Head(todo).decl) /\ program' = program /\ keys' = keys
  BY DEF BeginRoot
<1>2. Building /\ Compiles(program) /\ CallsTyped
  BY <1>1, Unbuilt
<1>3. PICK d \in Decls : d = Head(todo).decl
  <2> DEFINE S == [decl : Decls, as : {"root", "register", "directive"}]
  <2>1. todo \in Seq(S)
    BY <1>2 DEF CallsTyped
  <2>2. Head(todo) \in S
    <3> HIDE DEF S
    <3> QED BY <1>1, <2>1, HeadTailProperties
  <2>3. QED
    BY <2>2
<1>4. CASE NotBegun
  <2>1. create_type(QueryDecl)
    BY <1>1, <1>4 DEF NotBegun
  <2>2. QED
    BY <1>1, <1>2, <1>4, <2>1, FirstRootServes
<1>5. CASE ~NotBegun
  <2>1. KeysTrue /\ ~RootOpen
    BY <1>1, <1>5 DEF KeysInv, RootOpen
  <2>2. CASE types' = types /\ stack' = stack
    BY <1>1, <1>2, <1>5, <2>2, SameKeys
  <2>3. ASSUME NEW fr \in FrameSet, stack' = Append(stack, fr), CreatesFrame(fr) PROVE KeysInv'
    <3>1. StepKeeps /\ KeysTrue'
      BY <1>1, <1>2, <2>1, <2>3, CreatedKeeps
    <3>2. QED
      BY <1>1, <1>2, <1>5, <2>1, <3>1, KeysInvStays
  <2>4. create_type(d)
    BY <1>1, <1>3
  <2>5. QED
    BY <1>2, <2>2, <2>3, <2>4, CreateOutcome
<1>6. QED
  BY <1>4, <1>5

(***************************************************************************)
(* The innermost call has been done: one of the first two frames has a     *)
(* call less.  If that call added a key, no constructor that could replace *)
(* the type is under way: the root has another name, and the frame itself  *)
(* has returned from its own.                                              *)
(***************************************************************************)
LEMMA DoneUnopens ==
  ASSUME program' = program, StackTyped, StackInv, stack # <<>>, Top.calls # <<>>, KeepsTypes({}),
         stack' = Replaced(stack, DoneWith(Top))
  PROVE  /\ \A n : Unopened(n) => Unopened(n)'
         /\ \A n : (Current.op # "close" \/ n # Top.name) /\ Unopened(n)' => Unopened(n)
<1>1. /\ Len(stack) \in DOMAIN stack /\ Top = stack[Len(stack)] /\ DOMAIN stack' = DOMAIN stack
      /\ \A i \in DOMAIN stack : stack'[i].name = stack[i].name
      /\ \A i \in DOMAIN stack : i = Len(stack) \/ stack'[i] = stack[i]
      /\ Current.op = "close" => Pending(Top)
      /\ Current.op # "close" => (Pending(stack'[Len(stack)]) <=> Pending(Top))
  BY DoneTop
<1>2. PICK k, new : k = Len(stack) /\ new = stack'
  OBVIOUS
<1>3. \A n : Unopened(n)' <=> \A i \in DOMAIN new : new[i].name = n => ~Pending(new[i])
  <2>1. \A f : Pending(f)' <=> Pending(f)
    BY DEF Pending
  <2>2. \A i : Pending(stack[i])' <=> Pending(new[i])
    BY <1>2 DEF Pending
  <2>3. QED
    BY <1>2, <2>2 DEF Unopened
<1>4. \A i \in DOMAIN stack : Pending(new[i]) => Pending(stack[i])
  BY <1>1, <1>2
<1>5. \A n : Unopened(n) => Unopened(n)'
  BY <1>1, <1>2, <1>3, <1>4 DEF Unopened
<1>6. ASSUME NEW n, Current.op # "close" \/ n # Top.name, Unopened(n)' PROVE Unopened(n)
  <2>1. \A i \in DOMAIN stack : stack[i].name = n => (Pending(new[i]) <=> Pending(stack[i]))
    BY <1>1, <1>2, <1>6
  <2>2. QED
    BY <1>1, <1>2, <1>3, <1>6, <2>1 DEF Unopened
<1>7. QED
  BY <1>5, <1>6

LEMMA DoneOwed ==
  ASSUME program' = program, Compiles(program), StackTyped, StackInv, KeepsTypes({}), StepKeeps,
         stack # <<>>, Top.calls # <<>>, Current.op # "create",
         stack' = Replaced(stack, DoneWith(Top)),
         stack[1].decl = QueryDecl,
         NEW d \in Decls, NEW e \in FoundEntities(d),
         Current = KeyCall(e) /\ Made(e) /\ Unopened(NameOf(e))' => Settled(e)',
         NEW i \in DOMAIN stack, i = 1 \/ i = 2,
         OwedIn(stack[i].calls, e)
  PROVE  Settled(e)' \/ OwedIn(stack[i].calls, e)'
<1>1. /\ Len(stack) \in Nat \ {0} /\ DOMAIN stack = 1 .. Len(stack)
      /\ Top = stack[Len(stack)] /\ DOMAIN stack' = DOMAIN stack
      /\ \A j \in DOMAIN stack : j = Len(stack) \/ stack'[j] = stack[j]
      /\ Top \in FrameSet
  <2>1. stack \in Seq(FrameSet)
    BY DEF StackTyped
  <2>2. Len(stack) \in Nat \ {0} /\ DOMAIN stack = 1 .. Len(stack)
    BY <2>1, TopFacts
  <2>3. QED
    BY <2>2, DoneTop
<1>2. PICK k, calls, rest : k = Len(stack) /\ calls = stack[i].calls /\ rest = stack'[i].calls
  OBVIOUS
<1>3. OwedIn(calls, e) /\ (Made(e) => Made(e)')
  BY <1>2, EntitiesStay
<1>4. CASE i # k
  <2>1. calls = stack'[i].calls
    BY <1>1, <1>2, <1>4
  <2>2. OwedIn(calls, e)'
    BY <1>3, OwedStays
  <2>3. QED
    BY <2>1, <2>2, OwedHere
<1>5. CASE i = k
  <2>1. calls \in Seq(CallSet) /\ calls # <<>> /\ Head(calls) = Current
    BY <1>1, <1>2, <1>5 DEF FrameSet, Current
  <2>2. rest = Tail(calls)
    <3>1. stack \in Seq(FrameSet)
      BY DEF StackTyped
    <3>2. PICK fr : fr = DoneWith(Top)
      OBVIOUS
    <3>3. fr \in FrameSet /\ fr.calls = Tail(calls)
      <4>1. Tail(calls) \in Seq(CallSet)
        BY <2>1, HeadTailProperties
      <4>2. calls = Top.calls
        BY <1>1, <1>2, <1>5
      <4>3. QED
        BY <1>1, <3>2, <4>1, <4>2 DEF FrameSet, DoneWith
    <3>4. ReplacedFacts(FrameSet, stack, fr, stack')
      BY <3>1, <3>2, <3>3, ReplaceTop
    <3>5. QED
      BY <1>2, <1>5, <3>3, <3>4 DEF ReplacedFacts
  <2>3. \/ OwedIn(rest, e)'
        \/ /\ Head(calls) = KeyCall(e) /\ Made(e)
           /\ \A j \in DOMAIN calls : calls[j].op # "close"
    BY <1>3, <2>1, <2>2, OwedTail
  <2>4. CASE OwedIn(rest, e)'
    BY <1>2, <2>4, OwedHere
  <2>5. CASE /\ Head(calls) = KeyCall(e) /\ Made(e)
             /\ \A j \in DOMAIN calls : calls[j].op # "close"
    <3>1. Unopened(NameOf(e))
      <4> SUFFICES ASSUME NEW j \in DOMAIN stack, stack[j].name = NameOf(e), Pending(stack[j])
                   PROVE  FALSE
        BY DEF Unopened
      <4>1. j # k
        BY <1>2, <1>5, <2>5 DEF Pending
      <4>2. j = 1
        BY <1>1, <1>2, <1>5, <4>1
      <4>3. stack[1].name = NameOf(QueryDecl)
        <5>1. FrameFits(stack[1])
          BY <1>1, <4>2 DEF StackInv
        <5>2. Kind(QueryDecl) = "Object"
          BY RootFacts
        <5>3. QED
          BY <5>1, <5>2 DEF FrameFits, NameOf
      <4>4. NameOf(e) # NameOf(QueryDecl)
        BY EntityFacts
      <4>5. QED
        BY <4>2, <4>3, <4>4
    <3>2. Unopened(NameOf(e))'
      <4>1. PICK n : n = NameOf(e)
        OBVIOUS
      <4>2. NameOf(e)' = n
        BY <4>1, SameEntities DEF NameOf
      <4>3. Unopened(n)'
        BY <3>1, <4>1, DoneUnopens
      <4>4. QED
        BY <4>2, <4>3 DEF Unopened
    <3>3. QED
      BY <2>1, <2>5, <3>2
  <2>6. QED
    BY <2>3, <2>4, <2>5
<1>6. QED
  BY <1>4, <1>5

LEMMA DoneFrames ==
  ASSUME program' = program, Compiles(program), StackTyped, StackInv, KeepsTypes({}), StepKeeps,
         stack # <<>>, Top.calls # <<>>, Current.op # "create",
         stack' = Replaced(stack, DoneWith(Top)), RootOpen,
         \A d \in Decls : \A e \in FoundEntities(d) :
           Current = KeyCall(e) /\ Made(e) /\ Unopened(NameOf(e))' => Settled(e)'
  PROVE  FirstFramesStay
<1>1. /\ Len(stack) \in Nat \ {0} /\ DOMAIN stack = 1 .. Len(stack)
      /\ Len(stack) \in DOMAIN stack /\ Top = stack[Len(stack)]
      /\ stack' \in Seq(FrameSet) /\ Len(stack') = Len(stack)
      /\ \A j \in DOMAIN stack : j = Len(stack) \/ stack'[j] = stack[j]
      /\ \A j \in DOMAIN stack : stack'[j].decl = stack[j].decl
      /\ Top \in FrameSet
  <2>1. stack \in Seq(FrameSet)
    BY DEF StackTyped
  <2>2. Len(stack) \in Nat \ {0} /\ DOMAIN stack = 1 .. Len(stack)
    BY <2>1, TopFacts
  <2>3. StackTyped' /\ DOMAIN stack' = DOMAIN stack
    BY DoneTop
  <2>4. stack' \in Seq(FrameSet)
    <3>1. FrameSet' = FrameSet
      BY SameProgram
    <3>2. QED
      BY <2>3, <3>1 DEF StackTyped
  <2>5. Len(stack') = Len(stack)
    <3>1. Len(stack') \in Nat /\ DOMAIN stack' = 1 .. Len(stack')
      BY <2>4, LenProperties
    <3>2. QED
      BY <2>2, <2>3, <3>1
  <2>6. /\ \A j \in DOMAIN stack : j = Len(stack) \/ stack'[j] = stack[j]
        /\ \A j \in DOMAIN stack : stack'[j].decl = stack[j].decl
    BY DoneTop
  <2>7. Len(stack) \in DOMAIN stack /\ Top = stack[Len(stack)] /\ Top \in FrameSet
    BY DoneTop
  <2>8. QED
    BY <2>2, <2>4, <2>5, <2>6, <2>7
<1>2. QueryDecl \in Decls /\ QueryParts \subseteq Decls
  BY RootFacts
<1>3. stack[1].decl = QueryDecl /\ 1 \in DOMAIN stack
  BY <1>1 DEF RootOpen
<1>4. ASSUME NEW d \in Decls, NEW e \in FoundEntities(d),
             NEW i \in DOMAIN stack, i = 1 \/ i = 2, OwedIn(stack[i].calls, e)
      PROVE  Settled(e)' \/ OwedIn(stack[i].calls, e)'
  BY <1>3, <1>4, DoneOwed
<1>5. ASSUME NEW e \in FoundEntities(QueryDecl), OwedIn(stack[1].calls, e)
      PROVE  Settled(e)' \/ OwedIn(stack[1].calls, e)'
  BY <1>2, <1>3, <1>4, <1>5
<1>6. ASSUME NEW p \in QueryParts, NEW e \in FoundEntities(p), OwedByPart(p, e)
      PROVE  Settled(e)' \/ OwedByPart(p, e)'
  <2>1. PICK k, calls, rest : k = Len(stack) /\ calls = stack[1].calls /\ rest = stack'[1].calls
    OBVIOUS
  <2>2. PICK i \in DOMAIN calls :
          /\ calls[i].op = "create" /\ calls[i].decl = p
          /\ i = 1 /\ k > 1 => OwedIn(stack[2].calls, e)
    BY <1>6, <2>1 DEF OwedByPart
  <2>3. CASE k = 1
    <3>1. calls = Top.calls /\ calls \in Seq(CallSet) /\ calls # <<>>
      BY <1>1, <2>1, <2>3 DEF FrameSet
    <3>2. rest = Tail(calls)
      <4>1. stack \in Seq(FrameSet)
        BY DEF StackTyped
      <4>2. PICK fr : fr = DoneWith(Top)
        OBVIOUS
      <4>3. fr \in FrameSet /\ fr.calls = Tail(calls)
        <5>1. Tail(calls) \in Seq(CallSet)
          BY <3>1, HeadTailProperties
        <5>2. QED
          BY <1>1, <3>1, <4>2, <5>1 DEF FrameSet, DoneWith
      <4>4. ReplacedFacts(FrameSet, stack, fr, stack')
        BY <4>1, <4>2, <4>3, ReplaceTop
      <4>5. QED
        BY <2>1, <2>3, <4>3, <4>4 DEF ReplacedFacts
    <3>3. Without(CallSet, calls, rest)
      BY <3>1, <3>2, TailFacts
    <3>4. calls[1] = Current
      BY <3>1, <3>3 DEF Without, Current
    <3>5. i # 1
      BY <2>2, <3>4
    <3>6. PICK j \in DOMAIN rest : rest[j] = calls[i]
      BY <3>3, <3>5 DEF Without
    <3>7. ~(Len(stack') > 1)
      <4>1. Len(stack') = k
        BY <1>1, <2>1
      <4>2. QED
        BY <2>3, <4>1
    <3>8. QED
      BY <2>1, <2>2, <3>6, <3>7, PartOwedHere
  <2>4. CASE k > 1
    <3>1. rest = calls /\ 2 \in DOMAIN stack
      BY <1>1, <2>1, <2>4
    <3>2. CASE i = 1
      <4>1. Settled(e)' \/ OwedIn(stack[2].calls, e)'
        BY <1>2, <1>4, <2>2, <2>4, <3>1, <3>2
      <4>2. QED
        BY <2>1, <2>2, <3>1, <4>1, PartOwedHere
    <3>3. CASE i # 1
      BY <2>1, <2>2, <3>1, <3>3, PartOwedHere
    <3>4. QED
      BY <3>2, <3>3
  <2>5. QED
    BY <1>1, <2>1, <2>3, <2>4
<1>7. stack' # <<>>
  <2>1. Len(stack') # 0
    BY <1>1
  <2>2. QED
    BY <2>1
<1>8. QED
  BY <1>1, <1>3, <1>5, <1>6, <1>7 DEF FirstFramesStay

LEMMA CloseTypeServes ==
  ASSUME RegistryInv, KeysInv, CloseType
  PROVE  KeysInv'
<1> DEFINE d == Current.decl
           closed == [kind |-> Decl(d).kind, rust |-> Decl(d).rust, name |-> Top.name,
                      marks |-> Decl(d).marks,
                      refs |-> rename_input_type_references_in_type(Top.refs, Decl(d).name, Top.name)]
<1>1. /\ phase \in {"register", "extra"} /\ stack # <<>> /\ Top.calls # <<>> /\ Current.op = "close"
      /\ types' = [types EXCEPT ![Top.name] = closed]
      /\ stack' = Replaced(stack, DoneWith(Top))
      /\ keys' = Insert(keys, Top.name, IF Decl(d).unresolvable THEN <<"unresolvable">> ELSE <<>>)
      /\ program' = program
  BY DEF CloseType, Replaced, DoneWith, Below
<1>2. Building /\ StackTyped /\ StackInv /\ Compiles(program) /\ ~NotBegun /\ KeysTrue
  BY <1>1, Unbuilt DEF Building, KeysInv, NotBegun
<1>3. PICK n, e, new : n = Top.name /\ e = Current.decl /\ new = closed
  OBVIOUS
<1>4. /\ Len(stack) \in DOMAIN stack /\ Top = stack[Len(stack)] /\ Top \in FrameSet /\ FrameFits(Top)
      /\ Pending(Top) /\ n \in DOMAIN types
      /\ e = Top.decl /\ e \in Decls
  <2>1. stack \in Seq(FrameSet)
    BY <1>2 DEF StackTyped
  <2>2. Len(stack) \in DOMAIN stack /\ Top = stack[Len(stack)]
    <3>1. Len(stack) \in Nat \ {0} /\ DOMAIN stack = 1 .. Len(stack) /\ Last(stack) = stack[Len(stack)]
      BY <1>1, <2>1, TopFacts
    <3>2. QED
      BY <3>1 DEF Top
  <2>3. Top \in FrameSet /\ FrameFits(Top) /\ n \in DOMAIN types
    BY <1>2, <1>3, <2>2 DEF StackTyped, StackInv
  <2>4. Current \in FitCalls(Top.decl) /\ Pending(Top)
    BY <1>1, <2>3, DoneCall DEF Current
  <2>5. QED
    BY <1>1, <1>3, <2>2, <2>3, <2>4 DEF FitCalls, FrameSet
<1>5. MadeFrom(n, e) /\ new.kind = Kind(e) /\ new.rust = Decl(e).rust
  BY <1>3, <1>4 DEF FrameFits, Kind
<1>6. /\ DOMAIN types' = DOMAIN types
      /\ types'[n] = new /\ \A m \in DOMAIN types : m # n => types'[m] = types[m]
  <2>1. types' = [types EXCEPT ![n] = new]
    BY <1>1, <1>3
  <2>2. types \in [DOMAIN types -> TypeSet]
    BY <1>2 DEF Building, TypesTyped
  <2>3. QED
    BY <1>4, <2>1, <2>2
<1>7. \A m \in DOMAIN types : types'[m].kind = types[m].kind /\ types'[m].rust = types[m].rust
  BY <1>5, <1>6 DEF MadeFrom
<1>8. KeepsTypes({})
  BY <1>6, <1>7 DEF KeepsTypes
<1>9. /\ DOMAIN keys' = DOMAIN keys \cup {n} /\ \A m \in DOMAIN keys : m # n => keys'[m] = keys[m]
      /\ keys'[n] = IF Decl(e).unresolvable THEN <<"unresolvable">> ELSE <<>>
  BY <1>1, <1>3 DEF Insert
<1>10. \A m, key : m # n => (HasKey(m, key)' <=> HasKey(m, key))
  BY <1>9 DEF HasKey
<1>11. ~Unopened(n)
  BY <1>3, <1>4 DEF Unopened
<1>12. /\ \A m : Unopened(m) => Unopened(m)'
       /\ \A m : m # n /\ Unopened(m)' => Unopened(m)
  BY <1>1, <1>2, <1>3, <1>8, DoneUnopens
<1>13. StepKeeps
  <2> SUFFICES ASSUME NEW m \in DOMAIN types PROVE NameStays(m)
    BY DEF StepKeeps
  <2>1. Unopened(m) => Unopened(m)' /\ m # n
    BY <1>11, <1>12
  <2>2. QED
    BY <1>6, <1>7, <1>10, <2>1 DEF NameStays
<1>14. KeysTrue'
  <2>1. ASSUME NEW m \in DOMAIN types', types'[m].kind = "Object", Unopened(m)', HasKey(m, "unresolvable")'
        PROVE  \/ /\ m \in DOMAIN types /\ types[m].kind = "Object" /\ types'[m].rust = types[m].rust
                  /\ Unopened(m) /\ HasKey(m, "unresolvable")
               \/ \E x \in Decls : /\ Decl(x).unresolvable /\ types'[m].rust = Decl(x).rust
                                   /\ types'[m].kind = Kind(x)
    <3>1. CASE m = n
      <4>1. Decl(e).unresolvable
        <5> SUFFICES ASSUME ~Decl(e).unresolvable PROVE FALSE
          OBVIOUS
        <5>1. keys'[n] = <<>>
          BY <1>9
        <5>2. QED
          BY <2>1, <3>1, <5>1 DEF HasKey
      <4>2. QED
        BY <1>4, <1>5, <1>6, <3>1, <4>1
    <3>2. CASE m # n
      BY <1>6, <1>7, <1>10, <1>12, <2>1, <3>2
    <3>3. QED
      BY <3>1, <3>2
  <2>2. QED
    BY <1>1, <1>2, <2>1, KeysTrueStays
<1>15. RootOpen => FirstFramesStay
  <2>1. \A x : Current # KeyCall(x)
    BY <1>1 DEF KeyCall
  <2>2. Current.op # "create"
    BY <1>1
  <2>3. QED
    BY <1>1, <1>2, <1>8, <1>13, <2>1, <2>2, DoneFrames
<1>16. QED
  BY <1>1, <1>2, <1>13, <1>14, <1>15, KeysInvStays

LEMMA AddedKey ==
  ASSUME RestTyped, NEW n, keys' = Insert(keys, n, Append(KeysOf(n), "entity"))
  PROVE  /\ HasKey(n, "entity")'
         /\ \A m : HasKey(m, "entity") => HasKey(m, "entity")'
         /\ \A m : HasKey(m, "unresolvable")' => HasKey(m, "unresolvable")
<1>1. PICK old, new, S : old = KeysOf(n) /\ new = Append(old, "entity") /\ S = {"unresolvable", "entity"}
  OBVIOUS
<1>2. /\ n \in DOMAIN keys => old = keys[n]
      /\ n \notin DOMAIN keys => old = <<>>
  BY <1>1 DEF KeysOf
<1>3. old \in Seq(S)
  <2>1. CASE n \in DOMAIN keys
    BY <1>1, <1>2, <2>1 DEF RestTyped
  <2>2. CASE n \notin DOMAIN keys
    BY <1>2, <2>2
  <2>3. QED
    BY <2>1, <2>2
<1>4. PICK k \in Nat : k = Len(old)
  BY <1>3, LenProperties
<1>5. /\ DOMAIN old = 1 .. k /\ DOMAIN new = 1 .. k + 1 /\ new[k + 1] = "entity"
      /\ \A i \in 1 .. k : new[i] = old[i]
  <2>1. "entity" \in S
    BY <1>1
  <2>2. QED
    BY <1>1, <1>3, <1>4, <2>1, AppendProperties, LenProperties
<1>6. /\ DOMAIN keys' = DOMAIN keys \cup {n} /\ keys'[n] = new
      /\ \A m \in DOMAIN keys : m # n => keys'[m] = keys[m]
  BY <1>1 DEF Insert
<1>7. k + 1 \in DOMAIN new
  BY <1>5
<1>8. HasKey(n, "entity")'
  BY <1>5, <1>6, <1>7 DEF HasKey
<1>9. ASSUME NEW m, HasKey(m, "entity") PROVE HasKey(m, "entity")'
  BY <1>6, <1>8, <1>9 DEF HasKey
<1>10. ASSUME NEW m, HasKey(m, "unresolvable")' PROVE HasKey(m, "unresolvable")
  <2>1. CASE m # n
    BY <1>6, <1>10, <2>1 DEF HasKey
  <2>2. CASE m = n
    <3>1. PICK i \in DOMAIN new : new[i] = "unresolvable"
      BY <1>6, <1>10, <2>2 DEF HasKey
    <3>2. i \in 1 .. k
      BY <1>5, <3>1
    <3>3. i \in DOMAIN old /\ old[i] = "unresolvable"
      BY <1>5, <3>1, <3>2
    <3>4. n \in DOMAIN keys
      BY <1>2, <3>3
    <3>5. QED
      BY <1>2, <2>2, <3>3, <3>4 DEF HasKey
  <2>3. QED
    BY <2>1, <2>2
<1>11. QED
  BY <1>8, <1>9, <1>10

LEMMA AddKeysServes ==
  ASSUME RegistryInv, KeysInv, add_keys
  PROVE  KeysInv'
<1>1. PICK n : n = Decl(Current.decl).name
  OBVIOUS
<1>2. /\ phase \in {"register", "extra"} /\ stack # <<>> /\ Top.calls # <<>> /\ Current.op = "key"
      /\ types' = types
      /\ stack' = Replaced(stack, DoneWith(Top))
      /\ program' = program
      /\ keys' = IF n \in DOMAIN types /\ types[n].kind \in {"Object", "Interface"}
                 THEN Insert(keys, n, Append(KeysOf(n), "entity")) ELSE keys
  BY <1>1 DEF add_keys, Replaced, DoneWith, Below
<1>3. Building /\ RestTyped /\ StackTyped /\ StackInv /\ Compiles(program) /\ ~NotBegun /\ KeysTrue
  BY <1>2, Unbuilt DEF Building, KeysInv, NotBegun
<1>4. KeepsTypes({})
  BY <1>2 DEF KeepsTypes
<1>5. /\ \A m : HasKey(m, "entity") => HasKey(m, "entity")'
      /\ \A m : HasKey(m, "unresolvable")' => HasKey(m, "unresolvable")
      /\ n \in DOMAIN types /\ types[n].kind \in {"Object", "Interface"} => HasKey(n, "entity")'
  <2>1. CASE n \in DOMAIN types /\ types[n].kind \in {"Object", "Interface"}
    BY <1>2, <1>3, <2>1, AddedKey
  <2>2. CASE ~(n \in DOMAIN types /\ types[n].kind \in {"Object", "Interface"})
    <3>1. keys' = keys
      BY <1>2, <2>2
    <3>2. QED
      BY <2>2, <3>1 DEF HasKey
  <2>3. QED
    BY <2>1, <2>2
<1>6. \A m : Unopened(m)' <=> Unopened(m)
  BY <1>2, <1>3, <1>4, DoneUnopens
<1>7. StepKeeps
  BY <1>2, <1>5, <1>6 DEF StepKeeps, NameStays
<1>8. KeysTrue'
  BY <1>2, <1>3, <1>5, <1>6, KeysTrueStays
<1>9. ASSUME NEW d \in Decls, NEW e \in FoundEntities(d),
             Current = KeyCall(e), Made(e), Unopened(NameOf(e))'
      PROVE  Settled(e)'
  <2>1. n = NameOf(e) /\ Kind(e) \in {"Object", "Interface"}
    BY <1>1, <1>3, <1>9, EntityFacts DEF KeyCall, NameOf
  <2>2. n \in DOMAIN types /\ types[n].kind = Kind(e)
    BY <1>9, <2>1 DEF Made
  <2>3. HasKey(n, "entity")'
    BY <1>5, <2>1, <2>2
  <2>4. Made(e)'
    BY <1>2, <1>3, <1>7, <1>9, EntitiesStay
  <2>5. NameOf(e)' = n
    BY <1>2, <2>1, SameEntities DEF NameOf
  <2>6. HasKey(NameOf(e), "entity")'
    BY <2>3, <2>5 DEF HasKey
  <2>7. QED
    BY <1>9, <2>4, <2>6 DEF Settled
<1>10. RootOpen => FirstFramesStay
  BY <1>2, <1>3, <1>4, <1>7, <1>9, DoneFrames
<1>11. QED
  BY <1>2, <1>3, <1>7, <1>8, <1>10, KeysInvStays

(***************************************************************************)
(* A call returns.  What was called is an object or an interface that is   *)
(* known by its own name, unless a scalar took that; the frame that        *)
(* returns owes nothing and constructs nothing.                            *)
(***************************************************************************)
Returned(k, fr) ==
  /\ k \in Nat \ {0} /\ Len(stack) = k + 1 /\ DOMAIN stack = 1 .. k + 1
  /\ stack[k].calls \in Seq(CallSet) /\ stack[k].calls # <<>>
  /\ Head(stack[k].calls).op = "create" /\ Head(stack[k].calls).decl = stack[k + 1].decl
  /\ stack[k + 1].calls = <<>> /\ FrameFits(stack[k + 1]) /\ stack[k + 1].name \in DOMAIN types
  /\ Len(stack') = k /\ DOMAIN stack' = 1 .. k
  /\ \A i \in 1 .. k - 1 : stack'[i] = stack[i]
  /\ stack'[k] = fr
  /\ fr.decl = stack[k].decl /\ fr.name = stack[k].name /\ fr.calls = Tail(stack[k].calls)
  /\ Pending(fr) <=> Pending(stack[k])

LEMMA ReturnedStack ==
  ASSUME Compiles(program), Building, Len(stack) > 1, Top.calls = <<>>,
         stack' = Replaced(Below, ReturnedTo(Last(Below), RefsReturned(Head(Last(Below).calls), Top.name)))
  PROVE  \E k \in Nat : \E fr \in FrameSet : Returned(k, fr)
<1>1. PICK caller, call, top : caller = Last(Below) /\ call = Head(caller.calls) /\ top = Top
  OBVIOUS
<1>2. /\ Len(stack) \in Nat /\ DOMAIN stack = 1 .. Len(stack)
      /\ Len(stack) \in DOMAIN stack /\ Len(stack) - 1 \in DOMAIN stack
      /\ Below \in Seq(FrameSet) /\ Below # <<>> /\ Len(Below) = Len(stack) - 1
      /\ \A i \in 1 .. Len(stack) - 1 : Below[i] = stack[i]
      /\ top = stack[Len(stack)] /\ caller = stack[Len(stack) - 1]
      /\ caller \in FrameSet /\ FrameFits(caller) /\ caller.calls # <<>>
      /\ call.op = "create" /\ call.decl = top.decl
  BY <1>1, CallerFacts DEF Building
<1>3. PICK k \in 1 .. Len(stack) : k = Len(stack) - 1
  BY <1>2
<1>4. k \in Nat \ {0} /\ Len(stack) = k + 1 /\ DOMAIN stack = 1 .. k + 1 /\ top = stack[k + 1] /\ caller = stack[k]
  BY <1>2, <1>3
<1>5. PICK d \in Decls : d = caller.decl
  BY <1>2 DEF FrameSet
<1>6. caller.calls \in Seq(FitCalls(d)) /\ caller.calls \in Seq(CallSet)
  BY <1>2, <1>5 DEF FrameFits, FrameSet
<1>7. call \in FitCalls(d)
  BY <1>1, <1>2, <1>6, HeadTailProperties
<1>8. /\ top \in FrameSet /\ FrameFits(top) /\ top.name \in DOMAIN types
      /\ program.ignore_name_conflicts = {} => StandsFor(top.name, top.decl)
  BY <1>2 DEF Building, StackTyped, StackInv, MeaningInv
<1>9. PICK more : more = RefsReturned(call, top.name)
  OBVIOUS
<1>10. more \in Seq(FitRefs(Kind(d)))
  BY <1>2, <1>7, <1>8, <1>9, ReturnedRefs
<1>11. PICK fr : fr = ReturnedTo(caller, more)
  OBVIOUS
<1>12. Head(caller.calls).op # "close" /\ more \in Seq(FitRefs(Kind(caller.decl)))
  BY <1>1, <1>2, <1>5, <1>10
<1>13. fr \in FrameSet /\ fr.decl = caller.decl /\ fr.name = caller.name /\ (Pending(fr) <=> Pending(caller))
  BY <1>2, <1>11, <1>12, CallerFits
<1>14. fr.calls = Tail(caller.calls)
  BY <1>2, <1>11 DEF ReturnedTo, FrameSet
<1>15. ReplacedFacts(FrameSet, Below, fr, stack')
  BY <1>1, <1>2, <1>9, <1>11, <1>13, ReplaceTop
<1>16. /\ Len(stack') = k /\ DOMAIN stack' = 1 .. k
       /\ \A i \in 1 .. k - 1 : stack'[i] = stack[i]
       /\ stack'[k] = fr
  <2>1. Len(Below) = k /\ \A i \in 1 .. k - 1 : Below[i] = stack[i]
    BY <1>2, <1>3, <1>4
  <2>2. /\ Len(stack') = k /\ DOMAIN stack' = 1 .. k
        /\ \A i \in 1 .. k - 1 : stack'[i] = Below[i]
        /\ stack'[k] = fr
    BY <1>15, <2>1 DEF ReplacedFacts
  <2>3. QED
    BY <2>1, <2>2
<1>17. top.calls = <<>>
  BY <1>1
<1>18. k \in Nat /\ Returned(k, fr)
  BY <1>1, <1>2, <1>4, <1>6, <1>8, <1>13, <1>14, <1>16, <1>17 DEF Returned
<1>19. QED
  BY <1>13, <1>18

LEMMA ReturnedUnopened ==
  ASSUME NEW k, NEW fr, Returned(k, fr)
  PROVE  \A n : Unopened(n)' <=> Unopened(n)
<1>1. PICK new : new = stack'
  OBVIOUS
<1>2. \A n : Unopened(n)' <=> \A i \in DOMAIN new : new[i].name = n => ~Pending(new[i])
  <2>1. \A f : Pending(f)' <=> Pending(f)
    BY DEF Pending
  <2>2. \A i : Pending(stack[i])' <=> Pending(new[i])
    BY <1>1 DEF Pending
  <2>3. QED
    BY <1>1, <2>2 DEF Unopened
<1>3. ~Pending(stack[k + 1])
  BY DEF Returned, Pending
<1>4. \A i \in 1 .. k : new[i].name = stack[i].name /\ (Pending(new[i]) <=> Pending(stack[i]))
  <2> SUFFICES ASSUME NEW i \in 1 .. k
               PROVE  new[i].name = stack[i].name /\ (Pending(new[i]) <=> Pending(stack[i]))
    OBVIOUS
  <2>1. k \in Nat
    BY DEF Returned
  <2>2. CASE i = k
    BY <1>1, <2>2 DEF Returned
  <2>3. CASE i # k
    <3>1. i \in 1 .. k - 1
      BY <2>1, <2>3
    <3>2. new[i] = stack[i]
      BY <1>1, <3>1 DEF Returned
    <3>3. QED
      BY <3>2
  <2>4. QED
    BY <2>2, <2>3
<1>5. k \in Nat /\ DOMAIN stack = 1 .. k + 1 /\ DOMAIN new = 1 .. k
  BY <1>1 DEF Returned
<1>6. ASSUME NEW n PROVE Unopened(n)' <=> Unopened(n)
  <2>1. Unopened(n) <=> \A i \in 1 .. k : stack[i].name = n => ~Pending(stack[i])
    <3>1. \A i \in 1 .. k + 1 : i \in 1 .. k \/ i = k + 1
      BY <1>5
    <3>2. \A i \in 1 .. k : i \in 1 .. k + 1
      BY <1>5
    <3>3. QED
      BY <1>3, <1>5, <3>1, <3>2 DEF Unopened
  <2>2. Unopened(n)' <=> \A i \in 1 .. k : new[i].name = n => ~Pending(new[i])
    BY <1>2, <1>5
  <2>3. QED
    BY <1>4, <2>1, <2>2
<1>7. QED
  BY <1>6

LEMMA ReturnedOwed ==
  ASSUME program' = program, types' = types, Compiles(program), TypesInv, StepKeeps,
         NEW k, NEW fr, Returned(k, fr),
         NEW d \in Decls, NEW e \in FoundEntities(d),
         NEW i \in 1 .. k, OwedIn(stack[i].calls, e)
  PROVE  OwedIn(stack[i].calls, e)'
<1>1. PICK calls, rest : calls = stack[i].calls /\ rest = stack'[i].calls
  OBVIOUS
<1>2. OwedIn(calls, e) /\ (Made(e) => Made(e)')
  BY <1>1, EntitiesStay
<1>3. k \in Nat
  BY DEF Returned
<1>4. CASE i # k
  <2>1. i \in 1 .. k - 1
    BY <1>3, <1>4
  <2>2. rest = calls
    BY <1>1, <2>1 DEF Returned
  <2>3. OwedIn(calls, e)'
    BY <1>2, OwedStays
  <2>4. QED
    BY <1>1, <2>2, <2>3, OwedHere
<1>5. CASE i = k
  <2>1. /\ calls \in Seq(CallSet) /\ calls # <<>> /\ rest = Tail(calls)
        /\ Head(calls).op = "create" /\ Head(calls).decl = stack[k + 1].decl
        /\ FrameFits(stack[k + 1]) /\ stack[k + 1].name \in DOMAIN types
    BY <1>1, <1>5 DEF Returned
  <2>2. ASSUME Head(calls).decl = e PROVE Made(e)'
    <3>1. PICK top, n : top = stack[k + 1] /\ n = NameOf(e)
      OBVIOUS
    <3>2. Kind(e) \in {"Object", "Interface"} /\ n \notin ScalarNames
      BY <3>1, EntityFacts
    <3>3. top.decl = e /\ top.name = n /\ types[n].kind \in {"Scalar", Kind(e)} /\ n \in DOMAIN types
      BY <2>1, <2>2, <3>1, <3>2 DEF FrameFits, NameOf
    <3>4. types[n].kind # "Scalar"
      BY <3>2, <3>3 DEF TypesInv
    <3>5. Made(e)
      BY <3>1, <3>3, <3>4 DEF Made
    <3>6. QED
      BY <1>2, <3>5
  <2>3. Head(calls) # KeyCall(e)
    BY <2>1 DEF KeyCall
  <2>4. OwedIn(rest, e)'
    BY <1>2, <2>1, <2>2, <2>3, OwedTail
  <2>5. QED
    BY <1>1, <2>4, OwedHere
<1>6. QED
  BY <1>4, <1>5

LEMMA ReturnedFrames ==
  ASSUME program' = program, types' = types, Compiles(program), TypesInv, StepKeeps, RootOpen,
         NEW k, NEW fr, Returned(k, fr)
  PROVE  FirstFramesStay
<1>1. k \in Nat \ {0} /\ 1 \in 1 .. k
  BY DEF Returned
<1>2. QueryDecl \in Decls /\ QueryParts \subseteq Decls
  BY RootFacts
<1>3. ASSUME NEW e \in FoundEntities(QueryDecl), OwedIn(stack[1].calls, e)
      PROVE  OwedIn(stack[1].calls, e)'
  BY <1>1, <1>2, <1>3, ReturnedOwed
<1>4. ASSUME NEW p \in QueryParts, NEW e \in FoundEntities(p), OwedByPart(p, e)
      PROVE  OwedByPart(p, e)'
  <2>1. PICK calls, rest : calls = stack[1].calls /\ rest = stack'[1].calls
    OBVIOUS
  <2>2. Len(stack) > 1
    BY <1>1 DEF Returned
  <2>3. PICK i \in DOMAIN calls :
          /\ calls[i].op = "create" /\ calls[i].decl = p
          /\ i = 1 => OwedIn(stack[2].calls, e)
    BY <1>4, <2>1, <2>2 DEF OwedByPart
  <2>4. CASE k = 1
    <3>1. stack[2].calls = <<>> /\ Len(stack') = 1
      BY <2>4 DEF Returned
    <3>2. ~OwedIn(stack[2].calls, e)
      BY <3>1 DEF OwedIn
    <3>3. calls \in Seq(CallSet) /\ calls # <<>> /\ rest = Tail(calls)
      BY <2>1, <2>4 DEF Returned
    <3>4. Without(CallSet, calls, rest)
      BY <3>3, TailFacts
    <3>5. PICK j \in DOMAIN rest : rest[j] = calls[i]
      BY <2>3, <3>2, <3>4 DEF Without
    <3>6. ~(Len(stack') > 1)
      BY <3>1
    <3>7. QED
      BY <2>1, <2>3, <3>5, <3>6, PartOwedHere
  <2>5. CASE k > 1
    <3>1. 1 \in 1 .. k - 1 /\ 2 \in 1 .. k
      BY <1>1, <2>5
    <3>2. rest = calls
      BY <2>1, <3>1 DEF Returned
    <3>3. i = 1 => OwedIn(stack[2].calls, e)'
      BY <1>2, <2>3, <3>1, ReturnedOwed
    <3>4. QED
      BY <2>1, <2>3, <3>2, <3>3, PartOwedHere
  <2>6. QED
    BY <1>1, <2>4, <2>5
<1>5. stack' # <<>>
  <2>1. Len(stack') # 0
    BY <1>1 DEF Returned
  <2>2. QED
    BY <2>1
<1>6. stack'[1].decl = stack[1].decl
  <2>1. CASE k = 1
    BY <2>1 DEF Returned
  <2>2. CASE k > 1
    <3>1. 1 \in 1 .. k - 1
      BY <1>1, <2>2
    <3>2. QED
      BY <3>1 DEF Returned
  <2>3. QED
    BY <1>1, <2>1, <2>2
<1>7. QED
  BY <1>3, <1>4, <1>5, <1>6 DEF FirstFramesStay

LEMMA ReturnServes ==
  ASSUME RegistryInv, KeysInv, Return
  PROVE  KeysInv'
<1>1. /\ phase \in {"register", "extra"} /\ Len(stack) > 1 /\ Top.calls = <<>>
      /\ program' = program /\ types' = types /\ keys' = keys
  BY DEF Return
<1>2. Building /\ TypesInv /\ Compiles(program)
  BY <1>1, Unbuilt DEF Building
<1>3. stack # <<>>
  BY <1>1, <1>2, EmptySeq DEF Building, StackTyped
<1>4. KeysTrue /\ ~NotBegun
  BY <1>3 DEF KeysInv, NotBegun
<1>5. CASE stack' = stack
  BY <1>1, <1>2, <1>4, <1>5, SameKeys
<1>6. CASE stack' = Replaced(Below, ReturnedTo(Last(Below), RefsReturned(Head(Last(Below).calls), Top.name)))
  <2>1. PICK k \in Nat, fr \in FrameSet : Returned(k, fr)
    BY <1>1, <1>2, <1>6, ReturnedStack
  <2>2. \A n : Unopened(n)' <=> Unopened(n)
    BY <2>1, ReturnedUnopened
  <2>3. \A n, key : HasKey(n, key)' <=> HasKey(n, key)
    BY <1>1 DEF HasKey
  <2>4. StepKeeps
    BY <1>1, <2>2, <2>3 DEF StepKeeps, NameStays
  <2>5. KeysTrue'
    BY <1>1, <1>4, <2>2, <2>3, KeysTrueStays
  <2>6. RootOpen => FirstFramesStay
    BY <1>1, <1>2, <2>1, <2>4, ReturnedFrames
  <2>7. QED
    BY <1>1, <1>2, <1>4, <2>4, <2>5, <2>6, KeysInvStays
<1>7. QED
  BY <1>5, <1>6 DEF Return, Replaced, ReturnedTo

(***************************************************************************)
(* When the outermost call returns nothing is owed any more, and a type    *)
(* that has a key is in use.                                               *)
(***************************************************************************)
LEMMA EndRootServes ==
  ASSUME RegistryInv, KeysInv, EndRoot
  PROVE  KeysInv'
<1>1. /\ phase \in {"register", "extra"} /\ Len(stack) = 1 /\ Top.calls = <<>>
      /\ stack' = <<>> /\ program' = program /\ types' = types /\ keys' = keys
  BY DEF EndRoot
<1>2. Building /\ Compiles(program)
  BY <1>1, Unbuilt
<1>3. DOMAIN stack = {1} /\ stack[1].calls = <<>> /\ stack # <<>>
  <2>1. stack \in Seq(FrameSet) /\ stack # <<>>
    <3>1. stack \in Seq(FrameSet)
      BY <1>2 DEF Building, StackTyped
    <3>2. Len(stack) # 0
      BY <1>1
    <3>3. stack # <<>>
      BY <3>2
    <3>4. QED
      BY <3>1, <3>3
  <2>2. DOMAIN stack = 1 .. Len(stack) /\ Last(stack) = stack[Len(stack)]
    BY <2>1, TopFacts
  <2>3. QED
    BY <1>1, <2>1, <2>2 DEF Top
<1>4. \A n : Unopened(n) /\ Unopened(n)'
  <2>1. DOMAIN stack' = {}
    BY <1>1
  <2>2. ~Pending(stack[1])
    BY <1>3 DEF Pending
  <2>3. QED
    BY <1>3, <2>1, <2>2 DEF Unopened
<1>5. \A n, key : HasKey(n, key)' <=> HasKey(n, key)
  BY <1>1 DEF HasKey
<1>6. StepKeeps
  BY <1>1, <1>4, <1>5 DEF StepKeeps, NameStays
<1>7. KeysTrue /\ RootMade /\ (RootOpen \/ AllSettled)
  BY <1>3 DEF KeysInv, NotBegun
<1>8. KeysTrue'
  BY <1>1, <1>4, <1>5, <1>7, KeysTrueStays
<1>9. AllSettled
  <2> SUFFICES ASSUME RootOpen, NEW e \in EntityDecls PROVE Settled(e)
    BY <1>7 DEF AllSettled
  <2>1. PICK d \in {QueryDecl} \cup QueryParts : e \in FoundEntities(d)
    BY <1>2, RootFacts
  <2>2. ~OwedIn(stack[1].calls, e) /\ ~OwedByPart(d, e)
    BY <1>3 DEF OwedIn, OwedByPart
  <2>3. QED
    BY <2>1, <2>2 DEF RootOpen
<1>10. RootMade' /\ AllSettled'
  BY <1>1, <1>2, <1>6, <1>7, <1>9, RootMadeStays, AllSettledStays
<1>11. QED
  BY <1>8, <1>10 DEF KeysInv

LEMMA KeyedType ==
  ASSUME NEW n \in DOMAIN types, NEW key, HasKey(n, key)
  PROVE  n \in KeyedTypes /\ KeysOf(n) = keys[n] /\ key \in Range(KeysOf(n))
<1>1. PICK ks : ks = keys[n]
  OBVIOUS
<1>2. KeysOf(n) = ks
  BY <1>1 DEF HasKey, KeysOf
<1>3. PICK i \in DOMAIN ks : ks[i] = key
  BY <1>1 DEF HasKey
<1>4. ks # <<>>
  BY <1>3
<1>5. key \in Range(ks)
  BY <1>3 DEF Range
<1>6. QED
  BY <1>1, <1>2, <1>4, <1>5 DEF KeyedTypes

LEMMA RootsOfProgram ==
  ASSUME Compiles(program)
  PROVE  NameOf(QueryDecl) \in Roots
<1>1. 1 \in DOMAIN program.roots
  BY RootFacts
<1>2. QED
  BY <1>1 DEF Roots, NameOf, QueryDecl

LEMMA RemoveServes ==
  ASSUME RegistryInv, KeysInv, remove_unused_types
  PROVE  KeysInv'
<1> DEFINE D == DOMAIN types
           next == [n \in D |-> Targets(n) \cap D]
           start == (DirectiveTargets \cup Roots \cup KeyedTypes) \cap D
<1>1. PICK used : used = Reach(next, start)
  OBVIOUS
<1>2. /\ phase = "register" /\ stack = <<>> /\ todo = <<>> /\ stack' = stack
      /\ types' = [n \in used |-> types[n]] /\ program' = program /\ keys' = keys
  BY <1>1 DEF remove_unused_types
<1>3. Building /\ Compiles(program)
  BY <1>2, Unbuilt
<1>4. used \in SUBSET D /\ start \subseteq used
  <2>1. IsFiniteSet(D) /\ next \in [D -> SUBSET D] /\ start \in SUBSET D
    BY <1>3 DEF Building, TypesInv
  <2> HIDE DEF D, next, start
  <2>2. QED
    BY <1>1, <2>1, ReachClosed
<1>5. DOMAIN types' = used /\ \A n \in used : types'[n] = types[n] /\ n \in DOMAIN types
  BY <1>2, <1>4
<1>6. KeysTrue /\ RootMade /\ AllSettled
  BY <1>2 DEF KeysInv, NotBegun, RootOpen
<1>7. \A n : Unopened(n) /\ Unopened(n)'
  BY <1>2 DEF Unopened
<1>8. \A n, key : HasKey(n, key)' <=> HasKey(n, key)
  BY <1>2 DEF HasKey
<1>9. KeysTrue'
  BY <1>2, <1>5, <1>6, <1>7, <1>8, KeysTrueStays
<1>10. RootMade'
  <2>1. PICK n : n = NameOf(QueryDecl)
    OBVIOUS
  <2>2. n \in Roots /\ n \in DOMAIN types /\ types[n].kind = "Object"
    BY <1>3, <1>6, <2>1, RootsOfProgram DEF RootMade
  <2>3. n \in used
    BY <1>4, <2>2
  <2>4. QueryDecl' = QueryDecl /\ NameOf(QueryDecl)' = n
    BY <1>2, <2>1, SameEntities DEF NameOf
  <2>5. QED
    BY <1>5, <2>2, <2>3, <2>4 DEF RootMade
<1>11. ASSUME NEW e \in EntityDecls PROVE Settled(e)'
  <2>1. PICK n, kind : n = NameOf(e) /\ kind = Kind(e)
    OBVIOUS
  <2>2. n \in DOMAIN types /\ types[n].kind = kind /\ HasKey(n, "entity")
    BY <1>6, <2>1 DEF AllSettled, Settled, Made
  <2>3. n \in KeyedTypes
    BY <2>2, KeyedType
  <2>4. n \in used
    BY <1>4, <2>2, <2>3
  <2>5. NameOf(e)' = n /\ Kind(e)' = kind
    BY <1>2, <2>1, SameEntities
  <2>6. Made(e)'
    BY <1>5, <2>2, <2>4, <2>5 DEF Made
  <2>7. Unopened(NameOf(e))' /\ HasKey(NameOf(e), "entity")'
    <3>1. Unopened(n)' /\ HasKey(n, "entity")'
      BY <1>7, <1>8, <2>2
    <3>2. QED
      BY <2>5, <3>1 DEF Unopened, HasKey
  <2>8. QED
    BY <2>6, <2>7 DEF Settled
<1>12. AllSettled'
  <2>1. EntityDecls' = EntityDecls
    BY <1>2, SameEntities
  <2>2. QED
    BY <1>11, <2>1 DEF AllSettled
<1>13. QED
  BY <1>9, <1>10, <1>12 DEF KeysInv

(***************************************************************************)
(* What the end of the build adds: the union holds the possible types of   *)
(* the entities, and the query root refers to it when there is any.        *)
(***************************************************************************)
RangesJoin(s, t, u) == Range(u) = Range(s) \cup Range(t)

LEMMA ConcatRange ==
  ASSUME NEW S, NEW s \in Seq(S), NEW t \in Seq(S)
  PROVE  RangesJoin(s, t, s \o t)
<1>0. PICK u : u = s \o t
  OBVIOUS
<1>1. Joined(S, s, t, u) /\ Placed(S, s, t, u)
  BY <1>0, ConcatJoins, ConcatPlaces
<1>2. /\ Len(s) \in Nat /\ Len(t) \in Nat /\ DOMAIN s = 1 .. Len(s) /\ DOMAIN t = 1 .. Len(t)
      /\ DOMAIN u = 1 .. Len(s) + Len(t)
  BY <1>1, LenProperties DEF Placed
<1>3. \A i \in DOMAIN s : i \in DOMAIN u /\ u[i] = s[i]
  BY <1>1, <1>2 DEF Placed
<1>4. \A i \in DOMAIN t : Len(s) + i \in DOMAIN u /\ u[Len(s) + i] = t[i]
  BY <1>1, <1>2 DEF Placed
<1>5. \A i \in DOMAIN u : u[i] \in Range(s) \cup Range(t)
  BY <1>1 DEF Joined, Range
<1>6. Range(u) \subseteq Range(s) \cup Range(t)
  BY <1>5 DEF Range
<1>7. Range(s) \subseteq Range(u) /\ Range(t) \subseteq Range(u)
  BY <1>3, <1>4 DEF Range
<1>8. RangesJoin(s, t, u)
  BY <1>6, <1>7 DEF RangesJoin
<1>9. QED
  BY <1>8, <1>0

LEMMA SequenceOfSet ==
  ASSUME NEW S, IsFiniteSet(S), NEW s, s = SetToSeq(S)
  PROVE  s \in Seq(S) /\ Range(s) = S /\ (s = <<>> <=> S = {})
<1> DEFINE n == Cardinality(S)
<1>1. n \in Nat
  BY FS_CardinalityType
<1>2. s \in [1 .. n -> S] /\ IsInjective(s) /\ s \in Seq(S)
  BY SetSequence
<1>3. s \in Injection(1 .. n, S)
  BY <1>2 DEF Injection
<1>4. Cardinality(1 .. n) = n
  <2> HIDE DEF n
  <2> QED BY <1>1, FS_Interval
<1>5. s \in Surjection(1 .. n, S)
  <2>1. Cardinality(1 .. n) = Cardinality(S)
    BY <1>4
  <2> HIDE DEF n
  <2>2. QED
    BY <1>3, <2>1, FS_Injection
<1>6. \A x \in S : \E i \in 1 .. n : s[i] = x
  BY <1>5 DEF Surjection
<1> HIDE DEF n
<1>7. Range(s) = S
  BY <1>2, <1>6 DEF Range
<1>8. s = <<>> => S = {}
  BY <1>7 DEF Range
<1>9. S = {} => s = <<>>
  BY <1>2
<1>10. QED
  BY <1>2, <1>7, <1>8, <1>9

PossibleIn(refs) == {r.to : r \in {s \in Range(refs) : s.role = "possible"}}

Federated(T) ==
  /\ DOMAIN types \subseteq DOMAIN T
  /\ Entity \in DOMAIN T <=> entity_possible_types # {}
  /\ \A n \in DOMAIN types : /\ T[n].kind = types[n].kind /\ T[n].rust = types[n].rust
                             /\ n # NameOf(QueryDecl) => T[n].refs = types[n].refs
  /\ Entity \in DOMAIN T <=> \E r \in Range(T[NameOf(QueryDecl)].refs) : r.to = Entity
  /\ Entity \in DOMAIN T => PossibleIn(T[Entity].refs) = entity_possible_types

LEMMA FederationTypes ==
  ASSUME Building, Compiles(program), RootMade
  PROVE  Federated(create_federation_types)
<1>1. PICK S, possible : S = entity_possible_types /\ possible = SetToSeq(S)
  OBVIOUS
<1>2. PICK q : q = NameOf(QueryDecl)
  OBVIOUS
<1> DEFINE query == Roots \cap {Decl(program.roots[1]).name}
           ServiceType == [kind |-> "Object", rust |-> "Service", name |-> Service, marks |-> {},
                           refs |-> <<>>]
           possibleRefs == [i \in DOMAIN possible |->
                              [role |-> "possible", path |-> <<>>, decl |-> "federation",
                               marks |-> {}, to |-> possible[i]]]
           EntityType == [kind |-> "Union", rust |-> "Entity", name |-> Entity, marks |-> {},
                          refs |-> possibleRefs]
           service == Insert(types, Service, ServiceType)
           entity == IF possible = <<>> THEN service ELSE Insert(service, Entity, EntityType)
           ofService == <<FederationRef("_service", Service)>>
           ofEntity == IF possible = <<>> THEN <<>> ELSE <<FederationRef("_entities", Entity)>>
           added == ofService \o ofEntity
           T == [n \in DOMAIN entity |->
                   IF n \in query THEN [entity[n] EXCEPT !.refs = @ \o added] ELSE entity[n]]
<1>3. create_federation_types = T
  BY <1>1 DEF create_federation_types
<1>4. IsFiniteSet(DOMAIN types) /\ Entity \notin DOMAIN types /\ Service \notin DOMAIN types
  BY DEF Building, TypesInv
<1>5. Entity # Service
  BY DEF Entity, Service
<1>6. possible \in Seq(S) /\ Range(possible) = S /\ (possible = <<>> <=> S = {})
  <2>1. IsFiniteSet(S)
    BY <1>1, <1>4, EntityTypesExist, FS_Subset
  <2>2. QED
    BY <1>1, <2>1, SequenceOfSet
<1>7. q \in DOMAIN types /\ q # Entity /\ q # Service /\ query = {q}
  <2>1. q \in DOMAIN types /\ q # Entity /\ q # Service
    BY <1>2, <1>4 DEF RootMade
  <2>2. q \in Roots /\ q = Decl(program.roots[1]).name
    BY <1>2, RootsOfProgram DEF NameOf, QueryDecl
  <2>3. QED
    BY <2>1, <2>2
<1>8. /\ DOMAIN service = DOMAIN types \cup {Service}
      /\ \A n \in DOMAIN types : service[n] = types[n]
  BY <1>4 DEF Insert
<1>9. /\ DOMAIN types \subseteq DOMAIN entity /\ (Entity \in DOMAIN entity <=> S # {})
      /\ \A n \in DOMAIN types : entity[n] = types[n]
      /\ S # {} => entity[Entity] = EntityType
  <2> HIDE DEF ServiceType, EntityType, service
  <2>1. CASE possible = <<>>
    BY <1>4, <1>5, <1>6, <1>8, <2>1
  <2>2. CASE possible # <<>>
    <3>1. entity = Insert(service, Entity, EntityType)
      BY <2>2
    <3>2. /\ DOMAIN entity = DOMAIN types \cup {Service, Entity}
          /\ \A n \in DOMAIN entity : entity[n] = IF n = Entity THEN EntityType ELSE service[n]
      BY <1>8, <3>1 DEF Insert
    <3> HIDE DEF entity
    <3>3. QED
      BY <1>4, <1>6, <1>8, <2>2, <3>2
  <2>3. QED
    BY <2>1, <2>2
<1>10. PICK old, new : old = types[q].refs /\ new = old \o added
  OBVIOUS
<1>11. /\ DOMAIN T = DOMAIN entity
       /\ \A n \in DOMAIN types : n # q => T[n] = types[n]
       /\ S # {} => T[Entity] = EntityType
       /\ T[q] = [types[q] EXCEPT !.refs = new]
  <2>1. DOMAIN T = DOMAIN entity
    OBVIOUS
  <2> HIDE DEF entity, query, added, EntityType
  <2>2. QED
    BY <1>7, <1>9, <1>10, <2>1
<1>12. Range(new) = Range(old) \cup Range(added)
       /\ Range(added) = Range(ofService) \cup Range(ofEntity)
  <2> DEFINE V == RefSet \cup {FederationRef("_service", Service), FederationRef("_entities", Entity)}
  <2>1. old \in Seq(V)
    <3>1. old \in Seq(RefSet)
      BY <1>7, <1>10 DEF Building, TypesTyped, TypeSet
    <3>2. RefSet \subseteq V
      OBVIOUS
    <3> HIDE DEF V
    <3>3. QED
      BY <3>1, <3>2, SeqMonotonic
  <2>2. ofService \in Seq(V) /\ ofEntity \in Seq(V)
    <3>1. FederationRef("_service", Service) \in V /\ FederationRef("_entities", Entity) \in V
      OBVIOUS
    <3> HIDE DEF V
    <3>2. QED
      BY <3>1
  <2>3. PICK one, two : one = ofService /\ two = ofEntity
    OBVIOUS
  <2>4. PICK both : both = one \o two
    OBVIOUS
  <2>5. both = added
    BY <2>3, <2>4
  <2> HIDE DEF V, ofService, ofEntity, added
  <2>6. PICK W : W = V
    OBVIOUS
  <2>7. one \in Seq(W) /\ two \in Seq(W) /\ old \in Seq(W)
    BY <2>1, <2>2, <2>3, <2>6
  <2>8. both \in Seq(W)
    BY <2>4, <2>7
  <2>9. Range(both) = Range(one) \cup Range(two)
    <3>1. RangesJoin(one, two, one \o two)
      BY <2>7, ConcatRange
    <3>2. QED
      BY <2>4, <3>1 DEF RangesJoin
  <2>10. new = old \o both
    BY <1>10, <2>5
  <2>11. Range(new) = Range(old) \cup Range(both)
    <3>1. RangesJoin(old, both, old \o both)
      BY <2>7, <2>8, ConcatRange
    <3>2. QED
      BY <2>10, <3>1 DEF RangesJoin
  <2>12. QED
    BY <2>3, <2>5, <2>9, <2>11
<1>13. Range(ofService) = {FederationRef("_service", Service)}
       /\ Range(ofEntity) = IF S = {} THEN {} ELSE {FederationRef("_entities", Entity)}
  BY <1>6 DEF Range
<1>14. \A r \in Range(old) : r.to # Entity
  <2>1. TargetsExist(old)
    BY <1>7, <1>10 DEF Building, TypesInv
  <2>2. QED
    BY <1>4, <2>1 DEF TargetsExist, Range
<1>15. (\E r \in Range(new) : r.to = Entity) <=> S # {}
  <2> HIDE DEF ofService, ofEntity, added
  <2>1. FederationRef("_service", Service).to = Service /\ FederationRef("_entities", Entity).to = Entity
    BY DEF FederationRef
  <2>2. QED
    BY <1>5, <1>12, <1>13, <1>14, <2>1
<1>16. T[q].refs = new /\ T[q].kind = types[q].kind /\ T[q].rust = types[q].rust
  <2>1. types[q] \in TypeSet
    BY <1>7 DEF Building, TypesTyped
  <2> HIDE DEF T
  <2>2. QED
    BY <1>11, <2>1 DEF TypeSet
<1>17. S # {} => PossibleIn(T[Entity].refs) = S
  <2> SUFFICES ASSUME S # {} PROVE PossibleIn(T[Entity].refs) = S
    OBVIOUS
  <2>1. T[Entity].refs = possibleRefs
    <3> HIDE DEF T, possibleRefs
    <3> QED BY <1>11
  <2>2. DOMAIN possibleRefs = DOMAIN possible
    OBVIOUS
  <2>3. \A i \in DOMAIN possible : possibleRefs[i].role = "possible" /\ possibleRefs[i].to = possible[i]
    OBVIOUS
  <2> HIDE DEF possibleRefs, T
  <2>4. PossibleIn(possibleRefs) = Range(possible)
    BY <2>2, <2>3 DEF PossibleIn, Range
  <2>5. QED
    BY <1>6, <2>1, <2>4
<1>18. Federated(T)
  <2> HIDE DEF T, entity, added, EntityType
  <2>1. \A n \in DOMAIN types : /\ T[n].kind = types[n].kind /\ T[n].rust = types[n].rust
                                /\ n # q => T[n].refs = types[n].refs
    BY <1>11, <1>16
  <2>2. DOMAIN types \subseteq DOMAIN T /\ (Entity \in DOMAIN T <=> S # {})
    BY <1>9, <1>11
  <2>3. Entity \in DOMAIN T <=> \E r \in Range(T[q].refs) : r.to = Entity
    BY <1>15, <1>16, <2>2
  <2>4. QED
    BY <1>1, <1>2, <1>17, <2>1, <2>2, <2>3 DEF Federated
<1>19. QED
  <2> HIDE DEF T
  <2> QED BY <1>3, <1>18

(***************************************************************************)
(* The property of the types the build ends with: what was owed is in the  *)
(* union, since the keys that were added stay and their types too.         *)
(***************************************************************************)
ServedIn(T, e) ==
  LET n == NameOf(e) IN
  /\ n \in DOMAIN T /\ T[n].kind = Kind(e)
  /\ T[n].kind = "Object" /\ T[n].rust = Decl(e).rust /\ ~Decl(e).unresolvable =>
       Entity \in DOMAIN T /\ n \in PossibleIn(T[Entity].refs)
  /\ T[n].kind = "Interface" =>
       \A m \in PossibleIn(T[n].refs) : T[m].kind = "Object" =>
         Entity \in DOMAIN T /\ m \in PossibleIn(T[Entity].refs)

EntitiesIn(T) ==
  /\ Entity \in DOMAIN T <=> \E r \in Range(T[NameOf(QueryDecl)].refs) : r.to = Entity
  /\ Entity \in DOMAIN T => \A n \in PossibleIn(T[Entity].refs) : T[n].kind = "Object"
  /\ \A e \in EntityDecls : ServedIn(T, e)

LEMMA ServedAfter ==
  ASSUME program' = program, NEW T, types' = T, EntitiesIn(T)
  PROVE  EntitiesServed'
<1>1. \A n : PossibleTypes(n)' = PossibleIn(T[n].refs) /\ RefsOf(n)' = Range(T[n].refs)
  BY DEF PossibleTypes, RefsOf, PossibleIn
<1>2. QueryDecl' = QueryDecl /\ EntityDecls' = EntityDecls /\ \A d : Decl(d)' = Decl(d)
  BY SameEntities
<1>3. ASSUME NEW e \in EntityDecls PROVE EntityServed(e)'
  <2>1. ServedIn(T, e)
    BY DEF EntitiesIn
  <2>2. PICK n, decl : n = NameOf(e) /\ decl = Decl(e)
    OBVIOUS
  <2>3. decl.name = n /\ decl.kind = Kind(e)
    BY <2>2 DEF NameOf, Kind
  <2>4. Decl(e)' = decl
    BY <1>2, <2>2
  <2>5. QED
    BY <1>1, <2>1, <2>2, <2>3, <2>4 DEF ServedIn, EntityServed
<1>4. \A e \in EntityDecls' : EntityServed(e)'
  BY <1>2, <1>3
<1>5. (Entity \in DOMAIN types <=> \E r \in RefsOf(Decl(QueryDecl).name) : r.to = Entity)'
  BY <1>1, <1>2 DEF EntitiesIn, NameOf
<1>6. (Entity \in DOMAIN types => \A n \in PossibleTypes(Entity) : types[n].kind = "Object")'
  BY <1>1 DEF EntitiesIn
<1>7. QED
  BY <1>4, <1>5, <1>6 DEF EntitiesServed

LEMMA SettledType ==
  ASSUME Compiles(program), KeysTrue, stack = <<>>, NEW e \in EntityDecls, Settled(e),
         NEW n, n = NameOf(e)
  PROVE  /\ n \in DOMAIN types /\ n \in KeyedTypes /\ types[n].kind = Kind(e)
         /\ n # NameOf(QueryDecl) /\ Kind(e) \in {"Object", "Interface"}
         /\ types[n].kind = "Interface" => Resolvable(n)
         /\ types[n].kind = "Object" /\ types[n].rust = Decl(e).rust /\ ~Decl(e).unresolvable =>
              Resolvable(n)
<1>1. PICK p \in Decls : e \in FoundEntities(p)
  BY RootFacts
<1>2. e \in Decls /\ Kind(e) \in {"Object", "Interface"} /\ n # NameOf(QueryDecl)
  BY <1>1, EntityFacts
<1>3. n \in DOMAIN types /\ types[n].kind = Kind(e) /\ HasKey(n, "entity") /\ Unopened(n)
  BY DEF Settled, Made
<1>4. n \in KeyedTypes
  BY <1>3, KeyedType
<1>5. ASSUME types[n].kind = "Object", types[n].rust = Decl(e).rust, ~Decl(e).unresolvable
      PROVE  "unresolvable" \notin Range(KeysOf(n))
  <2>1. SUFFICES ASSUME "unresolvable" \in Range(KeysOf(n)) PROVE FALSE
    OBVIOUS
  <2>2. PICK ks : ks = keys[n]
    OBVIOUS
  <2>3. KeysOf(n) = ks
    BY <1>3, <2>2 DEF HasKey, KeysOf
  <2>4. \E i \in DOMAIN ks : ks[i] = "unresolvable"
    BY <2>1, <2>3 DEF Range
  <2>5. HasKey(n, "unresolvable")
    BY <1>3, <2>2, <2>4 DEF HasKey
  <2>6. PICK d \in Decls : Decl(d).unresolvable /\ MadeFrom(n, d)
    BY <1>3, <1>5, <2>5 DEF KeysTrue
  <2>7. Decl(d).rust = Decl(e).rust /\ Kind(d) = Kind(e)
    BY <1>3, <1>5, <2>6 DEF MadeFrom
  <2>8. d = e
    BY <1>2, <2>7, OneSide
  <2>9. QED
    BY <1>5, <2>6, <2>8
<1>6. QED
  BY <1>2, <1>3, <1>4, <1>5 DEF Resolvable

LEMMA PossibleEntities ==
  ASSUME IsFiniteSet(DOMAIN types)
  PROVE  /\ \A m \in entity_possible_types : m \in DOMAIN types /\ types[m].kind = "Object"
         /\ \A n \in KeyedTypes : types[n].kind = "Object" /\ Resolvable(n) => n \in entity_possible_types
         /\ \A n \in KeyedTypes : \A m \in PossibleTypes(n) \cap DOMAIN types :
              types[n].kind = "Interface" /\ types[m].kind = "Object" => m \in entity_possible_types
<1> DEFINE D == DOMAIN types
           next == [m \in D |-> IF types[m].kind = "Interface" THEN PossibleTypes(m) \cap D ELSE {}]
<1>1. \A m \in entity_possible_types : m \in DOMAIN types /\ types[m].kind = "Object"
  BY EntityTypesExist DEF entity_possible_types, collect_entity_interface_possible_types
<1>2. \A n \in KeyedTypes : types[n].kind = "Object" /\ Resolvable(n) => n \in entity_possible_types
  BY DEF entity_possible_types
<1>3. ASSUME NEW n \in KeyedTypes, NEW m \in PossibleTypes(n) \cap D, types[n].kind = "Interface",
             types[m].kind = "Object"
      PROVE  m \in entity_possible_types
  <2>1. n \in D
    BY DEF KeyedTypes
  <2>2. next \in [D -> SUBSET D] /\ {n} \in SUBSET D /\ next[n] = PossibleTypes(n) \cap D
    BY <1>3, <2>1
  <2>3. n \in Reach(next, {n}) /\ Closed(next, Reach(next, {n}))
    <3> HIDE DEF next, D
    <3>1. IsFiniteSet(D)
      BY DEF D
    <3>2. {n} \subseteq Reach(next, {n}) /\ Closed(next, Reach(next, {n}))
      BY <2>2, <3>1, ReachClosed
    <3>3. QED
      BY <3>2
  <2>4. m \in Reach(next, {n})
    <3> HIDE DEF next, D
    <3> QED BY <2>2, <2>3 DEF Closed
  <2>5. m \in collect_entity_interface_possible_types(n)
    BY <1>3, <2>4 DEF collect_entity_interface_possible_types
  <2>6. QED
    BY <1>3, <2>5 DEF entity_possible_types
<1>4. QED
  BY <1>1, <1>2, <1>3

LEMMA FinishedEntities ==
  ASSUME Building, Compiles(program), stack = <<>>, KeysTrue, RootMade, AllSettled,
         NEW T, Federated(T) \/ (T = types /\ ~has_entities)
  PROVE  EntitiesIn(T)
<1>1. IsFiniteSet(DOMAIN types) /\ Entity \notin DOMAIN types
  BY DEF Building, TypesInv
<1>2. /\ \A m \in entity_possible_types : m \in DOMAIN types /\ types[m].kind = "Object"
      /\ \A n \in KeyedTypes : types[n].kind = "Object" /\ Resolvable(n) => n \in entity_possible_types
      /\ \A n \in KeyedTypes : \A m \in PossibleTypes(n) \cap DOMAIN types :
           types[n].kind = "Interface" /\ types[m].kind = "Object" => m \in entity_possible_types
  BY <1>1, PossibleEntities
<1>3. \A n \in DOMAIN types : \A r \in Range(types[n].refs) : r.to \in DOMAIN types
  BY DEF Building, TypesInv, TargetsExist, Range
<1>4. CASE Federated(T)
  <2>1. /\ DOMAIN types \subseteq DOMAIN T
        /\ \A n \in DOMAIN types : /\ T[n].kind = types[n].kind /\ T[n].rust = types[n].rust
                                   /\ n # NameOf(QueryDecl) => T[n].refs = types[n].refs
    BY <1>4 DEF Federated
  <2>2. /\ Entity \in DOMAIN T <=> entity_possible_types # {}
        /\ Entity \in DOMAIN T => PossibleIn(T[Entity].refs) = entity_possible_types
    BY <1>4 DEF Federated
  <2>3. ASSUME NEW e \in EntityDecls PROVE ServedIn(T, e)
    <3>1. PICK n : n = NameOf(e)
      OBVIOUS
    <3>2. /\ n \in DOMAIN types /\ n \in KeyedTypes /\ types[n].kind = Kind(e)
          /\ n # NameOf(QueryDecl) /\ Kind(e) \in {"Object", "Interface"}
          /\ types[n].kind = "Object" /\ types[n].rust = Decl(e).rust /\ ~Decl(e).unresolvable =>
               Resolvable(n)
      BY <3>1, SettledType DEF AllSettled
    <3>3. n \in DOMAIN T /\ T[n].kind = types[n].kind /\ T[n].rust = types[n].rust
          /\ T[n].refs = types[n].refs
      BY <2>1, <3>2
    <3>4. T[n].kind = "Object" /\ T[n].rust = Decl(e).rust /\ ~Decl(e).unresolvable =>
            n \in entity_possible_types
      BY <1>2, <3>2, <3>3
    <3>5. PossibleIn(T[n].refs) = PossibleTypes(n)
      BY <3>3 DEF PossibleIn, PossibleTypes, RefsOf
    <3>6. ASSUME T[n].kind = "Interface", NEW m \in PossibleTypes(n), T[m].kind = "Object"
          PROVE  m \in entity_possible_types
      <4>1. m \in DOMAIN types
        BY <1>3, <3>2 DEF PossibleTypes, RefsOf
      <4>2. types[m].kind = "Object"
        BY <2>1, <3>6, <4>1
      <4>3. QED
        BY <1>2, <3>2, <3>3, <3>6, <4>1, <4>2
    <3>7. QED
      BY <2>2, <3>1, <3>2, <3>3, <3>4, <3>5, <3>6 DEF ServedIn
  <2>4. Entity \in DOMAIN T => \A n \in PossibleIn(T[Entity].refs) : T[n].kind = "Object"
    BY <1>2, <2>1, <2>2
  <2>5. Entity \in DOMAIN T <=> \E r \in Range(T[NameOf(QueryDecl)].refs) : r.to = Entity
    BY <1>4 DEF Federated
  <2>6. QED
    BY <2>3, <2>4, <2>5 DEF EntitiesIn
<1>5. CASE T = types /\ ~has_entities
  <2>1. ASSUME NEW e \in EntityDecls PROVE ServedIn(T, e)
    <3>1. PICK n : n = NameOf(e)
      OBVIOUS
    <3>2. /\ n \in DOMAIN types /\ n \in KeyedTypes /\ types[n].kind = Kind(e)
          /\ types[n].kind = "Interface" => Resolvable(n)
          /\ types[n].kind = "Object" /\ types[n].rust = Decl(e).rust /\ ~Decl(e).unresolvable =>
               Resolvable(n)
      BY <3>1, SettledType DEF AllSettled
    <3>3. ~Resolvable(n)
      BY <1>5, <3>2 DEF has_entities
    <3>4. QED
      BY <1>5, <3>1, <3>2, <3>3 DEF ServedIn
  <2>2. Entity \notin DOMAIN T /\ ~(\E r \in Range(T[NameOf(QueryDecl)].refs) : r.to = Entity)
    BY <1>1, <1>3, <1>5 DEF RootMade
  <2>3. QED
    BY <2>1, <2>2 DEF EntitiesIn
<1>6. QED
  BY <1>4, <1>5

LEMMA FinishServes ==
  ASSUME RegistryInv, KeysInv, Finish
  PROVE  EntitiesServed'
<1>1. PICK T : T = IF program.enable_federation \/ has_entities THEN create_federation_types ELSE types
  OBVIOUS
<1>2. phase = "extra" /\ stack = <<>> /\ types' = T /\ program' = program
  BY <1>1 DEF Finish
<1>3. Building /\ Compiles(program)
  BY <1>2, Unbuilt
<1>4. KeysTrue /\ RootMade /\ AllSettled
  BY <1>2 DEF KeysInv, NotBegun, RootOpen
<1>5. Federated(T) \/ (T = types /\ ~has_entities)
  <2>1. Federated(create_federation_types)
    BY <1>3, <1>4, FederationTypes
  <2>2. QED
    BY <1>1, <2>1
<1>6. EntitiesIn(T)
  BY <1>2, <1>3, <1>4, <1>5, FinishedEntities
<1>7. QED
  BY <1>2, <1>6, ServedAfter

(***************************************************************************)
(* The first call is that of the query root, and a step that changes       *)
(* neither the types nor the calls keeps what they owe.                    *)
(***************************************************************************)
LEMMA InitServes ==
  ASSUME RegistryInit
  PROVE  EntityInv
<1>1. /\ stack = <<>> /\ types = <<>> /\ keys = <<>> /\ phase = "register"
      /\ todo = [i \in DOMAIN program.roots |-> [decl |-> program.roots[i], as |-> "root"]]
  BY DEF RegistryInit
<1>2. Compiles(program)
  BY ProgramsAssumption DEF RegistryInit
<1>3. todo # <<>> /\ Head(todo).decl = QueryDecl
  <2> DEFINE S == [decl : Decls, as : {"root", "register", "directive"}]
  <2>1. todo \in Seq(S)
    BY <1>1, InitEstablishes DEF RegistryInv, RegistryTypeOK
  <2>2. PICK t : t = todo
    OBVIOUS
  <2>3. 1 \in DOMAIN t /\ t[1].decl = QueryDecl
    <3>1. 1 \in DOMAIN program.roots
      BY <1>2, RootFacts
    <3>2. QED
      BY <1>1, <2>2, <3>1 DEF QueryDecl
  <2>4. t # <<>>
    BY <2>3
  <2>5. Head(t) = t[1]
    <3> HIDE DEF S
    <3>1. Without(S, t, Tail(t))
      BY <2>1, <2>2, <2>4, TailFacts
    <3>2. QED
      BY <3>1 DEF Without
  <2>6. QED
    BY <2>2, <2>3, <2>4, <2>5
<1>4. KeysTrue
  <2>1. DOMAIN types = {}
    BY <1>1
  <2>2. QED
    BY <2>1 DEF KeysTrue
<1>5. NotBegun
  BY <1>1, <1>3 DEF NotBegun
<1>6. EntitiesServed
  BY <1>1 DEF EntitiesServed, Built
<1>7. QED
  BY <1>4, <1>5, <1>6 DEF EntityInv, KeysInv

LEMMA SameServes ==
  ASSUME program' = program, types' = types, phase' = phase, EntitiesServed
  PROVE  EntitiesServed'
<1>1. CASE phase # "built"
  BY <1>1 DEF EntitiesServed, Built
<1>2. CASE phase = "built"
  <2>1. PICK T : T = types
    OBVIOUS
  <2>2. \A n : PossibleTypes(n) = PossibleIn(T[n].refs) /\ RefsOf(n) = Range(T[n].refs)
    BY <2>1 DEF PossibleTypes, RefsOf, PossibleIn
  <2>3. /\ Entity \in DOMAIN T <=> \E r \in RefsOf(NameOf(QueryDecl)) : r.to = Entity
        /\ Entity \in DOMAIN T => \A n \in PossibleTypes(Entity) : T[n].kind = "Object"
        /\ \A e \in EntityDecls : EntityServed(e)
    BY <1>2, <2>1 DEF EntitiesServed, Built, NameOf
  <2>4. ASSUME NEW e \in EntityDecls PROVE ServedIn(T, e)
    <3>1. EntityServed(e)
      BY <2>3
    <3>2. PICK n, decl : n = NameOf(e) /\ decl = Decl(e)
      OBVIOUS
    <3>3. decl.name = n /\ decl.kind = Kind(e)
      BY <3>2 DEF NameOf, Kind
    <3>4. QED
      BY <2>1, <2>2, <3>1, <3>2, <3>3 DEF ServedIn, EntityServed
  <2>5. EntitiesIn(T)
    BY <2>2, <2>3, <2>4 DEF EntitiesIn
  <2>6. QED
    BY <2>1, <2>5, ServedAfter
<1>3. QED
  BY <1>1, <1>2

LEMMA StutterServes ==
  ASSUME RegistryInv, EntityInv, UNCHANGED vars
  PROVE  EntityInv'
<1>1. /\ program' = program /\ todo' = todo /\ stack' = stack /\ types' = types /\ keys' = keys
      /\ phase' = phase
  BY DEF vars
<1>2. EntitiesServed'
  BY <1>1, SameServes DEF EntityInv
<1>3. ASSUME phase # "built" PROVE KeysInv'
  <2>1. KeysInv /\ Compiles(program)
    BY <1>3, Unbuilt DEF EntityInv
  <2>2. CASE ~NotBegun
    BY <1>1, <2>1, <2>2, SameKeys
  <2>3. CASE NotBegun
    <3>1. QueryDecl' = QueryDecl
      BY <1>1, SameEntities
    <3>2. NotBegun'
      BY <1>1, <2>3, <3>1 DEF NotBegun
    <3>3. KeysTrue'
      <4>1. DOMAIN types' = {}
        BY <1>1, <2>3 DEF NotBegun
      <4>2. QED
        BY <4>1 DEF KeysTrue
    <3>4. QED
      BY <3>2, <3>3 DEF KeysInv
  <2>4. QED
    BY <2>2, <2>3
<1>4. QED
  BY <1>1, <1>2, <1>3 DEF EntityInv

LEMMA EntityInvKept ==
  ASSUME RegistryInv, EntityInv, [RegistryNext]_vars
  PROVE  EntityInv'
<1>1. CASE UNCHANGED vars
  BY <1>1, StutterServes
<1>2. phase \in {"register", "extra"} => KeysInv
  BY DEF EntityInv
<1>3. ASSUME KeysInv', phase' # "built" PROVE EntityInv'
  BY <1>3 DEF EntityInv, EntitiesServed, Built
<1>4. CASE BeginRoot
  <2>1. phase \in {"register", "extra"} /\ phase' # "built"
    BY <1>4 DEF BeginRoot, create_type, CreateNew, Reuse, Panic
  <2>2. QED
    BY <1>2, <1>3, <1>4, <2>1, BeginRootServes
<1>5. CASE EndRoot
  <2>1. phase \in {"register", "extra"} /\ phase' # "built"
    BY <1>5 DEF EndRoot
  <2>2. QED
    BY <1>2, <1>3, <1>5, <2>1, EndRootServes
<1>6. CASE CreateMember
  <2>1. phase \in {"register", "extra"} /\ phase' # "built"
    BY <1>6 DEF CreateMember, create_type, CreateNew, Reuse, Panic
  <2>2. QED
    BY <1>2, <1>3, <1>6, <2>1, CreateMemberServes
<1>7. CASE CloseType
  <2>1. phase \in {"register", "extra"} /\ phase' # "built"
    BY <1>7 DEF CloseType
  <2>2. QED
    BY <1>2, <1>3, <1>7, <2>1, CloseTypeServes
<1>8. CASE add_keys
  <2>1. phase \in {"register", "extra"} /\ phase' # "built"
    BY <1>8 DEF add_keys
  <2>2. QED
    BY <1>2, <1>3, <1>8, <2>1, AddKeysServes
<1>9. CASE Return
  <2>1. phase \in {"register", "extra"} /\ phase' # "built"
    BY <1>9 DEF Return
  <2>2. QED
    BY <1>2, <1>3, <1>9, <2>1, ReturnServes
<1>10. CASE remove_unused_types
  <2>1. phase \in {"register", "extra"} /\ phase' # "built"
    BY <1>10 DEF remove_unused_types
  <2>2. QED
    BY <1>2, <1>3, <1>10, <2>1, RemoveServes
<1>11. CASE Finish
  <2>1. phase \in {"register", "extra"} /\ phase' = "built"
    BY <1>11 DEF Finish
  <2>2. QED
    BY <1>2, <1>11, <2>1, FinishServes DEF EntityInv
<1>12. CASE \E hidden \in HiddenSets : Introspect(hidden)
  <2>1. program' = program /\ types' = types /\ phase = "built" /\ phase' = phase
    BY <1>12 DEF Introspect
  <2>2. QED
    BY <2>1, SameServes DEF EntityInv
<1>13. QED
  BY <1>1, <1>4, <1>5, <1>6, <1>7, <1>8, <1>9, <1>10, <1>11, <1>12 DEF RegistryNext

(***************************************************************************)
(* The _Entity union of a schema that is built holds what the entity       *)
(* resolvers of the query root and of its parts return, it holds objects   *)
(* only, and Query._entities is there exactly when the union is            *)
(* (create_federation_types, registry/mod.rs:1753).                        *)
(***************************************************************************)
THEOREM EntitiesAlwaysServed == Spec => []EntitiesServed
<1>1. RegistryInit => EntityInv
  BY InitServes
<1>2. RegistryInv /\ EntityInv /\ [RegistryNext]_vars => EntityInv'
  BY EntityInvKept
<1>3. EntityInv => EntitiesServed
  BY DEF EntityInv
<1>4. QED
  BY <1>1, <1>2, <1>3, RegistryInvariant, PTL DEF Spec
=============================================================================

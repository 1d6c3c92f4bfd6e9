---------------------------- MODULE DynamicProof -----------------------------
(***************************************************************************)
(* Proofs about the dynamic schema (DynamicSchema): for every list of      *)
(* types given at run time and every value their resolvers return.         *)
(***************************************************************************)
EXTENDS DynamicSchema, InductionLemmas, FiniteSetTheorems, SequenceTheorems

(***************************************************************************)
(* The types by name: a name has one type, which is in the list.           *)
(***************************************************************************)
LEMMA TypeOfName ==
  ASSUME definition \in Definitions, NEW n \in Names
  PROVE  \E i \in DOMAIN definition.types :
           TypeNamed(n) = definition.types[i] /\ definition.types[i].name = n
<1>1. \E t \in ElementsOf(definition.types) : t.name = n
  BY DEF Names, ElementsOf
<1>2. TypeNamed(n) \in ElementsOf(definition.types) /\ TypeNamed(n).name = n
  BY <1>1 DEF TypeNamed
<1> QED
  BY <1>2 DEF ElementsOf

LEMMA NameOfType ==
  ASSUME definition \in Definitions, NEW i \in DOMAIN definition.types
  PROVE  /\ definition.types[i].name \in Names
         /\ TypeNamed(definition.types[i].name) = definition.types[i]
<1>1. definition.types[i].name \in Names
  BY DEF Names
<1> PICK j \in DOMAIN definition.types :
      /\ TypeNamed(definition.types[i].name) = definition.types[j]
      /\ definition.types[j].name = definition.types[i].name
  BY <1>1, TypeOfName
<1> QED
  BY <1>1, DefinitionsAssumption

LEMMA NamesShape ==
  ASSUME definition \in Definitions
  PROVE  /\ "_Entity" \notin Names /\ IsFiniteSet(Names) /\ IsFiniteSet(InputObjects)
         /\ \A n \in Names : \A f \in ElementsOf(TypeNamed(n).fields) : IsTypeRef(f.ty)
<1> PICK d \in Definitions : d = definition
  OBVIOUS
<1>1. /\ Len(d.types) \in Nat /\ DOMAIN d.types = 1 .. Len(d.types)
      /\ \A i \in DOMAIN d.types :
           /\ d.types[i].name # "_Entity"
           /\ \A f \in ElementsOf(d.types[i].fields) : IsTypeRef(f.ty)
  BY DefinitionsAssumption
<1>2. "_Entity" \notin Names
  BY <1>1 DEF Names
<1>3. IsFiniteSet(Names)
  <2> DEFINE D == 1 .. Len(d.types)
             F == [i \in D |-> d.types[i].name]
  <2>1. IsFiniteSet(D)
    BY <1>1, FS_Interval
  <2>2. F \in Surjection(D, Names)
    BY <1>1 DEF Names, Surjection
  <2> HIDE DEF D, F
  <2> QED
    BY <2>1, <2>2, FS_Surjection
<1>4. IsFiniteSet(InputObjects)
  <2>1. InputObjects \in SUBSET Names
    BY DEF InputObjects, OfKind
  <2> QED
    BY <1>3, <2>1, FS_Subset
<1>5. ASSUME NEW n \in Names
      PROVE  \A f \in ElementsOf(TypeNamed(n).fields) : IsTypeRef(f.ty)
  BY <1>1, TypeOfName
<1> QED
  BY <1>2, <1>3, <1>4, <1>5

(***************************************************************************)
(* The walk of check_input_object_reference follows its recursion.         *)
(***************************************************************************)
Starts == InputObjects \X SUBSET InputObjects

BackAt(current, p) == current \in NonNullNames(p[1])

Longer(p, walks) ==
  \E m \in NonNullNames(p[1]) : m \in InputObjects \ p[2] /\ <<m, p[2] \cup {m}>> \in walks

WalksFollow(W, current, n) ==
  /\ W \in [0 .. n -> SUBSET Starts]
  /\ W[0] = {p \in Starts : BackAt(current, p)}
  /\ \A k \in 1 .. n : W[k] = {p \in Starts : BackAt(current, p) \/ Longer(p, W[k - 1])}

LEMMA WalksRecursion ==
  ASSUME IsFiniteSet(InputObjects), NEW current
  PROVE  WalksFollow(Walks(current), current, Cardinality(InputObjects))
<1> DEFINE N == Cardinality(InputObjects)
           Eq(g) == g = [k \in 0 .. N |->
             {p \in InputObjects \X SUBSET InputObjects :
                \E m \in NonNullNames(p[1]) :
                  \/ m = current
                  \/ k > 0 /\ m \in InputObjects \ p[2] /\ <<m, p[2] \cup {m}>> \in g[k - 1]}]
           W == CHOOSE g : Eq(g)
           X == SUBSET Starts
           start == {p \in Starts : BackAt(current, p)}
           step == [k \in Nat |-> [s \in X |-> {p \in Starts : BackAt(current, p) \/ Longer(p, s)}]]
<1>1. N \in Nat
  BY FS_CardinalityType
<1>2. start \in X /\ step \in [Nat -> [X -> X]]
  OBVIOUS
<1>3. PICK g \in [0 .. N -> X] : Follows(g, start, step, N)
  <2> HIDE DEF N, start, step, X
  <2> QED
    BY <1>1, <1>2, RecursionExists
<1>4. Eq(g)
  <2>1. ASSUME NEW k \in 0 .. N
        PROVE  g[k] = {p \in InputObjects \X SUBSET InputObjects :
                         \E m \in NonNullNames(p[1]) :
                           \/ m = current
                           \/ /\ k > 0 /\ m \in InputObjects \ p[2]
                              /\ <<m, p[2] \cup {m}>> \in g[k - 1]}
    <3>1. CASE k = 0
      BY <1>3, <3>1 DEF Follows, BackAt, Starts
    <3>2. CASE k # 0
      <4>1. k \in 1 .. N /\ k \in Nat /\ k > 0 /\ g[k - 1] \in X
        BY <1>1, <3>2
      <4>2. g[k] = step[k][g[k - 1]]
        BY <1>3, <4>1 DEF Follows
      <4> HIDE DEF X
      <4>3. g[k] = {p \in Starts : BackAt(current, p) \/ Longer(p, g[k - 1])}
        BY <4>1, <4>2
      <4> QED
        BY <4>1, <4>3 DEF BackAt, Longer, Starts
    <3> QED
      BY <3>1, <3>2
  <2> QED
    BY <2>1
<1>5. Eq(W)
  <2> HIDE DEF Eq
  <2> QED
    BY <1>4
<1>6. Walks(current) = W
  BY DEF Walks
<1> HIDE DEF W
<1>7. W \in [0 .. N -> SUBSET Starts]
  BY <1>5 DEF Starts
<1>8. W[0] = {p \in Starts : BackAt(current, p)}
  BY <1>1, <1>5 DEF BackAt, Starts
<1>9. ASSUME NEW k \in 1 .. N
      PROVE  W[k] = {p \in Starts : BackAt(current, p) \/ Longer(p, W[k - 1])}
  <2>1. k \in 0 .. N /\ k > 0
    BY <1>1
  <2>2. W[k] = {p \in InputObjects \X SUBSET InputObjects :
                  \E m \in NonNullNames(p[1]) :
                    \/ m = current
                    \/ /\ k > 0 /\ m \in InputObjects \ p[2]
                       /\ <<m, p[2] \cup {m}>> \in W[k - 1]}
    BY <1>5, <2>1
  <2> QED
    BY <2>1, <2>2 DEF BackAt, Longer, Starts
<1> QED
  BY <1>6, <1>7, <1>8, <1>9 DEF WalksFollow

(***************************************************************************)
(* A walk that fails has found a cycle: whatever set is closed under the   *)
(* references holds the type the walk began at.                            *)
(***************************************************************************)
LEMMA FailedWalkIsCycle ==
  ASSUME definition \in Definitions, NEW n \in InputObjects, ~check_input_object_reference(n)
  PROVE  OnCycle(n)
<1> SUFFICES ASSUME NEW S \in SUBSET InputObjects, NonNullRefs(n) \subseteq S,
                    \A m \in S : NonNullRefs(m) \subseteq S
             PROVE  n \in S
  BY DEF OnCycle
<1> DEFINE N == Cardinality(InputObjects)
           W == Walks(n)
           I == {w \in SUBSET Starts : \A p \in w : NonNullRefs(p[1]) \subseteq S => n \in S}
<1>1. IsFiniteSet(InputObjects) /\ N \in Nat
  BY NamesShape, FS_CardinalityType
<1>2. WalksFollow(W, n, N)
  BY <1>1, WalksRecursion
<1> HIDE DEF W, N
<1>3. W[0] \in I
  BY <1>2 DEF WalksFollow, BackAt, NonNullRefs
<1>4. ASSUME NEW k \in 1 .. N, W[k - 1] \in I
      PROVE  W[k] \in I
  <2>1. W[k] = {p \in Starts : BackAt(n, p) \/ Longer(p, W[k - 1])}
    BY <1>2 DEF WalksFollow
  <2>2. ASSUME NEW p \in Starts, BackAt(n, p), NonNullRefs(p[1]) \subseteq S
        PROVE  n \in S
    BY <2>2 DEF BackAt, NonNullRefs
  <2>3. ASSUME NEW p \in Starts, Longer(p, W[k - 1]), NonNullRefs(p[1]) \subseteq S
        PROVE  n \in S
    <3> PICK m \in NonNullNames(p[1]) :
          m \in InputObjects \ p[2] /\ <<m, p[2] \cup {m}>> \in W[k - 1]
      BY <2>3 DEF Longer
    <3>1. m \in S
      BY <2>3 DEF NonNullRefs
    <3> QED
      BY <1>4, <3>1
  <2> QED
    BY <2>1, <2>2, <2>3
<1>5. W[N] \in I
  <2> HIDE DEF I
  <2>1. \A k \in 0 .. N : W[k] \in I
    BY <1>1, <1>3, <1>4, RecursionInvariant
  <2> QED
    BY <1>1, <2>1
<1>6. <<n, {}>> \in W[N]
  BY DEF check_input_object_reference, W, N
<1> QED
  BY <1>5, <1>6

(***************************************************************************)
(* A walk that does not fail has found a set that is closed under the      *)
(* references, but for the types on its chain, and is without the type it  *)
(* began at; the walk needs no more steps than there are types not on its  *)
(* chain.                                                                  *)
(***************************************************************************)
Safe(current, p, S) ==
  /\ current \notin S /\ current \notin NonNullNames(p[1])
  /\ NonNullRefs(p[1]) \subseteq S \cup p[2]
  /\ \A y \in S : NonNullRefs(y) \subseteq S \cup p[2]

LEMMA SafeUnion ==
  ASSUME NEW current, NEW p \in Starts, current \notin NonNullNames(p[1]),
         \A m \in NonNullRefs(p[1]) \ p[2] :
           \E S \in SUBSET InputObjects : Safe(current, <<m, p[2] \cup {m}>>, S)
  PROVE  \E S \in SUBSET InputObjects : Safe(current, p, S)
<1> DEFINE M == NonNullRefs(p[1]) \ p[2]
           T(m) == CHOOSE S \in SUBSET InputObjects : Safe(current, <<m, p[2] \cup {m}>>, S)
           U == UNION {T(m) \cup {m} : m \in M}
<1>1. ASSUME NEW m \in M
      PROVE  T(m) \in SUBSET InputObjects /\ Safe(current, <<m, p[2] \cup {m}>>, T(m))
  BY <1>1
<1> HIDE DEF T
<1>2. \A m \in M : m # current /\ m \in InputObjects
  BY DEF NonNullRefs
<1>3. U \in SUBSET InputObjects
  BY <1>1, <1>2
<1>4. current \notin U
  BY <1>1, <1>2 DEF Safe
<1>5. NonNullRefs(p[1]) \subseteq U \cup p[2]
  OBVIOUS
<1>6. ASSUME NEW y \in U
      PROVE  NonNullRefs(y) \subseteq U \cup p[2]
  <2> PICK m \in M : y \in T(m) \cup {m}
    OBVIOUS
  <2>1. T(m) \subseteq U /\ m \in U
    OBVIOUS
  <2>2. NonNullRefs(y) \subseteq T(m) \cup (p[2] \cup {m})
    BY <1>1 DEF Safe
  <2> QED
    BY <2>1, <2>2
<1> QED
  BY <1>3, <1>4, <1>5, <1>6 DEF Safe

LEMMA PassedWalkIsSafe ==
  ASSUME definition \in Definitions, NEW n \in InputObjects, check_input_object_reference(n)
  PROVE  ~OnCycle(n)
<1> DEFINE N == Cardinality(InputObjects)
           W == Walks(n)
           Left(p) == Cardinality(InputObjects \ p[2])
           P == {k \in Nat : k <= N =>
                   \A p \in Starts : Left(p) <= k /\ p \notin W[k] =>
                     \E S \in SUBSET InputObjects : Safe(n, p, S)}
<1>1. IsFiniteSet(InputObjects) /\ N \in Nat
  BY NamesShape, FS_CardinalityType
<1>2. WalksFollow(W, n, N)
  BY <1>1, WalksRecursion
<1>3. \A p \in Starts : IsFiniteSet(InputObjects \ p[2]) /\ Left(p) \in Nat
  <2> SUFFICES ASSUME NEW p \in Starts
               PROVE  IsFiniteSet(InputObjects \ p[2]) /\ Left(p) \in Nat
    OBVIOUS
  <2>1. InputObjects \ p[2] \in SUBSET InputObjects
    OBVIOUS
  <2> QED
    BY <1>1, <2>1, FS_Subset, FS_CardinalityType
<1> HIDE DEF W, N
<1>4. 0 \in P
  <2> SUFFICES ASSUME NEW p \in Starts, Left(p) <= 0, p \notin W[0]
               PROVE  \E S \in SUBSET InputObjects : Safe(n, p, S)
    BY <1>1
  <2>1. InputObjects \ p[2] = {}
    <3>1. Left(p) = 0
      BY <1>3
    <3> QED
      BY <1>3, <3>1, FS_EmptySet
  <2>2. n \notin NonNullNames(p[1])
    BY <1>2 DEF WalksFollow, BackAt
  <2>3. Safe(n, p, {})
    BY <2>1, <2>2 DEF Safe, NonNullRefs
  <2> QED
    BY <2>3
<1>5. ASSUME NEW k \in P
      PROVE  k + 1 \in P
  <2> SUFFICES ASSUME k + 1 <= N, NEW p \in Starts, Left(p) <= k + 1, p \notin W[k + 1]
               PROVE  \E S \in SUBSET InputObjects : Safe(n, p, S)
    OBVIOUS
  <2>1. k \in Nat /\ k + 1 \in 1 .. N /\ k <= N /\ (k + 1) - 1 = k
    BY <1>1
  <2> PICK j \in 1 .. N : j = k + 1
    BY <2>1
  <2>2. W[j] = {q \in Starts : BackAt(n, q) \/ Longer(q, W[j - 1])}
    BY <1>2 DEF WalksFollow
  <2>3. ~BackAt(n, p) /\ ~Longer(p, W[k])
    BY <2>1, <2>2
  <2>4. ASSUME NEW m \in NonNullRefs(p[1]) \ p[2]
        PROVE  \E S \in SUBSET InputObjects : Safe(n, <<m, p[2] \cup {m}>>, S)
    <3> DEFINE q == <<m, p[2] \cup {m}>>
    <3>1. m \in NonNullNames(p[1]) /\ m \in InputObjects
      BY DEF NonNullRefs
    <3>2. q \in Starts /\ q[1] = m /\ q[2] = p[2] \cup {m}
      BY <3>1 DEF Starts
    <3>3. q \notin W[k]
      BY <2>3, <3>1 DEF Longer
    <3>4. Left(q) <= k
      <4>1. InputObjects \ q[2] = (InputObjects \ p[2]) \ {m} /\ m \in InputObjects \ p[2]
        BY <3>1, <3>2
      <4> PICK A : A = InputObjects \ p[2] /\ IsFiniteSet(A) /\ m \in A /\ InputObjects \ q[2] = A \ {m}
        BY <1>3, <4>1
      <4>2. Cardinality(A \ {m}) = Cardinality(A) - 1
        BY FS_RemoveElement
      <4> PICK a \in Nat : a = Cardinality(A) /\ a <= k + 1
        BY <1>3
      <4>3. Left(q) = a - 1
        BY <4>2
      <4> HIDE DEF q, Left
      <4> QED
        BY <2>1, <4>3
    <3> HIDE DEF q
    <3>5. \E S \in SUBSET InputObjects : Safe(n, q, S)
      BY <2>1, <3>2, <3>3, <3>4
    <3> QED
      BY <3>5 DEF q
  <2> QED
    BY <2>3, <2>4, SafeUnion DEF BackAt
<1>6. N \in P
  <2>1. P \in SUBSET Nat
    OBVIOUS
  <2> HIDE DEF P
  <2>2. P = Nat
    BY <1>4, <1>5, <2>1, SetInduction
  <2> QED
    BY <1>1, <2>2
<1> DEFINE p == <<n, {}>>
<1>8. p \in Starts /\ p[1] = n /\ p[2] = {}
  <2>1. {} \in SUBSET InputObjects
    OBVIOUS
  <2> QED
    BY <2>1 DEF Starts
<1>7. Left(p) <= N /\ p \notin W[N]
  <2>1. InputObjects \ {} = InputObjects
    OBVIOUS
  <2> QED
    BY <1>1, <1>8, <2>1 DEF check_input_object_reference, W, N
<1> HIDE DEF p
<1> PICK S \in SUBSET InputObjects : Safe(n, p, S)
  BY <1>1, <1>6, <1>7, <1>8
<1> QED
  BY <1>8 DEF Safe, OnCycle

(***************************************************************************)
(* The builder's types never change, nor what is read from them.           *)
(***************************************************************************)
LEMMA DefinitionKept ==
  ASSUME definition' = definition
  PROVE  /\ Names' = Names /\ InputObjects' = InputObjects
         /\ \A n : (TypeNamed(n))' = TypeNamed(n)
         /\ \A n : (Kind(n))' = Kind(n)
         /\ \A kinds : (OfKind(kinds))' = OfKind(kinds)
         /\ \A n : (NonNullRefs(n))' = NonNullRefs(n)
         /\ \A n : (OnCycle(n))' <=> OnCycle(n)
         /\ \A n : (Malformed(n))' <=> Malformed(n)
         /\ \A t, level, r : (Conforms(t, level, r))' <=> Conforms(t, level, r)
         /\ EntitiesUnchecked' <=> EntitiesUnchecked
<1>1. Names' = Names
  BY DEF Names
<1>2. ASSUME NEW n
      PROVE  (TypeNamed(n))' = TypeNamed(n)
  BY DEF TypeNamed
<1>3. ASSUME NEW n
      PROVE  (Kind(n))' = Kind(n)
  BY <1>2 DEF Kind
<1>4. ASSUME NEW kinds
      PROVE  (OfKind(kinds))' = OfKind(kinds)
  BY <1>1, <1>3 DEF OfKind
<1>5. InputObjects' = InputObjects
  BY <1>4 DEF InputObjects
<1>6. ASSUME NEW n
      PROVE  (NonNullRefs(n))' = NonNullRefs(n)
  BY <1>2, <1>5 DEF NonNullRefs, NonNullNames
<1>7. ASSUME NEW n
      PROVE  (OnCycle(n))' <=> OnCycle(n)
  BY <1>5, <1>6 DEF OnCycle
<1>8. ASSUME NEW n
      PROVE  (Malformed(n))' <=> Malformed(n)
  BY <1>2, <1>3 DEF Malformed, is_input_type
<1>9. ASSUME NEW o, NEW n
      PROVE  (MayStandFor(o, n))' <=> MayStandFor(o, n)
  BY <1>2, <1>3 DEF MayStandFor
<1>10. ASSUME NEW t, NEW level, NEW r
       PROVE  (Conforms(t, level, r))' <=> Conforms(t, level, r)
  BY <1>3, <1>4, <1>9 DEF Conforms
<1>11. EntitiesUnchecked' <=> EntitiesUnchecked
  BY <1>2 DEF EntitiesUnchecked, FieldNamed
<1> QED
  BY <1>1, <1>2, <1>3, <1>4, <1>5, <1>6, <1>7, <1>8, <1>10, <1>11

(***************************************************************************)
(* The inductive invariant.  What a builder's type is possible for is read *)
(* from the definition alone once the types are created; what the checks   *)
(* accept is said of the definition and the served types, which no longer  *)
(* change; and each position of a response has a type that is served, or   *)
(* is _Entity where nothing keeps a request from _entities.                *)
(***************************************************************************)
Implementing(n) == {o \in OfKind({"Object"}) : n \in TypeNamed(o).implements}

MembersOf(n) ==
  RegisteredMembers(TypeNamed(n))
    \cup IF n \in OfKind({"Interface"}) THEN Implementing(n) ELSE {}

WithKey(o) ==
  \/ TypeNamed(o).keys = "resolvable"
  \/ \E i \in TypeNamed(o).implements : TypeNamed(i).keys # "none"

FieldsServedOn(o, n) ==
  \A f \in ElementsOf(TypeNamed(n).fields) :
    \E g \in ElementsOf(TypeNamed(o).fields) :
      /\ g.name = f.name /\ type_name(g.ty) = type_name(f.ty)
      /\ \A a \in ElementsOf(f.args) : ~is_nullable(a.ty) => ArgNamed(g, a.name) # {}

Types ==
  /\ definition \in Definitions
  /\ registered \in 0 .. Len(definition.types)
  /\ \A i \in 1 .. registered : definition.types[i].name \notin SystemTypes
  /\ DOMAIN possible = Names \cup {"_Entity"}
  /\ verdict = "ready" => served # {}

Registering ==
  served = {} => \A i \in DOMAIN definition.types :
    possible[definition.types[i].name] =
      IF i <= registered THEN RegisteredMembers(definition.types[i]) ELSE {}

Created ==
  served # {} =>
    /\ registered = Len(definition.types)
    /\ Names \cap SystemTypes = {}
    /\ served \subseteq Names \cup SystemTypes \cup {"_Entity"}
    /\ \A n \in Names : possible[n] = MembersOf(n)
    /\ \A o \in possible["_Entity"] : o \in OfKind({"Object"}) /\ WithKey(o)
    /\ \A n \in OfKind({"Interface"}) :
         TypeNamed(n).keys # "none" => possible[n] \subseteq possible["_Entity"]

Accepted ==
  verdict = "ready" =>
    /\ definition.query \in OfKind({"Object"})
    /\ definition.mutation # "" => definition.mutation \in OfKind({"Object"})
    /\ HasSubscriptionRoot => definition.subscription \in OfKind({"Subscription"})
    /\ \A n \in Names : \A f \in ElementsOf(TypeNamed(n).fields) : f.ty.name \in served
    /\ \A n \in OfKind({"Union"}) : TypeNamed(n).possible \subseteq OfKind({"Object"})
    /\ \A n \in OfKind({"Interface"}) : \A o \in Implementing(n) : FieldsServedOn(o, n)
    /\ \A n \in InputObjects : ~OnCycle(n)

Refused ==
  verdict = "inputs" => \E n \in InputObjects : OnCycle(n) \/ Malformed(n)

Answerable(t) == t.name \in served \/ Unserved(t)

PositionOf(a) ==
  /\ IsTypeRef(a.ty) /\ a.level \in 1 .. Len(a.ty.nonnull)
  /\ Answerable(a.ty)
  /\ a.result = Missing => Unserved(a.ty)
  /\ a.result \in {Fails, Missing} \/ Conforms(a.ty, a.level, a.result)

Position == answer # NoAnswer => verdict = "ready" /\ (answer = RootNotFound \/ PositionOf(answer))

IInv == Types /\ Registering /\ Created /\ Accepted /\ Refused /\ Position

LEMMA InvariantServes ==
  ASSUME IInv
  PROVE  AcceptedSchemaServed /\ ResultConforms
<1> USE DEF IInv
<1>1. "_Entity" \notin Names /\ OfKind({"Object"}) \subseteq Names /\ OfKind({"Interface"}) \subseteq Names
  BY NamesShape DEF Types, OfKind
<1>2. DynamicTypeOK
  <2>1. ASSUME NEW n \in DOMAIN possible, verdict = "ready"
        PROVE  possible[n] \cap Names \subseteq OfKind({"Object"})
    <3>1. CASE n = "_Entity"
      BY <2>1, <3>1 DEF Types, Created
    <3>2. CASE n \in Names
      <4>1. possible[n] = MembersOf(n)
        BY <2>1, <3>2 DEF Types, Created
      <4>2. TypeNamed(n).kind = "Union" => n \in OfKind({"Union"})
        BY <1>1, <2>1, <3>2 DEF OfKind, Kind, Types, Created
      <4>3. RegisteredMembers(TypeNamed(n)) \subseteq OfKind({"Object"})
        BY <2>1, <4>2 DEF RegisteredMembers, Accepted
      <4> QED
        BY <4>1, <4>3 DEF MembersOf, Implementing
    <3> QED
      BY <2>1, <3>1, <3>2 DEF Types
  <2>2. served \subseteq Names \cup SystemTypes \cup {"_Entity"}
    BY DEF Created
  <2> QED
    BY <2>1, <2>2 DEF DynamicTypeOK, Types
<1>3. InputCyclesRefused
  BY DEF InputCyclesRefused, Accepted, Refused, Ready
<1>4. InterfaceFieldsServed
  <2> SUFFICES ASSUME Ready
               PROVE  /\ \A n \in OfKind({"Interface"}) : \A o \in possible[n] : FieldsServedOn(o, n)
                      /\ \A n \in OfKind({"Interface"}) :
                           TypeNamed(n).keys # "none" => possible[n] \subseteq possible["_Entity"]
    BY DEF InterfaceFieldsServed, FieldsServedOn
  <2>1. served # {}
    BY DEF Ready, Types
  <2>2. ASSUME NEW n \in OfKind({"Interface"})
        PROVE  possible[n] \subseteq Implementing(n)
    <3>1. n \in Names /\ TypeNamed(n).kind # "Union"
      BY <1>1 DEF OfKind, Kind
    <3>2. possible[n] = MembersOf(n)
      BY <2>1, <3>1 DEF Created
    <3> QED
      BY <3>1, <3>2 DEF MembersOf, RegisteredMembers
  <2> QED
    BY <2>1, <2>2 DEF Created, Accepted, Ready
<1>5. ResultConforms
  <2>1. RootNotFound.result = Fails /\ Fails # Missing
    BY DEF RootNotFound, Fails, Missing, Result
  <2> QED
    BY <2>1 DEF ResultConforms, Position, PositionOf
<1> QED
  BY <1>2, <1>3, <1>4, <1>5 DEF AcceptedSchemaServed

LEMMA DynamicInitially ==
  ASSUME DynamicInit
  PROVE  IInv
<1> USE DEF DynamicInit
<1>1. Len(definition.types) \in Nat /\ DOMAIN definition.types = 1 .. Len(definition.types)
  BY DefinitionsAssumption
<1>2. Types
  BY <1>1 DEF Types
<1>3. Registering
  BY <1>1 DEF Registering, Names
<1> QED
  BY <1>2, <1>3 DEF IInv, Created, Accepted, Refused, Position

LEMMA ReadingsKept ==
  ASSUME definition' = definition
  PROVE  /\ \A n : (Implementing(n))' = Implementing(n)
         /\ \A n : (MembersOf(n))' = MembersOf(n)
         /\ \A o : (WithKey(o))' <=> WithKey(o)
         /\ \A o, n : (FieldsServedOn(o, n))' <=> FieldsServedOn(o, n)
<1>1. /\ \A n : (TypeNamed(n))' = TypeNamed(n)
      /\ \A kinds : (OfKind(kinds))' = OfKind(kinds)
  BY DefinitionKept
<1>2. ASSUME NEW n
      PROVE  (Implementing(n))' = Implementing(n)
  BY <1>1 DEF Implementing
<1>3. ASSUME NEW n
      PROVE  (MembersOf(n))' = MembersOf(n)
  BY <1>1, <1>2 DEF MembersOf
<1>4. ASSUME NEW o
      PROVE  (WithKey(o))' <=> WithKey(o)
  BY <1>1 DEF WithKey
<1>5. ASSUME NEW o, NEW n
      PROVE  (FieldsServedOn(o, n))' <=> FieldsServedOn(o, n)
  BY <1>1 DEF FieldsServedOn
<1> QED
  BY <1>2, <1>3, <1>4, <1>5

(***************************************************************************)
(* What each part of the invariant keeps when the variables it is about do *)
(* not change.                                                             *)
(***************************************************************************)
LEMMA TypesKept ==
  ASSUME Types, UNCHANGED <<definition, registered, possible, served>>,
         verdict' = "ready" => served # {}
  PROVE  Types'
<1>1. Names' = Names
  BY DefinitionKept
<1> QED
  BY <1>1 DEF Types

LEMMA CreatedKept ==
  ASSUME Created, UNCHANGED <<definition, registered, possible, served>>
  PROVE  Created'
<1>1. Names' = Names /\ \A kinds : (OfKind(kinds))' = OfKind(kinds)
  BY DefinitionKept
<1>2. \A n : (TypeNamed(n))' = TypeNamed(n)
  BY DefinitionKept
<1>3. \A n : (MembersOf(n))' = MembersOf(n)
  BY ReadingsKept
<1>4. \A o : (WithKey(o))' <=> WithKey(o)
  BY ReadingsKept
<1> QED
  BY <1>1, <1>2, <1>3, <1>4 DEF Created

LEMMA AcceptedKept ==
  ASSUME Accepted, UNCHANGED <<definition, served, verdict>>
  PROVE  Accepted'
<1>1. Names' = Names /\ InputObjects' = InputObjects /\ \A kinds : (OfKind(kinds))' = OfKind(kinds)
  BY DefinitionKept
<1>2. \A n : (TypeNamed(n))' = TypeNamed(n)
  BY DefinitionKept
<1>3. \A n : (OnCycle(n))' <=> OnCycle(n)
  BY DefinitionKept
<1>4. \A n : (Implementing(n))' = Implementing(n)
  BY ReadingsKept
<1>5. \A o, n : (FieldsServedOn(o, n))' <=> FieldsServedOn(o, n)
  BY ReadingsKept
<1>6. HasSubscriptionRoot' <=> HasSubscriptionRoot
  BY DEF HasSubscriptionRoot
<1> QED
  BY <1>1, <1>2, <1>3, <1>4, <1>5, <1>6 DEF Accepted

LEMMA RefusedKept ==
  ASSUME Refused, UNCHANGED <<definition, verdict>>
  PROVE  Refused'
<1>1. InputObjects' = InputObjects
  BY DefinitionKept
<1>2. \A n : ((OnCycle(n))' <=> OnCycle(n)) /\ ((Malformed(n))' <=> Malformed(n))
  BY DefinitionKept
<1> QED
  BY <1>1, <1>2 DEF Refused

LEMMA PositionKept ==
  ASSUME UNCHANGED <<definition, served>>
  PROVE  \A a : (PositionOf(a))' <=> PositionOf(a)
<1>1. \A t, level, r : (Conforms(t, level, r))' <=> Conforms(t, level, r)
  BY DefinitionKept
<1>2. ASSUME NEW t
      PROVE  ((Unserved(t))' <=> Unserved(t)) /\ ((Answerable(t))' <=> Answerable(t))
  BY DefinitionKept DEF Unserved, Answerable
<1> QED
  BY <1>1, <1>2 DEF PositionOf

(***************************************************************************)
(* register: the next type is in, or its name is taken.                    *)
(***************************************************************************)
LEMMA RegisterKeeps ==
  ASSUME IInv, register
  PROVE  IInv'
<1> DEFINE t == definition.types[registered + 1]
           Taken == verdict' = "already exists" /\ UNCHANGED <<registered, possible>>
           Free == /\ t.name \notin SystemTypes
                   /\ registered' = registered + 1 /\ verdict' = verdict
                   /\ possible' = [possible EXCEPT ![t.name] = RegisteredMembers(t)]
<1>1. /\ verdict = "building" /\ (Taken \/ Free)
      /\ UNCHANGED <<definition, served, answer>>
  BY DEF register
<1> PICK d \in Definitions : d = definition
  BY DEF IInv, Types
<1>2. /\ Len(d.types) \in Nat /\ DOMAIN d.types = 1 .. Len(d.types)
      /\ \A j, k \in DOMAIN d.types : d.types[j].name = d.types[k].name => j = k
  BY DefinitionsAssumption
<1> PICK r \in 0 .. Len(d.types) : r = registered
  BY DEF IInv, Types
<1>3. r < Len(d.types)
  BY DEF register
<1>4. answer = NoAnswer /\ served = {}
  <2>1. answer = NoAnswer
    BY <1>1 DEF IInv, Position
  <2>2. served # {} => registered = Len(definition.types)
    BY DEF IInv, Created
  <2>3. registered # Len(definition.types)
    BY <1>2, <1>3
  <2> QED
    BY <2>1, <2>2, <2>3
<1>5. verdict' # "ready" /\ verdict' # "inputs"
  BY <1>1
<1>6. Accepted' /\ Refused' /\ Position' /\ Created'
  <2>1. Accepted' /\ Refused'
    BY <1>5 DEF Accepted, Refused
  <2>2. Position'
    BY <1>1, <1>4 DEF Position, NoAnswer
  <2>3. Created'
    BY <1>1, <1>4 DEF Created
  <2> QED
    BY <2>1, <2>2, <2>3
<1>7. CASE Taken
  <2>1. Types'
    BY <1>1, <1>5, <1>7, TypesKept DEF IInv
  <2>2. Registering'
    BY <1>1, <1>7 DEF IInv, Registering
  <2> QED
    BY <1>6, <2>1, <2>2 DEF IInv
<1>8. CASE Free
  <2> PICK i \in 1 .. Len(d.types) : i = r + 1
    BY <1>2, <1>3
  <2>1. t = d.types[i] /\ registered' = i
    BY <1>8
  <2>2. i \in 0 .. Len(d.types) /\ \A k \in 1 .. i : k \in 1 .. r \/ k = i
    BY <1>2
  <2>3. t.name \in DOMAIN possible /\ Names' = Names
    BY <1>1, <1>2, <2>1, DefinitionKept DEF IInv, Types, Names
  <2> HIDE DEF t
  <2>4. DOMAIN possible' = Names' \cup {"_Entity"}
    BY <1>8, <2>3 DEF IInv, Types
  <2>5. \A k \in 1 .. i : d.types[k].name \notin SystemTypes
    BY <1>8, <2>1, <2>2 DEF IInv, Types
  <2>6. Types'
    BY <1>1, <1>5, <2>1, <2>2, <2>4, <2>5 DEF IInv, Types, SystemTypes
  <2>7. ASSUME NEW k \in DOMAIN d.types
        PROVE  possible'[d.types[k].name] = IF k <= i THEN RegisteredMembers(d.types[k]) ELSE {}
    <3>1. d.types[k].name \in DOMAIN possible
      BY DEF IInv, Types, Names
    <3>2. possible[d.types[k].name] = IF k <= r THEN RegisteredMembers(d.types[k]) ELSE {}
      BY <1>4 DEF IInv, Registering
    <3>3. CASE k = i
      BY <1>2, <1>8, <2>1, <2>3, <3>3
    <3>4. CASE k # i
      <4>1. d.types[k].name # t.name
        BY <1>2, <2>1, <3>4
      <4>2. possible'[d.types[k].name] = possible[d.types[k].name]
        BY <1>8, <3>1, <4>1
      <4>3. k <= r <=> k <= i
        BY <1>2, <3>4
      <4> QED
        BY <3>2, <4>2, <4>3
    <3> QED
      BY <3>3, <3>4
  <2>8. Registering'
    BY <1>1, <2>1, <2>7 DEF Registering, RegisteredMembers
  <2> QED
    BY <1>6, <2>6, <2>8 DEF IInv
<1> QED
  BY <1>1, <1>7, <1>8

(***************************************************************************)
(* CreateTypes: the objects enter their interfaces and the _Entity union.  *)
(***************************************************************************)
LEMMA PanicKeeps ==
  ASSUME IInv, CreateTypes, MissingQueryType
  PROVE  IInv'
<1>1. /\ verdict = "building" /\ verdict' = "panic"
      /\ UNCHANGED <<definition, registered, possible, served, answer>>
  BY DEF CreateTypes
<1>2. Types' /\ Created'
  BY <1>1, TypesKept, CreatedKept DEF IInv
<1>3. Registering'
  BY <1>1 DEF IInv, Registering
<1>4. Accepted' /\ Refused'
  BY <1>1 DEF Accepted, Refused
<1>5. Position'
  BY <1>1 DEF IInv, Position, NoAnswer
<1> QED
  BY <1>2, <1>3, <1>4, <1>5 DEF IInv

LEMMA CreateKeeps ==
  ASSUME IInv, CreateTypes, ~MissingQueryType
  PROVE  IInv'
<1> DEFINE members == update_interface_possible_types
           entities == dynamic_entity_types(members)
           federated == enable_federation /\ entities # {}
<1>1. /\ verdict = "building" /\ registered = Len(definition.types) /\ served = {}
      /\ possible' = [members EXCEPT !["_Entity"] = IF federated THEN entities ELSE {}]
      /\ served' = Names \cup SystemTypes \cup IF federated THEN {"_Entity"} ELSE {}
      /\ UNCHANGED <<definition, registered, verdict, answer>>
  BY DEF CreateTypes
<1>2. answer = NoAnswer
  BY <1>1 DEF IInv, Position
<1>3. Accepted' /\ Refused' /\ Position'
  BY <1>1, <1>2 DEF Accepted, Refused, Position
<1>4. "_Entity" \notin Names /\ Names' = Names
  BY <1>1, NamesShape, DefinitionKept DEF IInv, Types
<1>5. DOMAIN members = Names \cup {"_Entity"}
  BY DEF update_interface_possible_types, IInv, Types
<1>6. ASSUME NEW n \in Names
      PROVE  members[n] = MembersOf(n)
  <2> PICK j \in DOMAIN definition.types :
        TypeNamed(n) = definition.types[j] /\ definition.types[j].name = n
    BY TypeOfName DEF IInv, Types
  <2>1. Len(definition.types) \in Nat /\ DOMAIN definition.types = 1 .. Len(definition.types)
    BY DefinitionsAssumption DEF IInv, Types
  <2>2. possible[n] = RegisteredMembers(TypeNamed(n))
    BY <1>1, <2>1 DEF IInv, Registering
  <2> QED
    BY <2>2 DEF update_interface_possible_types, IInv, Types, MembersOf, Implementing
<1> HIDE DEF members
<1>7. Types'
  BY <1>1, <1>4, <1>5 DEF IInv, Types
<1>8. served' # {}
  BY <1>1 DEF SystemTypes
<1>9. \A n \in Names : possible'[n] = MembersOf(n)
  BY <1>1, <1>4, <1>5, <1>6
<1>10. Names \cap SystemTypes = {}
  <2>1. Len(definition.types) \in Nat /\ DOMAIN definition.types = 1 .. Len(definition.types)
    BY DefinitionsAssumption DEF IInv, Types
  <2> QED
    BY <1>1, <2>1 DEF IInv, Types, Names
<1>11. ASSUME NEW n \in OfKind({"Interface"})
       PROVE  n \in Names /\ members[n] = Implementing(n)
  <2>1. n \in Names /\ Kind(n) = "Interface"
    BY DEF OfKind
  <2>2. TypeNamed(n).kind # "Union"
    BY <1>4, <2>1 DEF Kind
  <2> QED
    BY <1>6, <2>1, <2>2 DEF MembersOf, RegisteredMembers
<1>12. ASSUME NEW o \in entities
       PROVE  o \in OfKind({"Object"}) /\ WithKey(o)
  BY <1>11 DEF dynamic_entity_types, WithKey, Implementing
<1>13. ASSUME NEW n \in OfKind({"Interface"}), TypeNamed(n).keys # "none"
       PROVE  possible'[n] \subseteq possible'["_Entity"]
  <2>1. n \in Names /\ Kind(n) = "Interface" /\ possible'[n] = members[n]
    BY <1>1, <1>4, <1>5, <1>11 DEF OfKind
  <2>2. has_dynamic_entities
    BY <1>13, <2>1 DEF has_dynamic_entities
  <2>3. members[n] \subseteq entities
    BY <1>13 DEF dynamic_entity_types
  <2>4. possible'["_Entity"] = entities \/ entities = {}
    BY <1>1, <1>5, <2>2 DEF enable_federation
  <2> QED
    BY <2>1, <2>3, <2>4
<1>14. \A o \in possible'["_Entity"] : o \in entities
  BY <1>1, <1>5
<1> HIDE DEF entities, federated
<1>15. Created'
  <2>1. \A kinds : (OfKind(kinds))' = OfKind(kinds)
    BY <1>1, DefinitionKept
  <2>2. \A n : (TypeNamed(n))' = TypeNamed(n)
    BY <1>1, DefinitionKept
  <2>3. \A n : (MembersOf(n))' = MembersOf(n)
    BY <1>1, ReadingsKept
  <2>4. \A o : (WithKey(o))' <=> WithKey(o)
    BY <1>1, ReadingsKept
  <2>5. served' \subseteq Names \cup SystemTypes \cup {"_Entity"}
    BY <1>1
  <2>6. (Names \cap SystemTypes = {})'
    BY <1>4, <1>10 DEF SystemTypes
  <2>7. (served \subseteq Names \cup SystemTypes \cup {"_Entity"})'
    BY <1>4, <2>5 DEF SystemTypes
  <2>8. (\A n \in Names : possible[n] = MembersOf(n))'
    BY <1>4, <1>9, <2>3
  <2>9. (\A o \in possible["_Entity"] : o \in OfKind({"Object"}) /\ WithKey(o))'
    BY <1>12, <1>14, <2>1, <2>4
  <2>10. (\A n \in OfKind({"Interface"}) :
            TypeNamed(n).keys # "none" => possible[n] \subseteq possible["_Entity"])'
    BY <1>13, <2>1, <2>2
  <2> QED
    BY <1>1, <2>6, <2>7, <2>8, <2>9, <2>10 DEF Created
<1>16. Registering'
  BY <1>8 DEF Registering
<1> QED
  BY <1>3, <1>7, <1>15, <1>16 DEF IInv

(***************************************************************************)
(* What the checks accept: every field's type and every interface and      *)
(* member is one of the schema's, of the right kind, and the interface's   *)
(* fields are served on the objects that implement it.                     *)
(***************************************************************************)
LEMMA ServedObject ==
  ASSUME served \subseteq Names \cup SystemTypes \cup {"_Entity"},
         NEW n \in served, Kind(n) = "Object"
  PROVE  n \in OfKind({"Object"})
BY DEF OfKind, Kind

LEMMA ImplementationServes ==
  ASSUME NEW o, NEW n, check_is_valid_implementation(TypeNamed(o), TypeNamed(n))
  PROVE  FieldsServedOn(o, n)
<1> SUFFICES ASSUME NEW f \in ElementsOf(TypeNamed(n).fields)
             PROVE  \E g \in ElementsOf(TypeNamed(o).fields) :
                      /\ g.name = f.name /\ type_name(g.ty) = type_name(f.ty)
                      /\ \A a \in ElementsOf(f.args) :
                           ~is_nullable(a.ty) => ArgNamed(g, a.name) # {}
  BY DEF FieldsServedOn
<1>1. FieldNamed(TypeNamed(o), f.name) # {}
  BY DEF check_is_valid_implementation
<1> PICK g \in FieldNamed(TypeNamed(o), f.name) : TRUE
  BY <1>1
<1>2. ArgumentsImplemented(f, g) /\ FieldTypesChecked(g.ty, f.ty)
  BY DEF check_is_valid_implementation
<1>3. g \in ElementsOf(TypeNamed(o).fields) /\ g.name = f.name
  BY DEF FieldNamed
<1>4. type_name(g.ty) = type_name(f.ty)
  BY <1>2 DEF FieldTypesChecked, is_subtype, type_name
<1>5. \A a \in ElementsOf(f.args) : ~is_nullable(a.ty) => ArgNamed(g, a.name) # {}
  BY <1>2 DEF ArgumentsImplemented
<1> QED
  BY <1>3, <1>4, <1>5

AllChecks ==
  /\ check_types_exists /\ check_root_types /\ check_objects
  /\ check_input_objects /\ check_interfaces /\ check_unions

LEMMA ChecksAccept ==
  ASSUME IInv, served # {}, AllChecks
  PROVE  /\ definition.query \in OfKind({"Object"})
         /\ definition.mutation # "" => definition.mutation \in OfKind({"Object"})
         /\ HasSubscriptionRoot => definition.subscription \in OfKind({"Subscription"})
         /\ \A n \in Names : \A f \in ElementsOf(TypeNamed(n).fields) : f.ty.name \in served
         /\ \A n \in OfKind({"Union"}) : TypeNamed(n).possible \subseteq OfKind({"Object"})
         /\ \A n \in OfKind({"Interface"}) : \A o \in Implementing(n) : FieldsServedOn(o, n)
         /\ \A n \in InputObjects : ~OnCycle(n)
<1>1. served \subseteq Names \cup SystemTypes \cup {"_Entity"}
  BY DEF IInv, Created
<1>2. /\ definition.query \in OfKind({"Object"})
      /\ definition.mutation # "" => definition.mutation \in OfKind({"Object"})
  BY <1>1, ServedObject DEF AllChecks, check_types_exists, check_root_types
<1>3. ASSUME NEW n \in Names
      PROVE  \A f \in ElementsOf(TypeNamed(n).fields) : f.ty.name \in served
  <2>1. MemberTypes(TypeNamed(n)) \subseteq served
    BY DEF AllChecks, check_types_exists
  <2> QED
    BY <2>1 DEF MemberTypes, ElementsOf, type_name
<1>4. ASSUME NEW n \in OfKind({"Union"})
      PROVE  TypeNamed(n).possible \subseteq OfKind({"Object"})
  <2>1. n \in Names
    BY DEF OfKind
  <2>2. \A m \in TypeNamed(n).possible : m \in served /\ Kind(m) = "Object"
    BY <2>1 DEF AllChecks, check_types_exists, check_unions
  <2> QED
    BY <1>1, <2>2, ServedObject
<1>5. ASSUME NEW n \in OfKind({"Interface"}), NEW o \in Implementing(n)
      PROVE  FieldsServedOn(o, n)
  <2>1. o \in OfKind({"Object"}) /\ n \in TypeNamed(o).implements
    BY DEF Implementing
  <2>2. Implements(TypeNamed(o))
    BY <2>1 DEF AllChecks, check_objects
  <2>3. check_is_valid_implementation(TypeNamed(o), TypeNamed(n))
    BY <2>1, <2>2 DEF Implements
  <2> QED
    BY <2>3, ImplementationServes
<1>6. ASSUME NEW n \in InputObjects
      PROVE  ~OnCycle(n)
  <2>1. check_input_object_reference(n)
    BY DEF AllChecks, check_input_objects
  <2>2. definition \in Definitions
    BY DEF IInv, Types
  <2> QED
    BY <2>1, <2>2, PassedWalkIsSafe
<1>7. HasSubscriptionRoot => definition.subscription \in OfKind({"Subscription"})
  BY <1>1 DEF AllChecks, check_root_types, HasSubscriptionRoot, OfKind, Kind
<1> QED
  BY <1>2, <1>3, <1>4, <1>5, <1>6, <1>7

LEMMA ChecksRefuse ==
  ASSUME IInv, ~check_input_objects
  PROVE  \E n \in InputObjects : OnCycle(n) \/ Malformed(n)
<1> PICK n \in InputObjects :
      \/ ~check_input_object_reference(n)
      \/ \E f \in ElementsOf(TypeNamed(n).fields) :
           \/ f.name \in Reserved \/ ~is_input_type(type_name(f.ty))
           \/ TypeNamed(n).oneof /\ ~(is_nullable(f.ty) /\ ~f.default)
  BY DEF check_input_objects
<1>1. CASE ~check_input_object_reference(n)
  BY <1>1, FailedWalkIsCycle DEF IInv, Types
<1>2. CASE \E f \in ElementsOf(TypeNamed(n).fields) :
             \/ f.name \in Reserved \/ ~is_input_type(type_name(f.ty))
             \/ TypeNamed(n).oneof /\ ~(is_nullable(f.ty) /\ ~f.default)
  BY <1>2 DEF Malformed
<1> QED
  BY <1>1, <1>2

LEMMA CheckKeeps ==
  ASSUME IInv, Check
  PROVE  IInv'
<1>1. /\ verdict = "building" /\ served # {}
      /\ UNCHANGED <<definition, registered, possible, served, answer>>
  BY DEF Check
<1>2. verdict' = "ready" => AllChecks
  BY DEF Check, AllChecks
<1>3. verdict' = "inputs" => ~check_input_objects
  BY DEF Check
<1>4. Types' /\ Created'
  BY <1>1, TypesKept, CreatedKept DEF IInv
<1>5. Registering'
  BY <1>1 DEF Registering
<1>6. Position'
  <2>1. answer = NoAnswer
    BY <1>1 DEF IInv, Position
  <2> QED
    BY <1>1, <2>1 DEF Position, NoAnswer
<1>7. /\ Names' = Names /\ InputObjects' = InputObjects
      /\ \A kinds : (OfKind(kinds))' = OfKind(kinds)
      /\ \A n : (TypeNamed(n))' = TypeNamed(n)
  BY <1>1, DefinitionKept
<1>8. \A n : ((OnCycle(n))' <=> OnCycle(n)) /\ ((Malformed(n))' <=> Malformed(n))
  BY <1>1, DefinitionKept
<1>9. /\ \A n : (Implementing(n))' = Implementing(n)
      /\ \A o, n : (FieldsServedOn(o, n))' <=> FieldsServedOn(o, n)
  BY <1>1, ReadingsKept
<1>10. Accepted'
  <2> SUFFICES ASSUME verdict' = "ready"
               PROVE  Accepted'
    BY DEF Accepted
  <2>1. /\ definition.query \in OfKind({"Object"})
        /\ definition.mutation # "" => definition.mutation \in OfKind({"Object"})
        /\ HasSubscriptionRoot => definition.subscription \in OfKind({"Subscription"})
        /\ \A n \in Names : \A f \in ElementsOf(TypeNamed(n).fields) : f.ty.name \in served
        /\ \A n \in OfKind({"Union"}) : TypeNamed(n).possible \subseteq OfKind({"Object"})
        /\ \A n \in OfKind({"Interface"}) : \A o \in Implementing(n) : FieldsServedOn(o, n)
        /\ \A n \in InputObjects : ~OnCycle(n)
    BY <1>1, <1>2, ChecksAccept
  <2>2. HasSubscriptionRoot' <=> HasSubscriptionRoot
    BY <1>1 DEF HasSubscriptionRoot
  <2> QED
    BY <1>1, <1>7, <1>8, <1>9, <2>1, <2>2 DEF Accepted
<1>11. Refused'
  BY <1>3, <1>7, <1>8, ChecksRefuse DEF Refused
<1> QED
  BY <1>4, <1>5, <1>6, <1>10, <1>11 DEF IInv

(***************************************************************************)
(* resolve: a value against a served type fails or conforms to it.         *)
(***************************************************************************)
LEMMA ConcreteStandsFor ==
  ASSUME IInv, verdict = "ready", NEW n \in served, NEW value,
         Kind(n) \in {"Object", "Interface", "Union"}, NEW o \in Concrete(n, value)
  PROVE  o \in OfKind({"Object"}) /\ MayStandFor(o, n)
<1>1. /\ "_Entity" \notin Names
      /\ served \subseteq Names \cup SystemTypes \cup {"_Entity"}
      /\ n \in Names \cup {"_Entity"}
  <2>1. "_Entity" \notin Names
    BY NamesShape DEF IInv, Types
  <2>2. served \subseteq Names \cup SystemTypes \cup {"_Entity"}
    BY DEF IInv, Created
  <2> QED
    BY <2>1, <2>2 DEF Kind
<1>2. CASE Kind(n) = "Object"
  <2>1. o = n
    BY <1>2 DEF Concrete
  <2> QED
    BY <1>1, <1>2, <2>1, ServedObject DEF MayStandFor
<1>3. CASE Kind(n) \in {"Interface", "Union"}
  <2>1. o \in possible[n]
    BY <1>3 DEF Concrete
  <2>2. CASE n = "_Entity"
    <3>1. o \in OfKind({"Object"}) /\ WithKey(o)
      BY <2>1, <2>2 DEF IInv, Created
    <3> QED
      BY <2>2, <3>1 DEF WithKey, MayStandFor
  <2>3. CASE n \in Names
    <3>1. o \in MembersOf(n)
      BY <2>1, <2>3 DEF IInv, Created
    <3>2. Names \cap SystemTypes = {}
      BY DEF IInv, Created
    <3>3. Kind(n) = TypeNamed(n).kind
      BY <1>1, <2>3, <3>2 DEF Kind
    <3>4. CASE Kind(n) = "Interface"
      <4>1. o \in Implementing(n)
        BY <3>1, <3>3, <3>4 DEF MembersOf, RegisteredMembers
      <4> QED
        BY <3>4, <4>1 DEF Implementing, MayStandFor
    <3>5. CASE Kind(n) = "Union"
      <4>1. n \in OfKind({"Union"}) /\ n \notin OfKind({"Interface"})
        BY <2>3, <3>5 DEF OfKind
      <4>2. o \in TypeNamed(n).possible
        BY <3>1, <3>3, <3>5, <4>1 DEF MembersOf, RegisteredMembers
      <4>3. o \in OfKind({"Object"})
        BY <4>1, <4>2 DEF IInv, Accepted
      <4> QED
        BY <1>1, <2>3, <3>5, <4>2, <4>3 DEF MayStandFor
    <3> QED
      BY <1>3, <3>4, <3>5
  <2> QED
    BY <1>1, <2>2, <2>3
<1> QED
  BY <1>2, <1>3

LEMMA LeafResolves ==
  ASSUME IInv, verdict = "ready", NEW n \in served, NEW value
  PROVE  \/ resolve_value(n, value) = Fails
         \/ resolve_value(n, value) \in {Nothing, Leaf} /\ Kind(n) = "Scalar"
         \/ \E o \in OfKind({"Object"}) :
              resolve_value(n, value) = ObjectResult(o) /\ MayStandFor(o, n)
<1>1. CASE Kind(n) = "Scalar"
  BY <1>1 DEF resolve_value
<1>2. CASE Kind(n) \in {"Object", "Interface", "Union"}
  <2>1. CASE Concrete(n, value) = {}
    BY <1>2, <2>1 DEF resolve_value
  <2>2. CASE Concrete(n, value) # {}
    <3> PICK o : o = CHOOSE c \in Concrete(n, value) : TRUE
      OBVIOUS
    <3>1. o \in Concrete(n, value)
      BY <2>2
    <3>2. resolve_value(n, value) = ObjectResult(o)
      BY <1>2, <2>2 DEF resolve_value
    <3>3. o \in OfKind({"Object"}) /\ MayStandFor(o, n)
      BY <1>2, <3>1, ConcreteStandsFor
    <3> QED
      BY <3>2, <3>3
  <2> QED
    BY <2>1, <2>2
<1>3. CASE Kind(n) \notin {"Scalar", "Object", "Interface", "Union"}
  BY <1>3 DEF resolve_value
<1> QED
  BY <1>1, <1>2, <1>3

LEMMA PositionResolves ==
  ASSUME IInv, verdict = "ready",
         NEW t, IsTypeRef(t), Answerable(t), NEW level \in 1 .. Len(t.nonnull), NEW value
  PROVE  PositionOf(At(t, level, value))
<1> DEFINE r == resolve(t, level, value)
           u == Unwrapped(t, level, value)
<1>1. t.nonnull[level] \in BOOLEAN
  BY DEF IsTypeRef
<1>2. Fails # Missing /\ Nothing # Missing /\ Leaf # Missing /\ ListResult # Missing
  BY DEF Fails, Missing, Nothing, Leaf, ListResult, Result
<1>3. ~InsideList(t, level) /\ value.kind # "none" => u = resolve_value(t.name, value)
  BY DEF Unwrapped
<1>4. InsideList(t, level) \/ value.kind = "none" =>
        /\ u \in {Nothing, Fails, ListResult}
        /\ u = ListResult => InsideList(t, level)
  <2>1. Fails # ListResult /\ Nothing # ListResult
    BY DEF Fails, Nothing, ListResult, Result
  <2> QED
    BY <2>1 DEF Unwrapped
<1>5. \/ u = Fails \/ u = Nothing
      \/ u = Missing /\ Unserved(t)
      \/ u = ListResult /\ InsideList(t, level)
      \/ u = Leaf /\ Kind(t.name) = "Scalar" /\ ~InsideList(t, level)
      \/ /\ ~InsideList(t, level)
         /\ \E o \in OfKind({"Object"}) : u = ObjectResult(o) /\ MayStandFor(o, t.name)
  <2>1. CASE InsideList(t, level) \/ value.kind = "none"
    BY <1>4, <2>1
  <2>2. CASE ~InsideList(t, level) /\ value.kind # "none" /\ t.name \in served
    BY <1>3, <2>2, LeafResolves
  <2>3. CASE ~InsideList(t, level) /\ value.kind # "none" /\ t.name \notin served
    BY <1>3, <2>3 DEF Answerable, resolve_value
  <2> QED
    BY <2>1, <2>2, <2>3
<1> HIDE DEF u
<1>6. r = Fails \/ (r = u /\ (r = Nothing => ~t.nonnull[level]))
  BY <1>1 DEF resolve, u
<1> HIDE DEF r
<1>7. (r = Missing => Unserved(t)) /\ (r \in {Fails, Missing} \/ Conforms(t, level, r))
  <2>1. CASE r = Fails
    BY <1>2, <2>1
  <2>2. CASE r = Nothing /\ ~t.nonnull[level]
    <3>1. r.shape # "object" /\ r # ListResult /\ r # Leaf
      BY <2>2 DEF Nothing, ListResult, Leaf, Result
    <3> QED
      BY <1>2, <2>2, <3>1 DEF Conforms
  <2>3. CASE r = ListResult /\ InsideList(t, level)
    <3>1. r.shape # "object" /\ r # Nothing /\ r # Leaf
      BY <2>3 DEF Nothing, ListResult, Leaf, Result
    <3> QED
      BY <1>2, <2>3, <3>1 DEF Conforms
  <2>4. CASE r = Leaf /\ Kind(t.name) = "Scalar" /\ ~InsideList(t, level)
    <3>1. r.shape # "object" /\ r # Nothing /\ r # ListResult
      BY <2>4 DEF Nothing, ListResult, Leaf, Result
    <3> QED
      BY <1>2, <2>4, <3>1 DEF Conforms
  <2>5. ASSUME NEW o \in OfKind({"Object"}), r = ObjectResult(o), MayStandFor(o, t.name),
               ~InsideList(t, level)
        PROVE  r # Missing /\ Conforms(t, level, r)
    <3>1. r.object = o /\ r # Nothing /\ r # ListResult /\ r # Leaf /\ r # Missing
      BY <2>5 DEF Nothing, ListResult, Leaf, Missing, Result, ObjectResult
    <3> QED
      BY <2>5, <3>1 DEF Conforms
  <2>6. CASE r = Missing /\ Unserved(t)
    BY <2>6
  <2> QED
    BY <1>5, <1>6, <2>1, <2>2, <2>3, <2>4, <2>5, <2>6
<1> QED
  BY <1>7 DEF PositionOf, At, r

LEMMA ResolveKeeps ==
  ASSUME IInv, NEW t, IsTypeRef(t), Answerable(t), NEW level \in 1 .. Len(t.nonnull), NEW value,
         Resolve(t, level, value)
  PROVE  IInv'
<1>1. /\ verdict = "ready" /\ answer' = At(t, level, value)
      /\ UNCHANGED <<definition, registered, possible, served, verdict>>
  BY DEF Resolve
<1>2. Types' /\ Created' /\ Accepted' /\ Refused'
  BY <1>1, TypesKept, CreatedKept, AcceptedKept, RefusedKept DEF IInv, Types
<1>3. Registering'
  BY <1>1 DEF IInv, Types, Registering
<1>4. Position'
  <2> PICK a : a = At(t, level, value)
    OBVIOUS
  <2>1. PositionOf(a)
    BY <1>1, PositionResolves
  <2>2. (PositionOf(a))'
    BY <1>1, <2>1, PositionKept
  <2>3. answer' = a
    BY <1>1
  <2>4. (PositionOf(answer))'
    BY <2>2, <2>3 DEF PositionOf
  <2> QED
    BY <1>1, <2>4 DEF Position
<1> QED
  BY <1>2, <1>3, <1>4 DEF IInv

LEMMA FieldKeeps ==
  ASSUME IInv, verdict = "ready", NEW o \in Names, NEW hidden, NEW value,
         resolve_field(o, hidden, value)
  PROVE  IInv'
<1> PICK f \in ElementsOf(TypeNamed(o).fields) : Resolve(f.ty, 1, value)
  BY DEF resolve_field
<1>1. IsTypeRef(f.ty)
  BY NamesShape DEF IInv, Types
<1>2. Answerable(f.ty)
  BY DEF IInv, Accepted, Answerable
<1> PICK s \in Seq(BOOLEAN) : s = f.ty.nonnull /\ s # <<>>
  BY <1>1 DEF IsTypeRef
<1>3. 1 \in 1 .. Len(s)
  OBVIOUS
<1> QED
  BY <1>1, <1>2, <1>3, ResolveKeeps

LEMMA PairExcept ==
  ASSUME NEW S, NEW b \in S, NEW c \in S
  PROVE  [<<b>> \o <<b>> EXCEPT ![1] = c] \in Seq(S) \ {<<>>}
<1>1. <<b>> \in Seq(S) /\ Len(<<b>>) = 1
  OBVIOUS
<1> PICK s \in Seq(S) : s = <<b>> /\ Len(s) = 1
  BY <1>1, Zenon
<1> PICK l \in Seq(S) : l = s \o s /\ Len(l) = Len(s) + Len(s)
  BY ConcatProperties
<1>2. 1 \in 1 .. Len(l)
  OBVIOUS
<1>3. [l EXCEPT ![1] = c] \in Seq(S) /\ Len([l EXCEPT ![1] = c]) = Len(l)
  BY <1>2
<1> PICK m \in Seq(S) : m = [l EXCEPT ![1] = c] /\ Len(m) = Len(l)
  BY <1>3, Zenon
<1>4. m # <<>>
  OBVIOUS
<1> QED
  BY <1>4

LEMMA EntitiesKeep ==
  ASSUME IInv, NEW value, collect_entities_field(value)
  PROVE  IInv'
<1> DEFINE t == NonNull(List(Named("_Entity")))
<1>1. t.name = "_Entity"
  BY DEF NonNull, List, Named
<1>2. IsTypeRef(t)
  <2>1. List(Named("_Entity")).nonnull = <<FALSE>> \o <<FALSE>>
    BY DEF List, Named
  <2>2. t.nonnull = [<<FALSE>> \o <<FALSE>> EXCEPT ![1] = TRUE]
    BY <2>1 DEF NonNull, List, Named
  <2>3. TRUE \in BOOLEAN /\ FALSE \in BOOLEAN
    BY Zenon
  <2>4. [<<FALSE>> \o <<FALSE>> EXCEPT ![1] = TRUE] \in Seq(BOOLEAN) \ {<<>>}
    BY <2>3, PairExcept, Zenon
  <2> QED
    BY <2>2, <2>4, Zenon DEF IsTypeRef
<1>3. 1 \in 1 .. Len(t.nonnull)
  BY <1>2 DEF IsTypeRef
<1> HIDE DEF t
<1>4. ("_Entity" \in served \/ EntitiesUnchecked) /\ Resolve(t, 1, value)
  BY DEF collect_entities_field, t
<1>5. Answerable(t)
  BY <1>1, <1>4 DEF Answerable, Unserved
<1> QED
  BY <1>2, <1>3, <1>4, <1>5, ResolveKeeps

LEMMA FieldsKeep ==
  ASSUME IInv, verdict = "ready", NEW o \in OfKind({"Object"}), NEW value, collect_fields(o, value)
  PROVE  IInv'
<1>1. o \in Names
  BY DEF OfKind
<1>2. CASE collect_entities_field(value)
  BY <1>2, EntitiesKeep
<1>3. ASSUME NEW hidden, resolve_field(o, hidden, value)
      PROVE  IInv'
  BY <1>1, <1>3, FieldKeeps
<1> QED
  BY <1>2, <1>3 DEF collect_fields

LEMMA ListKeeps ==
  ASSUME IInv, resolve_list
  PROVE  IInv'
<1> PICK v \in ElementsOf(answer.value.items) : Resolve(answer.ty, answer.level + 1, v)
  BY DEF resolve_list
<1>1. answer.result = ListResult
  BY DEF resolve_list
<1>2. answer # NoAnswer /\ answer # RootNotFound
  <2>1. NoAnswer.result = Nothing /\ RootNotFound.result = Fails
    BY DEF NoAnswer, RootNotFound
  <2>2. Nothing # ListResult /\ Fails # ListResult
    BY DEF Nothing, Fails, ListResult, Result
  <2> QED
    BY <1>1, <2>1, <2>2
<1> PICK t : t = answer.ty /\ IsTypeRef(t)
  BY <1>2 DEF IInv, Position, PositionOf
<1> PICK s \in Seq(BOOLEAN) : s = t.nonnull
  BY DEF IsTypeRef
<1> PICK l \in 1 .. Len(s) : l = answer.level
  BY <1>2 DEF IInv, Position, PositionOf
<1>3. Answerable(t)
  BY <1>2 DEF IInv, Position, PositionOf
<1>4. InsideList(t, l)
  <2>1. Fails # ListResult /\ Missing # ListResult
    BY DEF Fails, Missing, ListResult, Result
  <2>2. Conforms(answer.ty, answer.level, answer.result)
    BY <1>1, <1>2, <2>1 DEF IInv, Position, PositionOf
  <2> QED
    BY <1>1, <2>2 DEF Conforms
<1>5. l + 1 \in 1 .. Len(t.nonnull)
  BY <1>4 DEF InsideList
<1> QED
  BY <1>3, <1>5, ResolveKeeps

LEMMA ContainerKeeps ==
  ASSUME IInv, NEW value, resolve_container(value)
  PROVE  IInv'
<1> PICK o : o = answer.result.object
  OBVIOUS
<1>1. answer.result.shape = "object" /\ collect_fields(o, value)
  BY DEF resolve_container
<1>2. answer # NoAnswer /\ answer # RootNotFound /\ answer.result \notin {Fails, Missing}
  <2>1. NoAnswer.result = Nothing /\ RootNotFound.result = Fails
    BY DEF NoAnswer, RootNotFound
  <2>2. Nothing.shape # "object" /\ Fails.shape # "object" /\ Missing.shape # "object"
    BY DEF Nothing, Fails, Missing, Result
  <2> QED
    BY <1>1, <2>1, <2>2
<1>3. verdict = "ready" /\ Conforms(answer.ty, answer.level, answer.result)
  BY <1>2 DEF IInv, Position, PositionOf
<1>4. o \in OfKind({"Object"})
  BY <1>1, <1>3 DEF Conforms
<1> QED
  BY <1>1, <1>3, <1>4, FieldsKeep

RootStep(value) ==
  \/ collect_fields(definition.query, value)
  \/ definition.mutation # "" /\ collect_fields(definition.mutation, value)
  \/ collect_streams(value)
  \/ subscription_root

LEMMA RootKeeps ==
  ASSUME IInv, verdict = "ready", NEW value, RootStep(value)
  PROVE  IInv'
<1>1. /\ definition.query \in OfKind({"Object"})
      /\ definition.mutation # "" => definition.mutation \in OfKind({"Object"})
      /\ HasSubscriptionRoot => definition.subscription \in Names
  BY DEF IInv, Accepted, OfKind
<1>2. CASE collect_fields(definition.query, value)
  BY <1>1, <1>2, FieldsKeep
<1>3. CASE definition.mutation # "" /\ collect_fields(definition.mutation, value)
  BY <1>1, <1>3, FieldsKeep
<1>4. CASE collect_streams(value)
  BY <1>1, <1>4, FieldKeeps DEF collect_streams
<1>5. CASE subscription_root
  <2>1. answer' = RootNotFound /\ UNCHANGED <<definition, registered, possible, served, verdict>>
    BY <1>5 DEF subscription_root
  <2>2. Types' /\ Created' /\ Accepted' /\ Refused'
    BY <2>1, TypesKept, CreatedKept, AcceptedKept, RefusedKept DEF IInv, Types
  <2>3. Registering' /\ Position'
    BY <2>1 DEF IInv, Types, Registering, Position, RootNotFound
  <2> QED
    BY <2>2, <2>3 DEF IInv
<1> QED
  BY <1>2, <1>3, <1>4, <1>5 DEF RootStep

LEMMA StutterKeeps ==
  ASSUME IInv, UNCHANGED dvars
  PROVE  IInv'
<1>1. UNCHANGED <<definition, registered, possible, served, verdict, answer>>
  BY DEF dvars
<1>2. Types' /\ Created' /\ Accepted' /\ Refused'
  BY <1>1, TypesKept, CreatedKept, AcceptedKept, RefusedKept DEF IInv, Types
<1>3. Registering'
  BY <1>1 DEF IInv, Registering
<1>4. Position'
  <2>1. \A a : (PositionOf(a))' <=> PositionOf(a)
    BY <1>1, PositionKept
  <2> QED
    BY <1>1, <2>1 DEF IInv, Position, PositionOf, RootNotFound, NoAnswer
<1> QED
  BY <1>2, <1>3, <1>4 DEF IInv

LEMMA DynamicStepKeeps ==
  ASSUME IInv, [DynamicNext]_dvars
  PROVE  IInv'
<1>1. CASE register
  BY <1>1, RegisterKeeps
<1>2. CASE CreateTypes
  BY <1>2, PanicKeeps, CreateKeeps
<1>3. CASE Check
  BY <1>3, CheckKeeps
<1>4. ASSUME NEW value \in Returned, verdict = "ready", RootStep(value)
      PROVE  IInv'
  BY <1>4, RootKeeps
<1>5. ASSUME NEW value \in Returned, resolve_container(value)
      PROVE  IInv'
  BY <1>5, ContainerKeeps
<1>6. CASE resolve_list
  BY <1>6, ListKeeps
<1>7. CASE UNCHANGED dvars
  BY <1>7, StutterKeeps
<1> QED
  BY <1>1, <1>2, <1>3, <1>4, <1>5, <1>6, <1>7 DEF DynamicNext, RootStep

(***************************************************************************)
(* For every list of types: a schema that passes the checks serves the     *)
(* fields of its interfaces on every object that may stand for them, its   *)
(* input objects have no cycle of non-null references, and one refused for *)
(* its input objects has a cycle or a malformed field (check.rs:223, :371).*)
(***************************************************************************)
THEOREM AcceptedSchemasServe == DynamicSpec => []AcceptedSchemaServed
<1>1. DynamicInit => IInv
  BY DynamicInitially
<1>2. IInv /\ [DynamicNext]_dvars => IInv'
  BY DynamicStepKeeps
<1>3. IInv => AcceptedSchemaServed
  BY InvariantServes
<1> QED
  BY <1>1, <1>2, <1>3, PTL DEF DynamicSpec

(***************************************************************************)
(* Whatever the resolvers of an accepted schema return, every position of  *)
(* a response and of an event, at any depth, is an error or a value of its *)
(* declared type, and no type is looked up that is not served but _Entity, *)
(* where the validation lets _entities through (resolve.rs:351, :438).     *)
(***************************************************************************)
THEOREM ResponsesConform == DynamicSpec => []ResultConforms
<1>1. DynamicInit => IInv
  BY DynamicInitially
<1>2. IInv /\ [DynamicNext]_dvars => IInv'
  BY DynamicStepKeeps
<1>3. IInv => ResultConforms
  BY InvariantServes
<1> QED
  BY <1>1, <1>2, <1>3, PTL DEF DynamicSpec
=============================================================================

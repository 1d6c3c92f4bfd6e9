---------------------------- MODULE EntitiesProof ----------------------------
(***************************************************************************)
(* Proofs about the entities of a federated service (Entities): for every  *)
(* query root, merged or not, and every list of representations.           *)
(***************************************************************************)
EXTENDS Entities, FiniteSetTheorems, TLAPS

(***************************************************************************)
(* The place of an index among the keys of a batch identifies it: the      *)
(* answer a batch gives at a place is that of the representation there.    *)
(***************************************************************************)
LEMMA PlaceGrows ==
  ASSUME NEW S, IsFiniteSet(S), S \subseteq Nat, NEW i \in S, NEW j \in S, i < j
  PROVE  Place(i, S) # Place(j, S)
<1> DEFINE A == {k \in S : k <= i}
           B == {k \in S : k <= j}
<1>1. IsFiniteSet(B)
  <2>1. B \in SUBSET S
    OBVIOUS
  <2> HIDE DEF B
  <2> QED
    BY <2>1, FS_Subset
<1>2. A \in SUBSET B /\ j \in B /\ j \notin A
  <2>1. \A k \in S : k \in Nat
    OBVIOUS
  <2>2. \A k \in S : k <= i => k <= j
    BY <2>1
  <2>3. A \in SUBSET B
    BY <2>2
  <2>4. j <= j /\ ~(j <= i)
    BY <2>1
  <2>5. j \in B /\ j \notin A
    BY <2>4
  <2> QED
    BY <2>3, <2>5
<1> HIDE DEF A, B
<1>3. Cardinality(B) # Cardinality(A)
  BY <1>1, <1>2, FS_Subset
<1> QED
  BY <1>3 DEF Place, A, B

LEMMA PlaceIdentifies ==
  ASSUME NEW S, IsFiniteSet(S), S \subseteq Nat, NEW i \in S
  PROVE  i = CHOOSE j \in S : Place(j, S) = Place(i, S)
<1>1. ASSUME NEW j \in S, Place(j, S) = Place(i, S)
      PROVE  j = i
  <2>1. CASE i < j
    BY <1>1, <2>1, PlaceGrows
  <2>2. CASE j < i
    BY <1>1, <2>2, PlaceGrows
  <2> QED
    BY <2>1, <2>2
<1> QED
  BY <1>1

(***************************************************************************)
(* The inductive invariant.  While a member is asked: what it found was    *)
(* made by it for the representation at that place, and a representation   *)
(* that was looked up for nothing has no finder in it; what the members    *)
(* asked before found fits, and where they found nothing they have no      *)
(* finder.  A bound name stands for each entity and for the member asked,  *)
(* so that the facts about them carry over to the next state.              *)
(***************************************************************************)
Entity == [by : STRING \cup {Nothing.by}, member : Nat, of : Nat]

Types ==
  /\ gateway \in Gateways
  /\ member \in 1 .. Len(gateway.members)
  /\ \A m \in MemberSet : m = Member => work \subseteq WorkOf(m)
  /\ found \in [Indices -> Entity] /\ entities \in [Indices -> Entity]

Made ==
  \A i \in Indices : \A e \in Entity :
    e = found[i] /\ e # Nothing => e.member = member /\ MadeFor(e, i)

Asked ==
  \A i \in Indices :
    One(i) \notin work /\ found[i] = Nothing => NoFinder(member, Representations[i])

Kept ==
  \A i \in Indices : \A e \in Entity :
    e = entities[i] /\ e # Nothing => Fits(e, i)

Passed ==
  \A i \in Indices : entities[i] = Nothing =>
    \A m \in member + 1 .. Len(gateway.members) : NoFinder(m, Representations[i])

IInv ==
  /\ Types
  /\ verdict = "running" => Made /\ Asked /\ Kept /\ Passed
  /\ EntitiesFound

(***************************************************************************)
(* What the rest of the proof needs to know of a request: its members,     *)
(* its indices and the lookups of a member.                                *)
(***************************************************************************)
LEMMA RequestShape ==
  ASSUME gateway \in Gateways
  PROVE  /\ Len(gateway.members) \in Nat \ {0}
         /\ DOMAIN gateway.members = 1 .. Len(gateway.members)
         /\ \A m \in DOMAIN gateway.members : gateway.members[m] \in MemberSet
         /\ Indices \subseteq Nat \ {0} /\ IsFiniteSet(Indices)
<1> PICK g \in Gateways : g = gateway
  OBVIOUS
<1>1. /\ g.members \in Seq(MemberSet) /\ g.members # <<>>
      /\ Len(g.representations) \in Nat /\ DOMAIN g.representations = 1 .. Len(g.representations)
  BY GatewaysAssumption
<1> PICK s \in Seq(MemberSet) : s = g.members
  BY <1>1
<1>2. Len(s) \in Nat \ {0} /\ DOMAIN s = 1 .. Len(s) /\ \A m \in DOMAIN s : s[m] \in MemberSet
  BY <1>1
<1>3. IsFiniteSet(1 .. Len(g.representations))
  BY <1>1, FS_Interval
<1>4. Indices = 1 .. Len(g.representations)
  BY <1>1 DEF Indices, Representations
<1> QED
  BY <1>1, <1>2, <1>3, <1>4

\* a lookup of one representation, or a batch for the group its index leads
LEMMA WorkShape ==
  ASSUME NEW m \in MemberSet, NEW w \in WorkOf(m)
  PROVE  /\ w.index \in Indices
         /\ w.batch = 0 => w = One(w.index)
         /\ w.batch # 0 => /\ w.batch \in DOMAIN m.batches
                           /\ m.batches[w.batch].type = Typename(w.index)
                           /\ m.batches[w.batch].type \in TypeNames
<1> DEFINE B == [fn : STRING, type : TypeNames, key : STRING]
<1>1. m.batches \in Seq(B)
  BY DEF MemberSet
<1>2. CASE w \in {One(i) : i \in Indices}
  BY <1>2 DEF One
<1>3. CASE w \in [batch : DOMAIN m.batches, index : Indices]
            /\ m.batches[w.batch].type = Typename(w.index)
  <2>1. w.batch \in DOMAIN m.batches /\ w.index \in Indices
    BY <1>3
  <2>2. w.batch # 0 /\ m.batches[w.batch] \in B
    <3> HIDE DEF B
    <3> PICK b \in Seq(B) : b = m.batches
      BY <1>1
    <3>1. w.batch \in 1 .. Len(b) /\ Len(b) \in Nat
      BY <2>1
    <3> QED
      BY <3>1
  <2> QED
    BY <1>3, <2>1, <2>2
<1> QED
  BY <1>2, <1>3 DEF WorkOf

LEMMA OneInWork ==
  ASSUME NEW m, NEW i \in Indices
  PROVE  One(i) \in WorkOf(m)
BY DEF WorkOf

\* the finders of a member and the names of its methods
LEMMA FindersShape ==
  ASSUME NEW m \in MemberSet
  PROVE  /\ \A k \in DOMAIN m.finders : m.finders[k].fn \in STRING /\ m.finders[k].type \in TypeNames
         /\ \A b \in DOMAIN m.batches : m.batches[b].fn \in STRING
<1> DEFINE F == [fn : STRING, type : TypeNames, keys : Seq(STRING), requires : Seq(STRING)]
           B == [fn : STRING, type : TypeNames, key : STRING]
<1>1. m.finders \in Seq(F) /\ m.batches \in Seq(B)
  BY DEF MemberSet
<1> HIDE DEF F, B
<1>2. /\ \A k \in DOMAIN m.finders : m.finders[k] \in F
      /\ \A b \in DOMAIN m.batches : m.batches[b] \in B
  BY <1>1
<1> QED
  BY <1>2 DEF F, B

(***************************************************************************)
(* The request never changes, and what is promised for a representation    *)
(* depends on nothing else.                                                *)
(***************************************************************************)
LEMMA GatewayKept ==
  ASSUME [EntitiesNext]_evars
  PROVE  gateway' = gateway
<1>1. CASE EntitiesNext
  <2>1. CASE Refuse
    BY <2>1 DEF Refuse
  <2>2. ASSUME NEW w \in work, LookUp(w)
        PROVE  gateway' = gateway
    BY <2>2 DEF LookUp, Fail
  <2>3. ASSUME NEW w \in work, CallBatch(w)
        PROVE  gateway' = gateway
    BY <2>3 DEF CallBatch, Fail
  <2>4. CASE NextMember
    BY <2>4 DEF NextMember
  <2>5. CASE Reply
    BY <2>5 DEF Reply
  <2> QED
    BY <1>1, <2>1, <2>2, <2>3, <2>4, <2>5 DEF EntitiesNext
<1>2. CASE UNCHANGED evars
  BY <1>2 DEF evars
<1> QED
  BY <1>1, <1>2

LEMMA PromiseKept ==
  ASSUME gateway' = gateway
  PROVE  /\ Indices' = Indices /\ Representations' = Representations
         /\ \A e, i : (MadeFor(e, i))' <=> MadeFor(e, i)
         /\ \A e, i : (Fits(e, i))' <=> Fits(e, i)
         /\ \A m, rep : (NoFinder(m, rep))' <=> NoFinder(m, rep)
         /\ \A m : (WorkOf(m))' = WorkOf(m)
<1>1. Indices' = Indices /\ Representations' = Representations
  BY DEF Indices, Representations
<1>2. ASSUME NEW m
      PROVE  (FindersOf(m))' = FindersOf(m) /\ (BatchesOf(m))' = BatchesOf(m)
  BY DEF FindersOf, BatchesOf
<1>3. ASSUME NEW m, NEW rep
      PROVE  (NoFinder(m, rep))' <=> NoFinder(m, rep)
  BY <1>2 DEF NoFinder
<1>4. ASSUME NEW m, NEW f, NEW rep
      PROVE  (Finds(m, f, rep))' <=> Finds(m, f, rep)
  BY <1>2 DEF Finds
<1>5. ASSUME NEW e, NEW i
      PROVE  (MadeFor(e, i))' <=> MadeFor(e, i)
  BY <1>1, <1>2, <1>4 DEF MadeFor
<1>6. ASSUME NEW e, NEW i
      PROVE  (Fits(e, i))' <=> Fits(e, i)
  BY <1>1, <1>3, <1>5 DEF Fits
<1>7. ASSUME NEW m
      PROVE  (WorkOf(m))' = WorkOf(m)
  BY <1>1 DEF WorkOf, Leads, GroupOf, Grouped, Typename
<1> QED
  BY <1>1, <1>3, <1>5, <1>6, <1>7

LEMMA EntitiesInitially ==
  ASSUME EntitiesInit
  PROVE  IInv
<1> USE DEF EntitiesInit
<1>1. Len(gateway.members) \in Nat \ {0} /\ Indices \subseteq Nat \ {0}
  BY RequestShape
<1>2. Nothing \in Entity
  BY DEF Nothing, Entity
<1>3. Types
  <2>1. found \in [Indices -> Entity] /\ entities \in [Indices -> Entity]
    BY <1>2
  <2> QED
    BY <1>1, <2>1 DEF Types
<1>4. Made /\ Kept
  BY DEF Made, Kept
<1>5. Asked
  <2>1. \A i \in Indices : One(i) \in work
    BY OneInWork
  <2> QED
    BY <2>1 DEF Asked
<1>6. Passed
  BY <1>1 DEF Passed
<1> QED
  BY <1>3, <1>4, <1>5, <1>6 DEF IInv, EntitiesFound

(***************************************************************************)
(* A lookup or a batch that does not fail: it adds entities made for their *)
(* representations, and leaves the one it looked up without an entity only *)
(* when the member has no finder for it.                                   *)
(***************************************************************************)
LEMMA FoundKeeps ==
  ASSUME IInv, verdict = "running",
         NEW w \in work, Removed(w),
         UNCHANGED <<gateway, member, entities, verdict>>,
         NEW F \in [Indices -> Entity], found' = F,
         \A i \in Indices :
           \/ F[i] = found[i]
           \/ F[i] # Nothing /\ F[i].member = member /\ MadeFor(F[i], i),
         \A i \in Indices : w = One(i) /\ F[i] = Nothing => NoFinder(member, Representations[i])
  PROVE  IInv'
<1>1. /\ Indices' = Indices /\ Representations' = Representations
      /\ \A e, i : (MadeFor(e, i))' <=> MadeFor(e, i)
      /\ \A e, i : (Fits(e, i))' <=> Fits(e, i)
      /\ \A m, rep : (NoFinder(m, rep))' <=> NoFinder(m, rep)
      /\ \A m : (WorkOf(m))' = WorkOf(m)
  BY PromiseKept
<1>2. Types /\ Made /\ Asked /\ Kept /\ Passed
  BY DEF IInv
<1>3. Types'
  <2>1. Member' = Member /\ work' \subseteq work
    BY DEF Member, Removed
  <2> QED
    BY <1>1, <1>2, <2>1 DEF Types
<1>4. Made'
  <2> SUFFICES ASSUME NEW i \in Indices, NEW e \in Entity, e = F[i], e # Nothing
               PROVE  e.member = member /\ MadeFor(e, i)
    BY <1>1 DEF Made
  <2> QED
    BY <1>2 DEF Made
<1>5. Asked'
  <2> SUFFICES ASSUME NEW i \in Indices, One(i) \notin work', F[i] = Nothing
               PROVE  NoFinder(member, Representations[i])
    <3>1. ASSUME NEW i \in Indices PROVE (One(i))' = One(i)
      BY DEF One
    <3>2. \A m, i : (NoFinder(m, Representations[i]))' <=> NoFinder(m, Representations[i])
      BY <1>1 DEF NoFinder, FindersOf
    <3> QED
      BY <1>1, <3>1, <3>2 DEF Asked
  <2>1. CASE w = One(i)
    BY <2>1
  <2>2. CASE w # One(i)
    BY <1>2, <2>2 DEF Asked, Removed
  <2> QED
    BY <2>1, <2>2
<1>6. Kept'
  BY <1>1, <1>2 DEF Kept
<1>7. Passed'
  <2>1. \A m, i : (NoFinder(m, Representations[i]))' <=> NoFinder(m, Representations[i])
    BY <1>1 DEF NoFinder, FindersOf
  <2> QED
    BY <1>1, <1>2, <2>1 DEF Passed
<1> QED
  BY <1>3, <1>4, <1>5, <1>6, <1>7 DEF IInv, EntitiesFound

\* a request that is refused or fails is told nothing about its entities
LEMMA FailedKeeps ==
  ASSUME IInv, work' \subseteq work, verdict' \in {"failed", "refused"},
         UNCHANGED <<gateway, member, found, entities>>
  PROVE  IInv'
<1>1. Indices' = Indices /\ \A m : (WorkOf(m))' = WorkOf(m)
  BY PromiseKept
<1>2. Types'
  <2>1. Member' = Member
    BY DEF Member
  <2> QED
    BY <1>1, <2>1 DEF IInv, Types
<1> QED
  BY <1>2 DEF IInv, EntitiesFound

(***************************************************************************)
(* A lookup keeps the invariant: the finder tried first is the most        *)
(* specific that takes the keys, and only a finder that takes them fails.  *)
(***************************************************************************)
LEMMA LookUpKeeps ==
  ASSUME IInv, NEW w \in work, LookUp(w)
  PROVE  IInv'
<1> DEFINE i == w.index
           rep == Representations[i]
<1>1. /\ Types /\ gateway \in Gateways /\ verdict = "running" /\ gateway.enabled
      /\ Removed(w) /\ w.batch = 0
  BY DEF LookUp, Running, IInv, Types
<1>2. Member \in MemberSet /\ member \in DOMAIN gateway.members /\ Indices \subseteq Nat \ {0}
  BY <1>1, RequestShape DEF Types, Member
<1>3. i \in Indices /\ w = One(i)
  <2>1. w \in WorkOf(Member)
    BY <1>1, <1>2 DEF Types
  <2> QED
    BY <1>1, <1>2, <2>1, WorkShape
<1>4. \A k \in Indices : One(k) = One(i) => k = i
  BY DEF One
<1> HIDE DEF i
<1>5. CASE verdict' = "failed"
  <2>1. UNCHANGED <<gateway, member, found, entities>>
    BY <1>5, <1>1 DEF LookUp, Fail
  <2> QED
    BY <1>1, <1>5, <2>1, FailedKeeps DEF Removed
<1>6. CASE /\ found[i] # Nothing \/ rep.typename = "scalar" \/ Candidates(Member.finders, rep) = {}
           /\ UNCHANGED <<gateway, member, found, entities, verdict>>
  <2>1. found[i] = Nothing => NoFinder(member, rep)
    <3> SUFFICES ASSUME NEW k \in DOMAIN Member.finders, Takes(Member.finders[k], rep), found[i] = Nothing
                 PROVE  FALSE
      BY DEF NoFinder, FindersOf, Member
    <3>1. CASE rep.typename = "scalar"
      <4>1. Member.finders[k].type \in TypeNames
        BY <1>2, FindersShape
      <4>2. Member.finders[k].type = "scalar"
        BY <3>1, GatewaysAssumption DEF Takes
      <4> QED
        BY <4>1, <4>2 DEF TypeNames
    <3>2. CASE Candidates(Member.finders, rep) = {}
      BY <3>2 DEF Candidates
    <3> QED
      BY <1>6, <3>1, <3>2
  <2>2. \A k \in Indices : w = One(k) /\ found[k] = Nothing => NoFinder(member, Representations[k])
    BY <1>3, <1>4, <2>1
  <2>3. found \in [Indices -> Entity]
    BY <1>1 DEF Types
  <2> PICK F \in [Indices -> Entity] : F = found
    BY <2>3
  <2> QED
    BY <1>1, <1>6, <2>2, FoundKeeps
<1>7. ASSUME found[i] = Nothing, Grouped(i),
             NEW k \in Candidates(Member.finders, rep), TriedFirst(Member.finders, rep, k),
             found' = [found EXCEPT ![i] = [by |-> Member.finders[k].fn, member |-> member, of |-> i]],
             UNCHANGED <<gateway, member, entities, verdict>>
      PROVE  IInv'
  <2> DEFINE f == Member.finders[k]
             e == [by |-> f.fn, member |-> member, of |-> i]
             F == [found EXCEPT ![i] = e]
  <2>1. k \in DOMAIN Member.finders /\ Takes(f, rep)
    BY <1>7 DEF Candidates
  <2>2. f.fn \in STRING /\ i \in Nat /\ i # 0 /\ member \in Nat
    BY <1>1, <1>2, <1>3, <2>1, FindersShape, RequestShape DEF Types
  <2>3. e \in Entity /\ e # Nothing /\ e.member = member /\ e.of = i /\ e.by = f.fn
    BY <2>2 DEF Entity, Nothing
  <2>4. f \in FindersOf(member)
    BY <2>1 DEF FindersOf, Member
  <2>5. ASSUME NEW g \in FindersOf(member), Takes(g, rep)
        PROVE  ~MoreSpecific(g, f, rep)
    <3> PICK j \in DOMAIN Member.finders : g = Member.finders[j]
      BY DEF FindersOf, Member
    <3>1. j \in Candidates(Member.finders, rep)
      BY <2>5 DEF Candidates
    <3> QED
      BY <1>7, <3>1 DEF TriedFirst
  <2> HIDE DEF e, f
  <2>6. MadeFor(e, i)
    BY <2>1, <2>3, <2>4, <2>5 DEF MadeFor, Finds
  <2>7. F \in [Indices -> Entity] /\ F[i] = e /\ \A x \in Indices : x # i => F[x] = found[x]
    BY <1>1, <1>3, <2>3 DEF Types
  <2>8. found' = F
    BY <1>7 DEF e, f
  <2> HIDE DEF F
  <2> PICK G \in [Indices -> Entity] : G = F
    BY <2>7
  <2>9. \A x \in Indices : G[x] = found[x] \/ (G[x] # Nothing /\ G[x].member = member /\ MadeFor(G[x], x))
    BY <2>3, <2>6, <2>7
  <2>10. \A x \in Indices : w = One(x) /\ G[x] = Nothing => NoFinder(member, Representations[x])
    BY <1>3, <1>4, <2>3, <2>7
  <2> QED
    BY <1>1, <1>7, <2>8, <2>9, <2>10, FoundKeeps
<1> QED
  BY <1>5, <1>6, <1>7 DEF LookUp, Fail, i

(***************************************************************************)
(* A batch keeps the invariant: the answer at a place is given to the      *)
(* representation whose key is at that place.                              *)
(***************************************************************************)
LEMMA CallBatchKeeps ==
  ASSUME IInv, NEW w \in work, CallBatch(w)
  PROVE  IInv'
<1> DEFINE b == BatchOf(w)
<1>1. /\ Types /\ gateway \in Gateways /\ verdict = "running"
      /\ Removed(w) /\ w.batch # 0
  BY DEF CallBatch, Running, IInv, Types
<1>2. /\ Member \in MemberSet /\ member \in DOMAIN gateway.members /\ member \in Nat
      /\ Indices \subseteq Nat \ {0} /\ IsFiniteSet(Indices)
  BY <1>1, RequestShape DEF Types, Member
<1>3. /\ w.index \in Indices /\ w.batch \in DOMAIN Member.batches
      /\ b.type = Typename(w.index) /\ b.type \in TypeNames
  <2>1. w \in WorkOf(Member)
    BY <1>1, <1>2 DEF Types
  <2> QED
    BY <1>1, <1>2, <2>1, WorkShape DEF BatchOf
<1>4. b.fn \in STRING /\ b \in BatchesOf(member)
  BY <1>2, <1>3, FindersShape DEF BatchOf, BatchesOf, Member
<1>5. \A i \in Indices : w # One(i)
  BY <1>1 DEF One
<1>6. found \in [Indices -> Entity]
  BY <1>1 DEF Types
<1>7. CASE verdict' = "failed"
  <2>1. UNCHANGED <<gateway, member, found, entities>>
    BY <1>7, <1>1 DEF CallBatch, Fail
  <2> QED
    BY <1>1, <1>7, <2>1, FailedKeeps DEF Removed
<1>8. CASE UNCHANGED <<gateway, member, found, entities, verdict>>
  <2> PICK F \in [Indices -> Entity] : F = found
    BY <1>6
  <2> QED
    BY <1>1, <1>5, <1>8, FoundKeeps
<1>9. ASSUME NEW n \in 0 .. Cardinality(Keyed(w)), found' = Answers(w, n),
             UNCHANGED <<gateway, member, entities, verdict>>
      PROVE  IInv'
  <2> DEFINE K == Keyed(w)
             e(i) == [by |-> b.fn, member |-> member,
                      of |-> CHOOSE j \in K : Place(j, K) = Place(i, K)]
             F == [i \in Indices |-> IF i \in K /\ Place(i, K) <= n THEN e(i) ELSE found[i]]
  <2>1. found' = F
    BY <1>9 DEF Answers, KeyIndices
  <2>2. K \subseteq Indices
    BY DEF Keyed, GroupOf
  <2>3. IsFiniteSet(K) /\ K \subseteq Nat
    BY <1>2, <2>2, FS_Subset
  <2>4. ASSUME NEW i \in K
        PROVE  /\ e(i) \in Entity /\ e(i) # Nothing /\ e(i).member = member
               /\ MadeFor(e(i), i)
    <3>1. e(i).of = i /\ i \in Nat \ {0}
      <4> HIDE DEF K
      <4> QED
        BY <1>2, <2>2, <2>3, PlaceIdentifies
    <3>2. Typename(i) = b.type /\ Parses(Representations[i], b.key)
      BY <1>3 DEF Keyed, GroupOf, Grouped
    <3>3. e(i).by = b.fn /\ e(i).member = member /\ e(i) = [by |-> b.fn, member |-> member, of |-> i]
      BY <3>1
    <3> HIDE DEF e, b
    <3>4. e(i) \in Entity /\ e(i) # Nothing
      <4>1. \A x \in STRING, y \in Nat, z \in Nat \ {0} :
              LET r == [by |-> x, member |-> y, of |-> z] IN r \in Entity /\ r # Nothing
        BY DEF Entity, Nothing
      <4> QED
        BY <1>2, <1>4, <3>1, <3>3, <4>1
    <3> QED
      BY <1>4, <3>1, <3>2, <3>3, <3>4 DEF MadeFor, Typename
  <2> HIDE DEF K, e
  <2>5. F \in [Indices -> Entity]
    BY <1>6, <2>4
  <2>6. \A i \in Indices :
          F[i] = found[i] \/ (F[i] # Nothing /\ F[i].member = member /\ MadeFor(F[i], i))
    BY <2>4
  <2> HIDE DEF F
  <2> PICK G \in [Indices -> Entity] : G = F
    BY <2>5
  <2> QED
    BY <1>1, <1>5, <1>9, <2>1, <2>6, FoundKeeps
<1> QED
  BY <1>7, <1>8, <1>9 DEF CallBatch, Fail

(***************************************************************************)
(* The members: what the one asked found is kept where none before found.  *)
(***************************************************************************)
LEMMA MergedFits ==
  ASSUME IInv, verdict = "running", work = {}
  PROVE  /\ Merged \in [Indices -> Entity]
         /\ \A i \in Indices : Merged[i] # Nothing => Fits(Merged[i], i)
         /\ \A i \in Indices : Merged[i] = Nothing =>
              \A m \in member .. Len(gateway.members) : NoFinder(m, Representations[i])
<1>1. Types /\ Made /\ Asked /\ Kept /\ Passed
  BY DEF IInv
<1>2. Len(gateway.members) \in Nat \ {0} /\ member \in 1 .. Len(gateway.members)
  BY <1>1, RequestShape DEF Types
<1>3. ASSUME NEW i \in Indices
      PROVE  Merged[i] = IF entities[i] = Nothing THEN found[i] ELSE entities[i]
  BY DEF Merged
<1>4. Merged \in [Indices -> Entity]
  BY <1>1 DEF Merged, Types
<1>5. ASSUME NEW i \in Indices, Merged[i] # Nothing
      PROVE  Fits(Merged[i], i)
  <2> PICK e \in Entity : e = Merged[i]
    BY <1>4
  <2>1. CASE entities[i] = Nothing
    <3>1. e = found[i] /\ e # Nothing
      BY <1>3, <1>5, <2>1
    <3>2. e.member = member /\ MadeFor(e, i)
      BY <1>1, <3>1 DEF Made
    <3>3. \A m \in member + 1 .. Len(gateway.members) : NoFinder(m, Representations[i])
      BY <1>1, <2>1 DEF Passed
    <3> QED
      BY <3>2, <3>3 DEF Fits
  <2>2. CASE entities[i] # Nothing
    <3>1. e = entities[i]
      BY <1>3, <2>2
    <3> QED
      BY <1>1, <2>2, <3>1 DEF Kept
  <2> QED
    BY <2>1, <2>2
<1>6. ASSUME NEW i \in Indices, Merged[i] = Nothing,
             NEW m \in member .. Len(gateway.members)
      PROVE  NoFinder(m, Representations[i])
  <2>1. found[i] = Nothing /\ entities[i] = Nothing
    BY <1>3, <1>6
  <2>2. CASE m = member
    BY <1>1, <2>1, <2>2 DEF Asked
  <2>3. CASE m # member
    <3>1. m \in member + 1 .. Len(gateway.members)
      BY <1>2, <2>3
    <3> QED
      BY <1>1, <2>1, <3>1 DEF Passed
  <2> QED
    BY <2>2, <2>3
<1> QED
  BY <1>4, <1>5, <1>6

LEMMA NextMemberKeeps ==
  ASSUME IInv, NextMember
  PROVE  IInv'
<1>1. /\ Indices' = Indices /\ Representations' = Representations
      /\ \A e, i : (MadeFor(e, i))' <=> MadeFor(e, i)
      /\ \A e, i : (Fits(e, i))' <=> Fits(e, i)
      /\ \A m, i : (NoFinder(m, Representations[i]))' <=> NoFinder(m, Representations[i])
      /\ \A m : (WorkOf(m))' = WorkOf(m)
  <2>1. gateway' = gateway
    BY DEF NextMember
  <2>2. \A m, i : (NoFinder(m, Representations[i]))' <=> NoFinder(m, Representations[i])
    BY <2>1 DEF NoFinder, FindersOf, Representations
  <2> QED
    BY <2>1, <2>2, PromiseKept
<1>2. /\ Types /\ verdict = "running" /\ work = {} /\ member > 1 /\ gateway \in Gateways
      /\ member' = member - 1 /\ gateway' = gateway /\ verdict' = verdict
  BY DEF NextMember, Running, IInv, Types
<1>3. Len(gateway.members) \in Nat /\ member \in 1 .. Len(gateway.members)
  BY <1>2, RequestShape DEF Types
<1>4. Nothing \in Entity
  BY DEF Nothing, Entity
<1> PICK E \in [Indices -> Entity] : E = Merged
  BY <1>2, MergedFits
<1> PICK F \in [Indices -> Entity] : F = [i \in Indices |-> Nothing]
  BY <1>4
<1>5. entities' = E /\ found' = F /\ \A i \in Indices : F[i] = Nothing
  BY DEF NextMember
<1>6. work' = WorkOf(gateway.members[member - 1]) /\ Member' = gateway.members[member - 1]
  BY <1>2 DEF NextMember, Member
<1>7. Types'
  <2>1. member - 1 \in 1 .. Len(gateway.members)
    BY <1>2, <1>3
  <2>2. \A m \in MemberSet : m = Member' => work' \subseteq WorkOf(m)
    BY <1>6
  <2> QED
    BY <1>1, <1>2, <1>5, <2>1, <2>2 DEF Types
<1>8. Made'
  BY <1>1, <1>5 DEF Made
<1>9. Asked'
  <2>1. \A i \in Indices : One(i) \in work'
    BY <1>6, OneInWork
  <2>2. \A i : (One(i))' = One(i)
    BY DEF One
  <2> QED
    BY <1>1, <2>1, <2>2 DEF Asked
<1>10. Kept'
  BY <1>1, <1>2, <1>5, MergedFits DEF Kept
<1>11. Passed'
  <2>1. ASSUME NEW i \in Indices, E[i] = Nothing,
               NEW m \in member - 1 + 1 .. Len(gateway.members)
        PROVE  NoFinder(m, Representations[i])
    <3>1. m \in member .. Len(gateway.members)
      BY <1>3
    <3> QED
      BY <1>2, <2>1, <3>1, MergedFits
  <2> QED
    BY <1>1, <1>2, <1>5, <2>1 DEF Passed
<1> QED
  BY <1>2, <1>7, <1>8, <1>9, <1>10, <1>11 DEF IInv, EntitiesFound

LEMMA ReplyKeeps ==
  ASSUME IInv, Reply
  PROVE  IInv'
<1>1. /\ Indices' = Indices /\ Representations' = Representations
      /\ \A e, i : (Fits(e, i))' <=> Fits(e, i)
      /\ \A m, i : (NoFinder(m, Representations[i]))' <=> NoFinder(m, Representations[i])
      /\ \A m : (WorkOf(m))' = WorkOf(m)
  <2>1. gateway' = gateway
    BY DEF Reply
  <2>2. \A m, i : (NoFinder(m, Representations[i]))' <=> NoFinder(m, Representations[i])
    BY <2>1 DEF NoFinder, FindersOf, Representations
  <2> QED
    BY <2>1, <2>2, PromiseKept
<1>2. /\ Types /\ verdict = "running" /\ work = {} /\ member = 1 /\ gateway \in Gateways
      /\ UNCHANGED <<gateway, member, work, found>>
  BY DEF Reply, Running, IInv, Types
<1>3. DOMAIN gateway.members = 1 .. Len(gateway.members)
  BY <1>2, RequestShape
<1> PICK E \in [Indices -> Entity] : E = Merged
  BY <1>2, MergedFits
<1>4. entities' = E
  BY DEF Reply
<1>5. Types'
  <2>1. Member' = Member
    BY <1>2 DEF Member
  <2> QED
    BY <1>1, <1>2, <1>4, <2>1 DEF Types
<1>6. CASE \E i \in Indices : E[i] = Nothing
  <2>1. verdict' = "missing"
    BY <1>1, <1>4, <1>6 DEF Reply
  <2>2. \E i \in Indices : \A m \in DOMAIN gateway.members : NoFinder(m, Representations[i])
    BY <1>2, <1>3, <1>6, MergedFits
  <2> QED
    BY <1>1, <1>2, <1>5, <2>1, <2>2 DEF IInv, EntitiesFound
<1>7. CASE \A i \in Indices : E[i] # Nothing
  <2>1. verdict' = "answered"
    BY <1>1, <1>4, <1>7 DEF Reply
  <2>2. ASSUME NEW i \in Indices
        PROVE  (Fits(entities[i], i))'
    <3> PICK e \in Entity : e = E[i]
      OBVIOUS
    <3>1. Fits(e, i)
      BY <1>2, <1>7, MergedFits
    <3>2. (Fits(e, i))'
      BY <1>1, <3>1
    <3>3. entities'[i] = e
      BY <1>4
    <3> QED
      BY <3>2, <3>3 DEF Fits, MadeFor
  <2> QED
    BY <1>1, <1>2, <1>5, <2>1, <2>2 DEF IInv, EntitiesFound
<1> QED
  BY <1>6, <1>7

LEMMA StutterKeeps ==
  ASSUME IInv, UNCHANGED evars
  PROVE  IInv'
<1> USE DEF evars
<1>1. /\ Indices' = Indices /\ Representations' = Representations
      /\ \A e, i : (MadeFor(e, i))' <=> MadeFor(e, i)
      /\ \A e, i : (Fits(e, i))' <=> Fits(e, i)
      /\ \A m, i : (NoFinder(m, Representations[i]))' <=> NoFinder(m, Representations[i])
      /\ \A m : (WorkOf(m))' = WorkOf(m)
  <2>1. \A m, i : (NoFinder(m, Representations[i]))' <=> NoFinder(m, Representations[i])
    BY DEF NoFinder, FindersOf, Representations
  <2> QED
    BY <2>1, PromiseKept
<1>2. Types'
  <2>1. Member' = Member
    BY DEF Member
  <2> QED
    BY <1>1, <2>1 DEF IInv, Types
<1>3. Made => Made'
  BY <1>1 DEF Made
<1>4. Asked => Asked'
  <2>1. \A i : (One(i))' = One(i)
    BY DEF One
  <2> QED
    BY <1>1, <2>1 DEF Asked
<1>5. Kept => Kept'
  BY <1>1 DEF Kept
<1>6. Passed => Passed'
  BY <1>1 DEF Passed
<1>7. EntitiesFound'
  <2>1. ASSUME NEW i \in Indices, Fits(entities[i], i)
        PROVE  (Fits(entities[i], i))'
    <3> PICK e : e = entities[i]
      OBVIOUS
    <3>1. Fits(e, i) /\ e = entities'[i]
      BY <2>1
    <3>2. (Fits(e, i))'
      BY <1>1, <3>1
    <3> QED
      BY <3>1, <3>2 DEF Fits, MadeFor
  <2> QED
    BY <1>1, <2>1 DEF IInv, EntitiesFound
<1> QED
  BY <1>2, <1>3, <1>4, <1>5, <1>6, <1>7 DEF IInv

LEMMA EntitiesStep ==
  ASSUME IInv, [EntitiesNext]_evars
  PROVE  IInv'
<1>1. CASE Refuse
  BY <1>1, FailedKeeps DEF Refuse
<1>2. ASSUME NEW w \in work, LookUp(w) \/ CallBatch(w)
      PROVE  IInv'
  BY <1>2, LookUpKeeps, CallBatchKeeps
<1>3. CASE NextMember
  BY <1>3, NextMemberKeeps
<1>4. CASE Reply
  BY <1>4, ReplyKeeps
<1>5. CASE UNCHANGED evars
  BY <1>5, StutterKeeps
<1> QED
  BY <1>1, <1>2, <1>3, <1>4, <1>5 DEF EntitiesNext

(***************************************************************************)
(* For every query root and every list of representations, an _entities    *)
(* request that is answered holds for each representation, in its place,   *)
(* the entity made from its own keys by the most specific resolver of the  *)
(* last merged member that has one, and one that is told an entity is      *)
(* missing has a representation no member has a finder for                 *)
(* (derive/src/object.rs, find_entities; merged_object.rs).                *)
(***************************************************************************)
THEOREM EntitiesAlwaysFound == EntitiesSpec => []EntitiesFound
<1>1. EntitiesInit => IInv
  BY EntitiesInitially
<1>2. IInv /\ [EntitiesNext]_evars => IInv'
  BY EntitiesStep
<1>3. IInv => EntitiesFound
  BY DEF IInv
<1> QED
  BY <1>1, <1>2, <1>3, PTL DEF EntitiesSpec
=============================================================================

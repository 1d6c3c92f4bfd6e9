------------------------------ MODULE Entities ------------------------------
(***************************************************************************)
(* Query._entities of a federated service: each representation the gateway *)
(* sends is answered by an entity resolver of the query root, which may be *)
(* an object or several of them merged.  The resolvers are those the       *)
(* Object macro generates from #[graphql(entity)] and                      *)
(* #[graphql(entity_batch)] methods (derive/src/object.rs).                *)
(*                                                                         *)
(* A finder has the type it returns, the arguments that are its keys and   *)
(* those that are not; a batch has a type and one key.  A representation   *)
(* has a __typename, or "" when it has none that is a string, and keys     *)
(* that can be parsed ("good") or not ("bad"); one that is not an object   *)
(* has the typename "scalar".                                              *)
(***************************************************************************)
EXTENDS Naturals, Sequences, FiniteSets

CONSTANTS
  Gateways,          \* requests: [enabled, members, representations]
  InterfacesOf(_)    \* type -> the interfaces it is a possible type of

VARIABLES
  gateway,   \* the request and the program it meets
  member,    \* the merged member asked, from the last to the first
  work,      \* the lookups left in this member
  found,     \* representation -> what this member found, or Nothing
  entities,  \* representation -> what the members so far found, or Nothing
  verdict    \* running, answered, missing, failed or refused

evars == <<gateway, member, work, found, entities, verdict>>

Nothing == [by |-> "", member |-> 0, of |-> 0]

Representations == gateway.representations
Indices == DOMAIN Representations

(***************************************************************************)
(* What the macro generates from the methods, and what the gateway sends.  *)
(* No type has the name that stands for a representation without one.      *)
(***************************************************************************)
TypeNames == STRING \ {"", "scalar"}

MemberSet ==
  [finders : Seq([fn : STRING, type : TypeNames, keys : Seq(STRING), requires : Seq(STRING)]),
   batches : Seq([fn : STRING, type : TypeNames, key : STRING])]

ASSUME GatewaysAssumption ==
  /\ \A g \in Gateways :
       /\ g.members \in Seq(MemberSet) /\ g.members # <<>>
       /\ Len(g.representations) \in Nat /\ DOMAIN g.representations = 1 .. Len(g.representations)
  /\ InterfacesOf("scalar") = {}

(***************************************************************************)
(* The finder for a representation: those of its own type come before      *)
(* those of an interface it implements, and among these the ones with the  *)
(* most arguments first, in the order they were declared.                  *)
(***************************************************************************)
Arity(f) == Len(f.keys) + Len(f.requires)

Parses(rep, key) == key \in DOMAIN rep.keys /\ rep.keys[key] = "good"

Takes(f, rep) ==
  /\ f.type \in {rep.typename} \cup InterfacesOf(rep.typename)
  /\ \A i \in DOMAIN f.keys : Parses(rep, f.keys[i])

MoreSpecific(f, g, rep) ==
  \/ f.type = rep.typename /\ g.type # rep.typename
  \/ (f.type = rep.typename <=> g.type = rep.typename) /\ Arity(f) > Arity(g)

Candidates(finders, rep) == {k \in DOMAIN finders : Takes(finders[k], rep)}

TriedFirst(finders, rep, k) ==
  \A j \in Candidates(finders, rep) :
    /\ ~MoreSpecific(finders[j], finders[k], rep)
    /\ j < k => MoreSpecific(finders[k], finders[j], rep)

(***************************************************************************)
(* find_entities.  Without batches every representation is looked up at    *)
(* once.  With them they are grouped by typename, in the order the names   *)
(* come; each group goes through the batches of its type and then, one by  *)
(* one, whatever these left; representations without a typename come last. *)
(* A batch is called for its group, under the first of it.                 *)
(***************************************************************************)
One(i) == [batch |-> 0, index |-> i]

Typename(i) == Representations[i].typename

Grouped(i) == Typename(i) \in TypeNames

GroupOf(i) == {j \in Indices : IF Grouped(i) THEN Typename(j) = Typename(i) ELSE ~Grouped(j)}

Leads(i) == \A j \in GroupOf(i) : i <= j

GroupFirst(i, j) ==
  /\ Grouped(i)
  /\ ~Grouped(j) \/ \E k \in GroupOf(i) : \A l \in GroupOf(j) : k < l

ComesFirst(v, w) ==
  \/ GroupFirst(v.index, w.index)
  \/ /\ w.index \in GroupOf(v.index)
     /\ \/ v.batch # 0 /\ (w.batch = 0 \/ v.batch < w.batch)
        \/ v.batch = 0 /\ w.batch = 0 /\ v.index < w.index

WorkOf(m) ==
  {One(i) : i \in Indices}
    \cup {w \in [batch : DOMAIN m.batches, index : Indices] :
            Leads(w.index) /\ m.batches[w.batch].type = Typename(w.index)}

Member == gateway.members[member]

EntitiesInit ==
  /\ gateway \in Gateways
  /\ member = Len(gateway.members)
  /\ work = WorkOf(Member)
  /\ found = [i \in Indices |-> Nothing] /\ entities = found
  /\ verdict = "running"

\* not a federated schema, or only introspection is allowed: the field is null
Refuse ==
  /\ verdict = "running" /\ ~gateway.enabled
  /\ verdict' = "refused"
  /\ UNCHANGED <<gateway, member, work, found, entities>>

Running == verdict = "running" /\ gateway.enabled

Fail == verdict' = "failed" /\ UNCHANGED <<gateway, member, found, entities>>

Removed(w) == work' = work \ {w}

(***************************************************************************)
(* find_entity of one representation.  The first candidate answers, with   *)
(* an entity or null, or fails: a required argument, the guard, the        *)
(* method or the selection of the entity.                                  *)
(***************************************************************************)
MissesRequired(f, rep) == \E i \in DOMAIN f.requires : ~Parses(rep, f.requires[i])

LookUp(w) ==
  LET i == w.index
      rep == Representations[i]
      finders == Member.finders
  IN
  /\ Running /\ w.batch = 0
  /\ Removed(w)
  /\ \/ /\ \/ found[i] # Nothing \/ rep.typename = "scalar"
           \/ rep.typename # "" /\ Candidates(finders, rep) = {}
        /\ UNCHANGED <<gateway, member, found, entities, verdict>>
     \/ found[i] = Nothing /\ rep.typename = "" /\ Fail
     \/ /\ found[i] = Nothing /\ Grouped(i)
        /\ \E k \in Candidates(finders, rep) :
             /\ TriedFirst(finders, rep, k)
             /\ \/ Fail
                \/ /\ ~MissesRequired(finders[k], rep)
                   /\ found' = [found EXCEPT ![i] = [by |-> finders[k].fn, member |-> member, of |-> i]]
                   /\ UNCHANGED <<gateway, member, entities, verdict>>

(***************************************************************************)
(* A batch is called with the keys that parse of the representations still *)
(* without an entity; its answers go to these in order, and the last ones  *)
(* get nothing when they are fewer.                                        *)
(***************************************************************************)
BatchOf(w) == Member.batches[w.batch]

Keyed(w) ==
  {i \in GroupOf(w.index) : found[i] = Nothing /\ Parses(Representations[i], BatchOf(w).key)}

\* Mutant of KeyIndices: the answers are counted over the whole group.
GroupIndices(w) == GroupOf(w.index)

KeyIndices(w) == Keyed(w)

Place(i, indices) == Cardinality({j \in indices : j <= i})

Answers(w, n) ==
  [i \in Indices |->
     IF i \in KeyIndices(w) /\ Place(i, KeyIndices(w)) <= n
     THEN [by |-> BatchOf(w).fn, member |-> member,
           of |-> CHOOSE j \in Keyed(w) : Place(j, Keyed(w)) = Place(i, KeyIndices(w))]
     ELSE found[i]]

CallBatch(w) ==
  /\ Running /\ w.batch # 0
  /\ Removed(w)
  /\ \/ Keyed(w) = {} /\ UNCHANGED <<gateway, member, found, entities, verdict>>
     \/ Keyed(w) # {} /\ Fail
     \/ \E n \in 0..Cardinality(Keyed(w)) :
          /\ Keyed(w) # {} /\ found' = Answers(w, n)
          /\ UNCHANGED <<gateway, member, entities, verdict>>

\* the lookups of a member without batches run at once
Next1(w) == Member.batches = <<>> \/ \A v \in work : v = w \/ ComesFirst(w, v)

(***************************************************************************)
(* The members of a merged object are asked one after another, each of     *)
(* them for every representation; the first entity found is kept.          *)
(***************************************************************************)
Merged == [i \in Indices |-> IF entities[i] = Nothing THEN found[i] ELSE entities[i]]

NextMember ==
  /\ Running /\ work = {} /\ member > 1
  /\ member' = member - 1
  /\ work' = WorkOf(gateway.members[member - 1])
  /\ entities' = Merged
  /\ found' = [i \in Indices |-> Nothing]
  /\ UNCHANGED <<gateway, verdict>>

Reply ==
  /\ Running /\ work = {} /\ member = 1
  /\ entities' = Merged
  /\ verdict' = IF \E i \in Indices : entities'[i] = Nothing THEN "missing" ELSE "answered"
  /\ UNCHANGED <<gateway, member, work, found>>

EntitiesNext ==
  \/ Refuse
  \/ \E w \in work : Next1(w) /\ (LookUp(w) \/ CallBatch(w))
  \/ NextMember
  \/ Reply

EntitiesSpec == EntitiesInit /\ [][EntitiesNext]_evars

(***************************************************************************)
(* Properties.                                                             *)
(***************************************************************************)
FindersOf(m) == {gateway.members[m].finders[k] : k \in DOMAIN gateway.members[m].finders}

BatchesOf(m) == {gateway.members[m].batches[b] : b \in DOMAIN gateway.members[m].batches}

Finds(m, f, rep) == Takes(f, rep) /\ \A g \in FindersOf(m) : Takes(g, rep) => ~MoreSpecific(g, f, rep)

\* nobody in member m takes the keys of a representation
NoFinder(m, rep) == \A f \in FindersOf(m) : ~Takes(f, rep)

\* the entity e was made for representation i by one who takes its keys
MadeFor(e, i) ==
  LET rep == Representations[i] IN
  /\ e.of = i
  /\ \/ \E b \in BatchesOf(e.member) : b.fn = e.by /\ b.type = rep.typename /\ Parses(rep, b.key)
     \/ \E f \in FindersOf(e.member) : f.fn = e.by /\ Finds(e.member, f, rep)

\* the entity e is the one the members promise for representation i
Fits(e, i) ==
  /\ MadeFor(e, i)
  /\ \A m \in e.member + 1 .. Len(gateway.members) : NoFinder(m, Representations[i])

(***************************************************************************)
(* The answer holds for each representation, in its place, an entity made  *)
(* from its own keys by the most specific resolver that takes them, of the *)
(* last member that has one; and a request is told an entity is missing    *)
(* only when some representation has no finder at all.                     *)
(***************************************************************************)
EntitiesFound ==
  /\ verdict = "answered" => \A i \in Indices : Fits(entities[i], i)
  /\ verdict = "missing" =>
       \E i \in Indices : \A m \in DOMAIN gateway.members : NoFinder(m, Representations[i])
=============================================================================

--------------------------- MODULE DynamicSchema ---------------------------
(***************************************************************************)
(* The dynamic schema: types given as values at run time are registered,   *)
(* the possible types of interfaces are filled in, the federation types    *)
(* are added and the whole is checked (dynamic/schema.rs, check.rs); an    *)
(* accepted schema resolves the values its resolvers return against their  *)
(* declared types (dynamic/resolve.rs).                                    *)
(*                                                                         *)
(* A type reference has the name it ends in and, from the outermost list   *)
(* to the named type inside all lists, whether each level is non-null.     *)
(* A resolver's value is a record: none (no value), null, scalar (valid or *)
(* not), list, or typed (WithType, the concrete object of an interface or  *)
(* union).  Scalars stand for enums as well.  Introspection is enabled.    *)
(***************************************************************************)
EXTENDS Naturals, Sequences, FiniteSets

CONSTANTS Definitions,   \* the schemas that are built: types in order, roots, modes
          Reserved,      \* the member names that begin with "__"
          Returned       \* the values a resolver may return

VARIABLES definition,    \* the builder's types
          registered,    \* how many of them are in the registry
          possible,      \* the possible types of each interface and union
          served,        \* the schema's types: the builder's and _Entity
          verdict,       \* building, ready, the check that refused it, or panic
          answer         \* a position of the response and what it resolves to

dvars == <<definition, registered, possible, served, verdict, answer>>

(***************************************************************************)
(* FieldValue: no value, null, a scalar, a value with its type, or a list. *)
(***************************************************************************)
IsItem(v) ==
  \/ v.kind \in {"none", "null"}
  \/ v.kind = "scalar" /\ v.valid \in BOOLEAN
  \/ v.kind = "typed"

IsFieldValue(v) == IsItem(v) \/ (v.kind = "list" /\ \A i \in DOMAIN v.items : IsItem(v.items[i]))

ASSUME ReturnedAssumption == \A v \in Returned : IsFieldValue(v)

SystemTypes == {"Int"}

IsTypeRef(t) == t.nonnull \in Seq(BOOLEAN) \ {<<>>}

Named(n) == [name |-> n, nonnull |-> <<FALSE>>]
NonNull(t) == [t EXCEPT !.nonnull[1] = TRUE]
List(t) == [t EXCEPT !.nonnull = <<FALSE>> \o @]

type_name(t) == t.name

is_nullable(t) == ~t.nonnull[1]

(***************************************************************************)
(* TypeRef::is_subtype: whether `sub` is `super` or a sub-type of it.      *)
(***************************************************************************)
is_subtype(super, sub) ==
  /\ super.name = sub.name /\ Len(super.nonnull) = Len(sub.nonnull)
  /\ \A k \in DOMAIN super.nonnull : super.nonnull[k] => sub.nonnull[k]

(***************************************************************************)
(* The builder's types have names of their own, and the name of the        *)
(* federation union is not one of them.                                    *)
(***************************************************************************)
ElementsOf(s) == {s[i] : i \in DOMAIN s}

ASSUME DefinitionsAssumption ==
  \A d \in Definitions :
    /\ Len(d.types) \in Nat /\ DOMAIN d.types = 1 .. Len(d.types)
    /\ \A i, j \in DOMAIN d.types : d.types[i].name = d.types[j].name => i = j
    /\ \A i \in DOMAIN d.types :
         /\ d.types[i].name # "_Entity"
         /\ \A f \in ElementsOf(d.types[i].fields) : IsTypeRef(f.ty)

(***************************************************************************)
(* The types by name.                                                      *)
(***************************************************************************)
Names == {definition.types[i].name : i \in DOMAIN definition.types}
TypeNamed(n) == CHOOSE t \in ElementsOf(definition.types) : t.name = n
Kind(n) ==
  CASE n \in SystemTypes -> "Scalar"
    [] n = "_Entity" -> "Union"
    [] OTHER -> TypeNamed(n).kind

OfKind(kinds) == {n \in Names : Kind(n) \in kinds}

is_output_type(n) == Kind(n) \in {"Scalar", "Object", "Interface", "Union"}
is_input_type(n) == Kind(n) \in {"Scalar", "InputObject", "Upload"}

(***************************************************************************)
(* finish: every type is registered unless its name is taken, the objects  *)
(* enter the possible types of the interfaces they implement, and the      *)
(* _Entity union takes the resolvable objects with keys and the objects    *)
(* under an interface with keys.                                           *)
(***************************************************************************)
RegisteredMembers(t) == IF t.kind = "Union" THEN t.possible ELSE {}

register ==
  /\ verdict = "building" /\ registered < Len(definition.types)
  /\ LET t == definition.types[registered + 1] IN
     \/ /\ t.name \in SystemTypes
        /\ verdict' = "already exists"
        /\ UNCHANGED <<registered, possible>>
     \/ /\ t.name \notin SystemTypes
        /\ registered' = registered + 1
        /\ possible' = [possible EXCEPT ![t.name] = RegisteredMembers(t)]
        /\ UNCHANGED verdict
  /\ UNCHANGED <<definition, served, answer>>

update_interface_possible_types ==
  [n \in DOMAIN possible |->
     possible[n] \cup IF n \in OfKind({"Interface"})
                      THEN {o \in OfKind({"Object"}) : n \in TypeNamed(o).implements} ELSE {}]

(***************************************************************************)
(* Federation is enabled by the builder or by a type with keys; then the   *)
(* registry's query type must be there (mod.rs:1825).                      *)
(***************************************************************************)
has_dynamic_entities ==
  \E n \in Names : \/ Kind(n) = "Object" /\ TypeNamed(n).keys = "resolvable"
                   \/ Kind(n) = "Interface" /\ TypeNamed(n).keys # "none"

dynamic_entity_types(members) ==
  {n \in OfKind({"Object"}) : TypeNamed(n).keys = "resolvable"}
    \cup UNION {members[n] : n \in {m \in OfKind({"Interface"}) : TypeNamed(m).keys # "none"}}

enable_federation == definition.federation \/ has_dynamic_entities

MissingQueryType == enable_federation /\ definition.query \notin Names \cup SystemTypes

CreateTypes ==
  LET members == update_interface_possible_types
      entities == dynamic_entity_types(members)
      federated == enable_federation /\ entities # {}
  IN
  /\ verdict = "building" /\ registered = Len(definition.types) /\ served = {}
  /\ \/ /\ MissingQueryType
        /\ verdict' = "panic"
        /\ UNCHANGED <<possible, served>>
     \/ /\ ~MissingQueryType
        /\ possible' = [members EXCEPT !["_Entity"] = IF federated THEN entities ELSE {}]
        /\ served' = Names \cup SystemTypes \cup IF federated THEN {"_Entity"} ELSE {}
        /\ UNCHANGED verdict
  /\ UNCHANGED <<definition, registered, answer>>

(***************************************************************************)
(* check: the six checks in turn; the first that fails refuses the schema. *)
(* A subscription root need not exist, and of the fields of subscription   *)
(* objects only the existence of their types is checked.                   *)
(***************************************************************************)
MemberTypes(t) ==
  {type_name(t.fields[i].ty) : i \in DOMAIN t.fields}
    \cup UNION {{type_name(t.fields[i].args[j].ty) : j \in DOMAIN t.fields[i].args} :
                  i \in DOMAIN t.fields}

check_types_exists ==
  /\ definition.query \in served
  /\ definition.mutation # "" => definition.mutation \in served
  /\ \A n \in Names : MemberTypes(TypeNamed(n)) \cup TypeNamed(n).implements \cup TypeNamed(n).possible
                        \subseteq served

HasSubscriptionRoot == definition.subscription # "" /\ definition.subscription \in served

check_root_types ==
  /\ Kind(definition.query) = "Object"
  /\ definition.mutation # "" => Kind(definition.mutation) = "Object"
  /\ HasSubscriptionRoot => Kind(definition.subscription) = "Subscription"

FieldNamed(t, name) == {f \in ElementsOf(t.fields) : f.name = name}
ArgNamed(f, name) == {a \in ElementsOf(f.args) : a.name = name}

(***************************************************************************)
(* check_is_valid_implementation: each field of the interface is           *)
(* implemented, each of its arguments is there unless it is nullable and   *)
(* has a sub-type, and the types of the two fields pass is_subtype.        *)
(***************************************************************************)
FieldTypesChecked(impl_ty, ty) == is_subtype(impl_ty, ty)

ArgumentsImplemented(field, impl_field) ==
  \A a \in ElementsOf(field.args) :
    /\ ArgNamed(impl_field, a.name) = {} => is_nullable(a.ty)
    /\ \A b \in ArgNamed(impl_field, a.name) : is_subtype(a.ty, b.ty)

check_is_valid_implementation(t, interface) ==
  \A f \in ElementsOf(interface.fields) :
    /\ FieldNamed(t, f.name) # {}
    /\ \A g \in FieldNamed(t, f.name) :
         ArgumentsImplemented(f, g) /\ FieldTypesChecked(g.ty, f.ty)

WellFormedFields(t) ==
  \A f \in ElementsOf(t.fields) :
    /\ f.name \notin Reserved
    /\ is_output_type(type_name(f.ty))
    /\ \A a \in ElementsOf(f.args) : a.name \notin Reserved /\ is_input_type(type_name(a.ty))

ImplementsInterfaces(t) == \A i \in t.implements : Kind(i) = "Interface"

Implements(t) ==
  \A i \in t.implements : Kind(i) = "Interface" /\ check_is_valid_implementation(t, TypeNamed(i))

check_objects ==
  \A n \in OfKind({"Object"}) :
    /\ TypeNamed(n).fields # <<>> \/ (n = definition.query /\ has_dynamic_entities)
    /\ WellFormedFields(TypeNamed(n))
    /\ Implements(TypeNamed(n))

(***************************************************************************)
(* check_input_object_reference: a walk along the non-null references from *)
(* one input object, which does not enter a type that is already on the    *)
(* chain, and fails when it is back at the start.  Walks(current)[k] are   *)
(* the types and chains from which a walk of at most k types more fails; a *)
(* chain holds each input object once, so it is no longer than there are.  *)
(***************************************************************************)
NonNullNames(n) ==
  {f.ty.name : f \in {g \in ElementsOf(TypeNamed(n).fields) : g.ty.nonnull = <<TRUE>>}}

InputObjects == OfKind({"InputObject"})

Walks(current) ==
  LET walk[k \in 0 .. Cardinality(InputObjects)] ==
        {p \in InputObjects \X SUBSET InputObjects :
           \E m \in NonNullNames(p[1]) :
             \/ m = current
             \/ k > 0 /\ m \in InputObjects \ p[2] /\ <<m, p[2] \cup {m}>> \in walk[k - 1]}
  IN  walk

check_input_object_reference(n) ==
  <<n, {}>> \notin Walks(n)[Cardinality(InputObjects)]

check_input_objects ==
  \A n \in InputObjects :
    /\ \A f \in ElementsOf(TypeNamed(n).fields) :
         /\ f.name \notin Reserved
         /\ is_input_type(type_name(f.ty))
         /\ TypeNamed(n).oneof => is_nullable(f.ty) /\ ~f.default
    /\ check_input_object_reference(n)

check_interfaces ==
  \A n \in OfKind({"Interface"}) :
    /\ WellFormedFields(TypeNamed(n))
    /\ n \notin TypeNamed(n).implements
    /\ Implements(TypeNamed(n))

check_unions ==
  \A n \in OfKind({"Union"}) : \A m \in TypeNamed(n).possible : Kind(m) = "Object"

Check ==
  /\ verdict = "building" /\ served # {}
  /\ verdict' = CASE ~check_types_exists -> "types"
                  [] check_types_exists /\ ~check_root_types -> "roots"
                  [] check_types_exists /\ check_root_types /\ ~check_objects -> "objects"
                  [] OTHER -> IF ~check_input_objects THEN "inputs"
                              ELSE IF ~check_interfaces THEN "interfaces"
                              ELSE IF ~check_unions THEN "unions"
                              ELSE "ready"
  /\ UNCHANGED <<definition, registered, possible, served, answer>>

(***************************************************************************)
(* resolve: a value against a type, which fails, is null or a leaf, or is  *)
(* a list or an object, whose items and fields are resolved in turn; an    *)
(* error anywhere fails the whole field, "missing" is the panic of the     *)
(* index of a type that is not served.                                     *)
(***************************************************************************)
Result(shape) == [shape |-> shape, object |-> ""]
ObjectResult(o) == [shape |-> "object", object |-> o]

Fails == Result("error")
Missing == Result("missing")
Nothing == Result("null")
Leaf == Result("leaf")
ListResult == Result("list")

(***************************************************************************)
(* The object whose fields are resolved for a value of a composite type.   *)
(***************************************************************************)
UncheckedConcrete(n, value) ==
  CASE Kind(n) = "Object" -> {n}
    [] Kind(n) \in {"Interface", "Union"} ->
         IF value.kind = "typed" /\ Kind(value.ty) = "Object" THEN {value.ty} ELSE {}

Concrete(n, value) ==
  CASE Kind(n) = "Object" -> {n}
    [] Kind(n) \in {"Interface", "Union"} ->
         IF value.kind = "typed" /\ value.ty \in possible[n] /\ Kind(value.ty) = "Object"
         THEN {value.ty} ELSE {}

resolve_value(n, value) ==
  CASE n \notin served -> Missing
    [] n \in served /\ Kind(n) = "Scalar" ->
         CASE value.kind = "null" -> Nothing
           [] value.kind = "scalar" /\ value.valid -> Leaf
           [] OTHER -> Fails
    [] n \in served /\ Kind(n) \in {"Object", "Interface", "Union"} ->
         IF Concrete(n, value) = {} THEN Fails
         ELSE ObjectResult(CHOOSE o \in Concrete(n, value) : TRUE)
    [] OTHER -> Fails

InsideList(t, level) == level < Len(t.nonnull)

Unwrapped(t, level, value) ==
  CASE value.kind = "none" -> Nothing
    [] value.kind = "null" /\ InsideList(t, level) -> Nothing
    [] value.kind = "list" /\ InsideList(t, level) -> ListResult
    [] value.kind \notin {"none", "null", "list"} /\ InsideList(t, level) -> Fails
    [] value.kind # "none" /\ ~InsideList(t, level) -> resolve_value(t.name, value)

resolve(t, level, value) ==
  IF t.nonnull[level] /\ Unwrapped(t, level, value) = Nothing THEN Fails
  ELSE Unwrapped(t, level, value)

(***************************************************************************)
(* The answer is one position of the response, and any position is reached *)
(* from the root by the steps below: the items of a list, and the fields   *)
(* of an object, each with a value its resolver returns.                   *)
(***************************************************************************)
NoAnswer == [ty |-> Named(""), level |-> 0, value |-> [kind |-> "none"], result |-> Nothing]

At(t, level, value) ==
  [ty |-> t, level |-> level, value |-> value, result |-> resolve(t, level, value)]

Resolve(t, level, value) ==
  /\ verdict = "ready"
  /\ answer' = At(t, level, value)
  /\ UNCHANGED <<definition, registered, possible, served, verdict>>

(***************************************************************************)
(* Query._entities: the entity resolver's value as a non-null list of the  *)
(* _Entity union.  Federation routes the field there whether or not the    *)
(* schema has the union; without it the strict rules refuse the field,     *)
(* unless the builder gave the query type one of that name.  A schema      *)
(* without an entity resolver is an error, as one that returns no value.   *)
(***************************************************************************)
FederationFields == {"_service", "_entities"}

EntitiesUnchecked ==
  \/ definition.validation_mode = "Fast"
  \/ FieldNamed(TypeNamed(definition.query), "_entities") # {}

collect_entities_field(value) ==
  /\ enable_federation
  /\ "_Entity" \in served \/ EntitiesUnchecked
  /\ Resolve(NonNull(List(Named("_Entity"))), 1, value)

resolve_field(object, hidden, value) ==
  \E f \in ElementsOf(TypeNamed(object).fields) : f.name \notin hidden /\ Resolve(f.ty, 1, value)

(***************************************************************************)
(* collect_fields: on the query root the fields of federation come before  *)
(* the object's own.                                                       *)
(***************************************************************************)
collect_fields(object, value) ==
  \/ object = definition.query /\ collect_entities_field(value)
  \/ LET federated == object = definition.query /\ enable_federation IN
     resolve_field(object, IF federated THEN FederationFields ELSE {}, value)

resolve_container(value) ==
  /\ answer.result.shape = "object"
  /\ collect_fields(answer.result.object, value)

resolve_list ==
  /\ answer.result = ListResult
  /\ \E v \in ElementsOf(answer.value.items) : Resolve(answer.ty, answer.level + 1, v)

(***************************************************************************)
(* execute_stream: an event of one field of the subscription root, or the  *)
(* one response that there is no such root.                                *)
(***************************************************************************)
RootNotFound == [ty |-> Named(""), level |-> 1, value |-> [kind |-> "none"], result |-> Fails]

collect_streams(value) ==
  /\ HasSubscriptionRoot /\ value.kind # "none"
  /\ resolve_field(definition.subscription, {}, value)

subscription_root ==
  /\ ~HasSubscriptionRoot
  /\ answer' = RootNotFound
  /\ UNCHANGED <<definition, registered, possible, served, verdict>>

DynamicInit ==
  /\ definition \in Definitions
  /\ registered = 0
  /\ possible = [n \in Names \cup {"_Entity"} |-> {}]
  /\ served = {}
  /\ verdict = "building"
  /\ answer = NoAnswer

DynamicNext ==
  \/ register
  \/ CreateTypes
  \/ Check
  \/ \E value \in Returned :
       \/ /\ verdict = "ready" /\ answer = NoAnswer
          /\ \/ collect_fields(definition.query, value)
             \/ definition.mutation # "" /\ collect_fields(definition.mutation, value)
             \/ collect_streams(value)
             \/ subscription_root
       \/ resolve_container(value)
  \/ resolve_list

DynamicSpec == DynamicInit /\ [][DynamicNext]_dvars

(***************************************************************************)
(* Properties.                                                             *)
(***************************************************************************)
DynamicTypeOK ==
  /\ registered \in 0..Len(definition.types)
  /\ served \subseteq Names \cup SystemTypes \cup {"_Entity"}
  /\ \A n \in DOMAIN possible : possible[n] \cap Names \subseteq OfKind({"Object"}) \/ verdict # "ready"

Ready == verdict = "ready"

(***************************************************************************)
(* A result has its type: null only where the type is nullable, a list     *)
(* where it is a list, and an object that may stand for the type: of the   *)
(* _Entity union, one that a key fetches.                                  *)
(***************************************************************************)
MayStandFor(o, n) ==
  \/ o = n
  \/ Kind(n) = "Interface" /\ n \in TypeNamed(o).implements
  \/ n # "_Entity" /\ Kind(n) = "Union" /\ o \in TypeNamed(n).possible
  \/ /\ n = "_Entity"
     /\ \/ TypeNamed(o).keys = "resolvable"
        \/ \E i \in TypeNamed(o).implements : TypeNamed(i).keys # "none"

Conforms(t, level, r) ==
  /\ r = Nothing => ~t.nonnull[level]
  /\ r = ListResult <=> InsideList(t, level) /\ r # Nothing
  /\ r = Leaf => Kind(t.name) = "Scalar"
  /\ r.shape = "object" =>
       /\ r.object \in OfKind({"Object"}) /\ MayStandFor(r.object, t.name)

(***************************************************************************)
(* Whatever the resolvers of an accepted schema return, every position of  *)
(* a response and of an event is an error or a value of its type, and the  *)
(* one type that may be looked up though the schema does not have it is    *)
(* _Entity, where no rule keeps a request from _entities (resolve.rs:438). *)
(***************************************************************************)
Unserved(t) == t.name = "_Entity" /\ "_Entity" \notin served /\ EntitiesUnchecked

ResultConforms ==
  answer # NoAnswer =>
    /\ answer.result = Missing => Unserved(answer.ty)
    /\ answer.result \in {Fails, Missing} \/ Conforms(answer.ty, answer.level, answer.result)

(***************************************************************************)
(* "The executor itself also has error handling" (validation/mod.rs:37):   *)
(* of Fast validation, which leaves unknown fields to the executor.  No    *)
(* position is the panic of the lookup (resolve.rs:438).                   *)
(***************************************************************************)
ExecutorHandlesErrors == answer.result # Missing

(***************************************************************************)
(* An accepted schema has no cycle of non-null references between input    *)
(* objects, so every input object has a finite value, and a schema is not  *)
(* refused for one it does not have (check.rs:223).                        *)
(***************************************************************************)
NonNullRefs(n) == NonNullNames(n) \cap InputObjects

OnCycle(n) ==
  \A reached \in SUBSET InputObjects :
    NonNullRefs(n) \subseteq reached /\ (\A m \in reached : NonNullRefs(m) \subseteq reached)
      => n \in reached

Malformed(n) ==
  \E f \in ElementsOf(TypeNamed(n).fields) :
    \/ f.name \in Reserved \/ ~is_input_type(type_name(f.ty))
    \/ TypeNamed(n).oneof /\ (~is_nullable(f.ty) \/ f.default)

InputCyclesRefused ==
  /\ Ready => \A n \in InputObjects : ~OnCycle(n)
  /\ verdict = "inputs" => \E n \in InputObjects : OnCycle(n) \/ Malformed(n)

(***************************************************************************)
(* Whatever object an interface or the _Entity union may stand for, the    *)
(* fields of the interface can be selected on it, and the entities of the  *)
(* schema are the objects a key can fetch (check.rs:371, schema.rs:579).   *)
(***************************************************************************)
InterfaceFieldsServed ==
  Ready =>
    /\ \A n \in OfKind({"Interface"}) : \A o \in possible[n] :
         \A f \in ElementsOf(TypeNamed(n).fields) :
           \E g \in ElementsOf(TypeNamed(o).fields) :
             /\ g.name = f.name /\ type_name(g.ty) = type_name(f.ty)
             /\ \A a \in ElementsOf(f.args) : ~is_nullable(a.ty) => ArgNamed(g, a.name) # {}
    /\ \A n \in OfKind({"Interface"}) : (TypeNamed(n).keys # "none") => possible[n] \subseteq possible["_Entity"]

(***************************************************************************)
(* What the checks of a dynamic schema accept can be served, and they      *)
(* refuse nothing else for its input objects.                              *)
(***************************************************************************)
AcceptedSchemaServed == DynamicTypeOK /\ InputCyclesRefused /\ InterfaceFieldsServed

(***************************************************************************)
(* "field must return a type which is equal to or a sub-type of            *)
(* (covariant) the return type of implementedField field's return type"    *)
(* (check.rs:417).                                                         *)
(***************************************************************************)
ImplementationsCovariant ==
  Ready =>
    \A o \in OfKind({"Object"}) : \A n \in TypeNamed(o).implements :
      \A f \in ElementsOf(TypeNamed(n).fields) : \A g \in FieldNamed(TypeNamed(o), f.name) :
        is_subtype(f.ty, g.ty)
===========================================================================

--------------------------- MODULE SchemaRegistry ---------------------------
(***************************************************************************)
(* How a schema is built from Rust types (registry/mod.rs, schema.rs and   *)
(* the create_type_info functions the derive macros write): the recursive  *)
(* registration of types, the renaming of an input object whose name an    *)
(* output object takes, the removal of unused types, the federation types, *)
(* and what introspection shows of the result to one client.               *)
(*                                                                         *)
(* A Rust program is a function from declarations to records.  A           *)
(* declaration is one side of a Rust type: a type that derives both        *)
(* SimpleObject and InputObject is two declarations with one rust name.    *)
(* A GraphQL name is a pair <<base, k>>: k = 0 is the base itself, k = 1   *)
(* is "{base}Input" and k > 1 is "{base}Input{k}".  A reference keeps only *)
(* the base of a type (every rename goes through `!` and `[]`), and the    *)
(* declaration it was written for.  The built-in scalars and the           *)
(* introspection types are left out: they are never renamed or removed.    *)
(***************************************************************************)
EXTENDS Integers, Sequences, FiniteSets, SequencesExt

CONSTANTS Programs,      \* the programs whose schema is built
          Bases,         \* the bases of GraphQL names
          HiddenSets     \* what a client may not see: types and members

VARIABLES program,       \* the program being registered
          todo,          \* the calls of create_registry and of the builder
          stack,         \* the create_type_info calls under way
          types,         \* Registry::types
          implements,    \* Registry::implements
          directives,    \* the argument references of Registry::directives
          keys,          \* the @key directives of the types that were built
          phase,         \* none, register, extra, built or panicked
          client         \* what the last introspection query showed

vars == <<program, todo, stack, types, implements, directives, keys, phase, client>>

NoClient == [hidden |-> [types |-> {}, members |-> {}], listed |-> {}, shown |-> {}]

Decl(d) == program.decls[d]
Decls == DOMAIN program.decls

(***************************************************************************)
(* The programs that compile.  A declaration is one side of a Rust type.   *)
(* A field has an output type and an argument an input type; the members   *)
(* of a union and of an interface, the parts of a merged object and the    *)
(* roots are objects; entity resolvers are methods of an object and return *)
(* objects or interfaces.                                                  *)
(***************************************************************************)
AllNames == Bases \X Nat

\* the names of members and of Rust types, with those the build adds itself
Labels == STRING \cup {"in", "_service", "_entities", "Service", "Entity"}

Entity == <<"_Entity", 0>>
Service == <<"_Service", 0>>

Kinds == {"Scalar", "Object", "Interface", "Union", "Enum", "InputObject"}
InputKinds == {"Scalar", "Enum", "InputObject"}
OutputKinds == Kinds \ {"InputObject"}

DeclsOf(p, kinds) == {d \in DOMAIN p.decls : p.decls[d].kind \in kinds}

ArgSet(p) == [name : Labels, of : DeclsOf(p, InputKinds), marks : SUBSET Labels]

FieldSet(p) ==
  [name : Labels, out : DeclsOf(p, OutputKinds), args : Seq(ArgSet(p)), marks : SUBSET Labels]

DeclSet(p) ==
  [kind : Kinds, rust : Labels, name : AllNames \ {Entity, Service}, fields : Seq(FieldSet(p)),
   inputs : Seq(ArgSet(p)), possible : Seq(DeclsOf(p, {"Object"})),
   parts : Seq(DeclsOf(p, {"Object"})), entities : Seq(DeclsOf(p, {"Object", "Interface"})),
   unresolvable : BOOLEAN, marks : SUBSET Labels]

Compiles(p) ==
  /\ IsFiniteSet(DOMAIN p.decls) /\ "federation" \notin DOMAIN p.decls
  /\ \A d \in DOMAIN p.decls :
       /\ p.decls[d] \in DeclSet(p)
       /\ p.decls[d].kind # "Object" => p.decls[d].entities = <<>>
       /\ \A e \in DOMAIN p.decls :
            p.decls[e].rust = p.decls[d].rust /\ p.decls[e].kind = p.decls[d].kind => e = d
  /\ p.roots \in Seq(DeclsOf(p, {"Object"})) /\ p.roots # <<>>
  /\ p.extra \in Seq([decl : DOMAIN p.decls, as : {"register"}]
                       \cup [decl : DeclsOf(p, InputKinds), as : {"directive"}])
  /\ p.ignore_name_conflicts \subseteq AllNames

ASSUME BasesAssumption == {"_Entity", "_Service"} \subseteq Bases

ASSUME ProgramsAssumption == \A p \in Programs : Compiles(p)

(***************************************************************************)
(* What the derive macros make of a declaration: the calls its constructor *)
(* makes in order.  A field of an object creates its type and then the     *)
(* types of its arguments; an interface and a union first create their     *)
(* members.                                                                *)
(***************************************************************************)
Call(d, role, path, marks) ==
  [op |-> "create", decl |-> d, role |-> role, path |-> path, marks |-> marks]

FieldCalls(f) ==
  <<Call(f.out, "out", <<f.name>>, f.marks)>>
    \o [i \in DOMAIN f.args |-> Call(f.args[i].of, "arg", <<f.name, f.args[i].name>>, f.args[i].marks)]

ObjectMembers(decl) == FlattenSeq([i \in DOMAIN decl.fields |-> FieldCalls(decl.fields[i])])

MergedMembers(decl) == [i \in DOMAIN decl.parts |-> Call(decl.parts[i], "extend", <<>>, {})]

UnionMembers(decl) == [i \in DOMAIN decl.possible |-> Call(decl.possible[i], "possible", <<>>, {})]

InterfaceMembers(decl) == UnionMembers(decl) \o ObjectMembers(decl)

InputMembers(decl) ==
  [i \in DOMAIN decl.inputs |-> Call(decl.inputs[i].of, "input", <<decl.inputs[i].name>>, decl.inputs[i].marks)]

MemberCalls(d) ==
  CASE Decl(d).kind = "Object" -> MergedMembers(Decl(d)) \o ObjectMembers(Decl(d))
    [] Decl(d).kind = "Interface" -> InterfaceMembers(Decl(d))
    [] Decl(d).kind = "Union" -> UnionMembers(Decl(d))
    [] Decl(d).kind = "InputObject" -> InputMembers(Decl(d))
    [] OTHER -> <<>>

(***************************************************************************)
(* The entity resolvers of an object: after the object itself is           *)
(* registered, each entity type is created and given its key.              *)
(***************************************************************************)
EntityCalls(d) ==
  LET es == Decl(d).entities IN
    [i \in DOMAIN es |-> Call(es[i], "none", <<>>, {})]
      \o [i \in DOMAIN es |-> [op |-> "key", decl |-> es[i]]]

(***************************************************************************)
(* Names.                                                                  *)
(***************************************************************************)
unused_input_object_name(name, registered) ==
  LET k == CHOOSE k \in 1..(Cardinality(registered) + 1) :
             /\ <<name[1], k>> \notin registered
             /\ \A j \in 1..(k - 1) : <<name[1], j>> \in registered
  IN <<name[1], k>>

registered_input_object_name(rust) ==
  {n \in DOMAIN types : types[n].kind = "InputObject" /\ types[n].rust = rust}

rename_type_reference(ref, from, to) ==
  IF ref.to = from THEN [ref EXCEPT !.to = to] ELSE ref

rename_argument_references(refs, from, to) ==
  [i \in DOMAIN refs |->
     IF refs[i].role = "arg" THEN rename_type_reference(refs[i], from, to) ELSE refs[i]]

rename_input_type_references_in_type(refs, from, to) ==
  [i \in DOMAIN refs |->
     IF refs[i].role \in {"arg", "input"}
     THEN rename_type_reference(refs[i], from, to) ELSE refs[i]]

rename_conflicting_input_object(name) ==
  LET input_name == unused_input_object_name(name, DOMAIN types)
      moved == [types[name] EXCEPT !.name = input_name]
      renamed == [n \in (DOMAIN types \ {name}) \cup {input_name} |->
                    IF n = input_name THEN moved ELSE types[n]]
  IN [n \in DOMAIN renamed |->
        [renamed[n] EXCEPT !.refs = rename_input_type_references_in_type(@, name, input_name)]]

(***************************************************************************)
(* create_type.  A type is entered in the map, empty, before its           *)
(* constructor runs, so that recursive types find it.                      *)
(***************************************************************************)
create_fake_type(d) ==
  [kind |-> Decl(d).kind, rust |-> Decl(d).rust, name |-> <<"", 0>>, marks |-> {}, refs |-> <<>>]

Insert(map, name, type) ==
  [n \in DOMAIN map \cup {name} |-> IF n = name THEN type ELSE map[n]]

Frame(d, name, calls) == [decl |-> d, name |-> name, calls |-> calls, refs |-> <<>>]

Constructor(d) == MemberCalls(d) \o <<[op |-> "close", decl |-> d]>> \o EntityCalls(d)

Push(frame) == stack' = Append(stack, frame)

CreateNew(d, map, name) ==
  /\ types' = Insert(map, name, create_fake_type(d))
  /\ Push(Frame(d, name, Constructor(d)))
  /\ UNCHANGED <<phase>>

Reuse(d, name) ==
  /\ Push(Frame(d, name, EntityCalls(d)))
  /\ UNCHANGED <<types, directives, phase>>

Panic ==
  /\ phase' = "panicked"
  /\ UNCHANGED <<types, directives, stack>>

SameRustTypeAndKind(prev, d) ==
  prev.rust = Decl(d).rust /\ prev.kind = Decl(d).kind

SameRustType(prev, d) ==
  prev.rust = Decl(d).rust \/ Decl(d).name \in program.ignore_name_conflicts

create_type(d) ==
  LET name == Decl(d).name
      prev == types[name]
      same_rust == SameRustType(prev, d)
  IN \/ /\ name \notin DOMAIN types
        /\ CreateNew(d, types, name)
        /\ UNCHANGED directives
     \/ /\ name \in DOMAIN types
        /\ \/ /\ prev.kind = "Scalar"
              /\ Reuse(d, name)
           \/ /\ prev.kind # "Scalar" /\ ~same_rust
              /\ Panic
           \/ /\ prev.kind # "Scalar" /\ same_rust /\ prev.kind = Decl(d).kind
              /\ Reuse(d, name)
           \/ /\ prev.kind = "InputObject" /\ same_rust /\ Decl(d).kind = "Object"
              /\ CreateNew(d, rename_conflicting_input_object(name), name)
              /\ directives' = rename_argument_references(
                                 directives, name, unused_input_object_name(name, DOMAIN types))
           \/ /\ prev.kind = "Object" /\ same_rust /\ Decl(d).kind = "InputObject"
              /\ LET found == registered_input_object_name(Decl(d).rust) IN
                   \/ /\ found # {}
                      /\ Reuse(d, CHOOSE n \in found : TRUE)
                   \/ /\ found = {}
                      /\ CreateNew(d, types, unused_input_object_name(name, DOMAIN types))
                      /\ UNCHANGED directives
           \/ /\ prev.kind # "Scalar" /\ same_rust /\ prev.kind # Decl(d).kind
              /\ {prev.kind, Decl(d).kind} # {"Object", "InputObject"}
              /\ Panic

(***************************************************************************)
(* The next step of the innermost create_type_info call.                   *)
(***************************************************************************)
Top == Last(stack)
Current == Head(Top.calls)
Below == Front(stack)

CreateMember ==
  /\ phase \in {"register", "extra"} /\ stack # <<>> /\ Top.calls # <<>>
  /\ Current.op = "create"
  /\ create_type(Current.decl)
  /\ UNCHANGED <<program, todo, implements, keys, client>>

(***************************************************************************)
(* The constructor returns: the type replaces the empty one.  An input     *)
(* object that was given another name than its own refers to itself by it. *)
(***************************************************************************)
CloseType ==
  LET d == Current.decl IN
  /\ phase \in {"register", "extra"} /\ stack # <<>> /\ Top.calls # <<>>
  /\ Current.op = "close"
  /\ types' = [types EXCEPT ![Top.name] =
                 [kind |-> Decl(d).kind, rust |-> Decl(d).rust, name |-> Top.name,
                  marks |-> Decl(d).marks,
                  refs |-> rename_input_type_references_in_type(Top.refs, Decl(d).name, Top.name)]]
  /\ stack' = Append(Below, [Top EXCEPT !.calls = Tail(@)])
  /\ keys' = Insert(keys, Top.name, IF Decl(d).unresolvable THEN <<"unresolvable">> ELSE <<>>)
  /\ UNCHANGED <<program, todo, implements, directives, phase, client>>

(***************************************************************************)
(* add_keys: ignored for a type that is not an object or an interface.     *)
(***************************************************************************)
KeysOf(name) == IF name \in DOMAIN keys THEN keys[name] ELSE <<>>

add_keys ==
  LET name == Decl(Current.decl).name IN
  /\ phase \in {"register", "extra"} /\ stack # <<>> /\ Top.calls # <<>>
  /\ Current.op = "key"
  /\ keys' = IF name \in DOMAIN types /\ types[name].kind \in {"Object", "Interface"}
             THEN Insert(keys, name, Append(KeysOf(name), "entity")) ELSE keys
  /\ stack' = Append(Below, [Top EXCEPT !.calls = Tail(@)])
  /\ UNCHANGED <<program, todo, types, implements, directives, phase, client>>

(***************************************************************************)
(* The call returns the name of the type to its caller, which keeps it in  *)
(* the type it is building.  Members of unions and interfaces are kept by  *)
(* their own type_name; a merged or flattened type's members are copied,   *)
(* and a merged object refuses a field it already has.                     *)
(***************************************************************************)
FieldNames(refs) == {refs[i].path[1] : i \in {j \in DOMAIN refs : refs[j].role = "out"}}

Ref(call, to) ==
  [role |-> call.role, path |-> call.path, decl |-> call.decl, marks |-> call.marks, to |-> to]

RefsReturned(call, name) ==
  CASE call.role \in {"out", "arg", "input"} ->
         <<Ref(call, name)>>
    [] call.role = "possible" ->
         <<Ref(call, Decl(call.decl).name)>>
    [] call.role = "extend" -> types[name].refs
    [] call.role = "none" -> <<>>

extend_fields_panics(call, name) ==
  /\ call.role = "extend" /\ types[name].kind = "Object"
  /\ FieldNames(Last(Below).refs) \cap FieldNames(types[name].refs) # {}

add_implements(ty, interface) ==
  implements' = implements \cup {<<ty, interface>>}

Return ==
  LET caller == Last(Below)
      call == Head(caller.calls)
  IN
  /\ phase \in {"register", "extra"} /\ Len(stack) > 1 /\ Top.calls = <<>>
  /\ \/ /\ extend_fields_panics(call, Top.name)
        /\ phase' = "panicked"
        /\ UNCHANGED <<stack, implements>>
     \/ /\ ~extend_fields_panics(call, Top.name)
        /\ stack' = Append(Front(Below),
                      [caller EXCEPT !.calls = Tail(@), !.refs = @ \o RefsReturned(call, Top.name)])
        /\ IF call.role = "possible" /\ Decl(caller.decl).kind = "Interface"
           THEN add_implements(Decl(call.decl).name, Decl(caller.decl).name)
           ELSE UNCHANGED implements
        /\ UNCHANGED phase
  /\ UNCHANGED <<program, todo, types, directives, keys, client>>

(***************************************************************************)
(* create_registry registers the query root, the mutation and the          *)
(* subscription, and removes what they do not use; the builder then may    *)
(* register types by hand and custom directives.                           *)
(***************************************************************************)
BeginRoot ==
  /\ phase \in {"register", "extra"} /\ stack = <<>> /\ todo # <<>>
  /\ create_type(Head(todo).decl)
  /\ UNCHANGED <<program, todo, implements, keys, client>>

EndRoot ==
  LET root == Head(todo) IN
  /\ phase \in {"register", "extra"} /\ Len(stack) = 1 /\ Top.calls = <<>>
  /\ stack' = <<>>
  /\ todo' = Tail(todo)
  /\ directives' = IF root.as = "directive"
                   THEN Append(directives, [role |-> "arg", path |-> <<"in">>, decl |-> root.decl,
                                            marks |-> {}, to |-> Top.name])
                   ELSE directives
  /\ UNCHANGED <<program, types, implements, keys, phase, client>>

(***************************************************************************)
(* remove_unused_types: what the directives, the roots and the types with  *)
(* keys reach through fields, arguments, input fields and possible types.  *)
(***************************************************************************)
RefsOf(name) == Range(types[name].refs)

Targets(name) == {r.to : r \in RefsOf(name)}

\* what is reached from `start`, in the graph that takes n to next[n]
Reach(next, start) ==
  LET R[k \in 0 .. Cardinality(DOMAIN next)] ==
        IF k = 0 THEN start ELSE UNION {{n} \cup next[n] : n \in R[k - 1]}
  IN  R[Cardinality(DOMAIN next)]

(***************************************************************************)
(* The declarations whose create_type_info the build calls.                *)
(***************************************************************************)
Met ==
  LET uses == [d \in Decls |-> {c.decl : c \in Range(MemberCalls(d) \o EntityCalls(d))}]
  IN Reach(uses, Range(program.roots) \cup {x.decl : x \in Range(program.extra)})

Roots == {Decl(program.roots[i]).name : i \in DOMAIN program.roots}
DirectiveTargets == {directives[i].to : i \in DOMAIN directives}
KeyedTypes == {n \in DOMAIN types : KeysOf(n) # <<>>}

remove_unused_types ==
  LET next == [n \in DOMAIN types |-> Targets(n) \cap DOMAIN types]
      used == Reach(next, (DirectiveTargets \cup Roots \cup KeyedTypes) \cap DOMAIN types)
  IN
  /\ phase = "register" /\ stack = <<>> /\ todo = <<>>
  /\ types' = [n \in used |-> types[n]]
  /\ phase' = "extra"
  /\ todo' = program.extra
  /\ UNCHANGED <<program, stack, implements, directives, keys, client>>

(***************************************************************************)
(* finish: the federation types, when they are asked for or some type has  *)
(* a key.                                                                  *)
(***************************************************************************)
Resolvable(n) == types[n].kind = "Interface" \/ "unresolvable" \notin Range(KeysOf(n))

has_entities == \E n \in KeyedTypes : Resolvable(n)

PossibleTypes(n) == {r.to : r \in {s \in RefsOf(n) : s.role = "possible"}}

no_interface_entities(n) == {}

collect_entity_interface_possible_types(n) ==
  LET next == [m \in DOMAIN types |->
                 IF types[m].kind = "Interface" THEN PossibleTypes(m) \cap DOMAIN types ELSE {}]
  IN {m \in Reach(next, {n}) : types[m].kind = "Object"}

entity_possible_types ==
  {n \in KeyedTypes : types[n].kind = "Object" /\ Resolvable(n)}
    \cup UNION {collect_entity_interface_possible_types(n) :
                  n \in {m \in KeyedTypes : types[m].kind = "Interface"}}

FederationRef(field, to) ==
  [role |-> "out", path |-> <<field>>, decl |-> "federation", marks |-> {}, to |-> to]

create_federation_types ==
  LET possible == SetToSeq(entity_possible_types)
      query == Roots \cap {Decl(program.roots[1]).name}
      service == Insert(types, Service,
                   [kind |-> "Object", rust |-> "Service", name |-> Service, marks |-> {},
                    refs |-> <<>>])
      entity == IF possible = <<>> THEN service
                ELSE Insert(service, Entity,
                       [kind |-> "Union", rust |-> "Entity", name |-> Entity, marks |-> {},
                        refs |-> [i \in DOMAIN possible |->
                          [role |-> "possible", path |-> <<>>, decl |-> "federation",
                           marks |-> {}, to |-> possible[i]]]])
      added == <<FederationRef("_service", Service)>>
                 \o (IF possible = <<>> THEN <<>> ELSE <<FederationRef("_entities", Entity)>>)
  IN [n \in DOMAIN entity |->
        IF n \in query THEN [entity[n] EXCEPT !.refs = @ \o added] ELSE entity[n]]

Finish ==
  /\ phase = "extra" /\ stack = <<>> /\ todo = <<>>
  /\ types' = IF program.enable_federation \/ has_entities THEN create_federation_types ELSE types
  /\ phase' = "built"
  /\ UNCHANGED <<program, todo, stack, implements, directives, keys, client>>

(***************************************************************************)
(* find_visible_types for a client that may not see `hidden`: the same     *)
(* roots as above, through visible members into visible types, and then    *)
(* the visible interfaces of what was found, in one pass.  The pass is in  *)
(* the order of the names, which is left open here.                        *)
(***************************************************************************)
VisibleTargets(name, hidden) ==
  {r.to : r \in {s \in RefsOf(name) : Range(s.path) \cap hidden.members = {}}}

VisibleReach(start, hidden) ==
  LET seen(s) == (s \cap DOMAIN types) \ hidden.types
      next == [n \in DOMAIN types |-> seen(VisibleTargets(n, hidden))]
  IN Reach(next, seen(start))

Interfaces(hidden) ==
  {n \in DOMAIN types \ hidden.types : types[n].kind = "Interface"}

VisibleThrough(found, n, hidden) ==
  IF n \notin found /\ PossibleTypes(n) \cap found # {}
  THEN found \cup VisibleReach({n}, hidden) ELSE found

find_visible_types(hidden, order) ==
  LET found[i \in 0 .. Len(order)] ==
        IF i = 0 THEN VisibleReach(DirectiveTargets \cup Roots \cup KeyedTypes, hidden)
        ELSE VisibleThrough(found[i - 1], order[i], hidden)
  IN found[Len(order)]

(***************************************************************************)
(* An introspection query shows the listed types, and of each type it      *)
(* shows its visible fields with their types and arguments, its input      *)
(* fields, and its listed possible types and interfaces.                   *)
(***************************************************************************)
ShownBy(name, hidden, listed) ==
  {r.to : r \in {s \in RefsOf(name) : /\ Range(s.path) \cap hidden.members = {}
                                      /\ s.role = "possible" => s.to \in listed}}
    \cup {i \in listed : <<name, i>> \in implements}

Shown(hidden, listed) ==
  LET next == [n \in DOMAIN types |-> ShownBy(n, hidden, listed) \cap DOMAIN types]
  IN Reach(next, (listed \cup {Decl(program.roots[1]).name} \cup DirectiveTargets) \cap DOMAIN types)

Introspect(hidden) ==
  /\ phase = "built" /\ client = NoClient
  /\ \E order \in SetToSeqs(Interfaces(hidden)) :
       LET listed == find_visible_types(hidden, order) IN
         client' = [hidden |-> hidden, listed |-> listed, shown |-> Shown(hidden, listed)]
  /\ UNCHANGED <<program, todo, stack, types, implements, directives, keys, phase>>

(***************************************************************************)
(* The specification.                                                      *)
(***************************************************************************)
RegistryInit ==
  /\ program \in Programs
  /\ todo = [i \in DOMAIN program.roots |-> [decl |-> program.roots[i], as |-> "root"]]
  /\ stack = <<>> /\ types = <<>> /\ implements = {} /\ directives = <<>>
  /\ keys = <<>>
  /\ phase = "register" /\ client = NoClient

RegistryNext ==
  \/ BeginRoot
  \/ EndRoot
  \/ CreateMember
  \/ CloseType
  \/ add_keys
  \/ Return
  \/ remove_unused_types
  \/ Finish
  \/ \E hidden \in HiddenSets : Introspect(hidden)

(***************************************************************************)
(* Properties.                                                             *)
(***************************************************************************)
Built == phase = "built"

RefSet ==
  [role : {"out", "arg", "input", "possible"}, path : Seq(Labels),
   decl : Decls \cup {"federation"}, marks : SUBSET Labels, to : AllNames]

TypeSet ==
  [kind : Kinds, rust : Labels, name : AllNames \cup {<<"", 0>>}, marks : SUBSET Labels,
   refs : Seq(RefSet)]

CallSet ==
  [op : {"create"}, decl : Decls, role : {"out", "arg", "input", "possible", "extend", "none"},
   path : Seq(Labels), marks : SUBSET Labels]
    \cup [op : {"close", "key"}, decl : Decls]

FrameSet == [decl : Decls, name : AllNames, calls : Seq(CallSet), refs : Seq(RefSet)]

RegistryTypeOK ==
  /\ todo \in Seq([decl : Decls, as : {"root", "register", "directive"}])
  /\ stack \in Seq(FrameSet) /\ \A i \in DOMAIN stack : stack[i].name \in DOMAIN types
  /\ DOMAIN types \subseteq AllNames /\ types \in [DOMAIN types -> TypeSet]
  /\ implements \subseteq AllNames \X AllNames
  /\ directives \in Seq(RefSet)
  /\ keys \in [DOMAIN keys -> Seq({"unresolvable", "entity"})]
  /\ phase \in {"none", "register", "extra", "built", "panicked"}

(***************************************************************************)
(* No empty type is left behind and every reference names a registered     *)
(* type: the removal of unused types cuts nothing that is still used,      *)
(* whatever is registered by hand afterwards (registry/mod.rs:2100;        *)
(* a reference to a missing type panics in model/type.rs:55).              *)
(***************************************************************************)
NothingDangles ==
  Built => \A n \in DOMAIN types :
             types[n].name = n /\ \A r \in RefsOf(n) : r.to \in DOMAIN types

(***************************************************************************)
(* What a reference stands for: the type it names was made from the Rust   *)
(* type it was written for, as an input object or as an output type.       *)
(***************************************************************************)
Means(ref) ==
  LET t == types[ref.to] IN
  ref.decl = "federation" \/ (t.rust = Decl(ref.decl).rust /\ t.kind = Decl(ref.decl).kind)

ScalarNames == {Decl(d).name : d \in {e \in DOMAIN program.decls : Decl(e).kind = "Scalar"}}

(***************************************************************************)
(* Fields, possible types and the fields of input objects mean what they   *)
(* were written for in every schema that is built, in whatever order the   *)
(* two sides of a type are met: a conflict of names panics or is resolved  *)
(* by create_type (registry/mod.rs:1546).  Scalars carry no Rust name, so  *)
(* a name that a scalar took is not checked.                               *)
(***************************************************************************)
NamesResolved ==
  (Built /\ program.ignore_name_conflicts = {}) =>
    \A n \in DOMAIN types : \A r \in RefsOf(n) :
      (r.role # "arg" /\ r.to \notin ScalarNames) => Means(r)

(***************************************************************************)
(* The build panics only for a program that names two things alike: two    *)
(* Rust types, two kinds other than an object and an input object, two     *)
(* fields of merged parts, at any depth, or a type and the name an input   *)
(* object was given because its own was taken (registry/mod.rs:1546).      *)
(***************************************************************************)
Clash(d, e) ==
  /\ Decl(d).name = Decl(e).name
  /\ \/ Decl(d).rust # Decl(e).rust
     \/ Decl(d).kind # Decl(e).kind /\ {Decl(d).kind, Decl(e).kind} # {"Object", "InputObject"}

DeclFields(d) == {Decl(d).fields[i].name : i \in DOMAIN Decl(d).fields}

Parts == [d \in Decls |-> IF Decl(d).kind = "Object" THEN Range(Decl(d).parts) ELSE {}]

MergedFields(d) == UNION {DeclFields(e) : e \in Reach(Parts, {d})}

GivenName(d, e) ==
  /\ \E f \in Met : Decl(f).rust = Decl(e).rust /\ {Decl(e).kind, Decl(f).kind} = {"Object", "InputObject"}
  /\ Decl(d).rust # Decl(e).rust \/ Decl(d).kind \notin {"Object", "InputObject"}
  /\ Decl(d).name[1] = Decl(e).name[1] /\ Decl(d).name[2] > 0

NamesClash == \E d, e \in Met : Clash(d, e) \/ GivenName(d, e)

FieldsClash ==
  \E d \in Met : \E i, j \in DOMAIN Decl(d).parts :
    i # j /\ MergedFields(Decl(d).parts[i]) \cap MergedFields(Decl(d).parts[j]) # {}

PanicsOnlyOnClash == phase = "panicked" => NamesClash \/ FieldsClash

(***************************************************************************)
(* The entities that find_entity can resolve: those of the entity          *)
(* resolvers of the query root and of the objects merged into it.          *)
(***************************************************************************)
QueryDecl == program.roots[1]

FoundEntities(d) ==
  {e \in Range(Decl(d).entities) :
     Decl(e).name # Decl(QueryDecl).name /\ Decl(e).name \notin ScalarNames}

EntityDecls == UNION {FoundEntities(d) : d \in {QueryDecl} \cup Range(Decl(QueryDecl).parts)}

EntityServed(e) ==
  LET n == Decl(e).name IN
  /\ n \in DOMAIN types /\ types[n].kind = Decl(e).kind
  /\ types[n].kind = "Object" /\ types[n].rust = Decl(e).rust /\ ~Decl(e).unresolvable =>
       Entity \in DOMAIN types /\ n \in PossibleTypes(Entity)
  /\ types[n].kind = "Interface" =>
       \A m \in PossibleTypes(n) : types[m].kind = "Object" =>
         Entity \in DOMAIN types /\ m \in PossibleTypes(Entity)

(***************************************************************************)
(* The _Entity union holds the objects an entity resolver can return: the  *)
(* resolvable objects with a key and the objects under an interface with   *)
(* one, whatever was removed as unused after the keys were added or was    *)
(* under construction when they were; it is there exactly when             *)
(* Query._entities is, and holds objects only (registry/mod.rs:1753).      *)
(***************************************************************************)
EntitiesServed ==
  Built =>
    /\ Entity \in DOMAIN types <=> \E r \in RefsOf(Decl(QueryDecl).name) : r.to = Entity
    /\ Entity \in DOMAIN types => \A n \in PossibleTypes(Entity) : types[n].kind = "Object"
    /\ \A e \in EntityDecls : EntityServed(e)

(***************************************************************************)
(* An introspection query lists exactly the types the client can meet:     *)
(* every type a listed type refers to by a visible member is listed unless *)
(* it is hidden itself, and a listed type is a root, has a key, is the     *)
(* argument of a directive, is referred to by another listed type, or is   *)
(* an interface of one (registry/mod.rs:2213).                             *)
(***************************************************************************)
ListedExactly ==
  client.listed # {} =>
    LET hidden == client.hidden
        listed == client.listed
    IN /\ \A n \in listed : \A m \in VisibleTargets(n, hidden) : m \in listed \cup hidden.types
       /\ \A n \in listed :
            \/ n \in Roots \cup KeyedTypes \cup DirectiveTargets
            \/ \E m \in listed \ {n} : n \in VisibleTargets(m, hidden)
            \/ types[n].kind = "Interface" /\ PossibleTypes(n) \cap listed # {}

(***************************************************************************)
(* A schema is closed: nothing names a type it does not have or another    *)
(* type than was meant, and a client is shown all that it can meet.        *)
(***************************************************************************)
RegistryClosed == RegistryTypeOK /\ NothingDangles /\ NamesResolved /\ ListedExactly
===========================================================================

----------------------------- MODULE ObjectTypes -----------------------------
(***************************************************************************)
(* The output types the derive macros generate: what create_type_info      *)
(* writes in the schema and what resolve_field does with a field asked     *)
(* for.  The two are generated apart, from one declaration.                *)
(*                                                                         *)
(* A type is a record of its macro, its items (methods or struct fields),  *)
(* the items of a ComplexObject or ComplexInterface of it, its members     *)
(* when it is merged, whether it has a guard, whether its fields are its   *)
(* key, and whether it is generic with concrete instances.  Rust types are *)
(* "value", "option" and "result"; names are kept after renaming.          *)
(***************************************************************************)
EXTENDS Naturals, SequencesExt

CONSTANT TypeDeclarations

VARIABLES
  declared,   \* the type the program declares
  shown,      \* its fields in the schema: name -> the item shown and its nullability
  progress,   \* what is done: declared, ready, params, guard, call, value, done, panicked
  asked,      \* the name of the field selected
  resolver,   \* the generated resolver that answers
  ran,        \* the steps of the resolver that ran, in order
  given,      \* what the user's function returned: a value, none or an error
  result,     \* the field's value: value, null, an error handed to the parent, or none yet
  recorded    \* the errors put in the response

ovars == <<declared, shown, progress, asked, resolver, ran, given, result, recorded>>

NoResolver == [name |-> "", by |-> "", macro |-> "", guard |-> FALSE, item |-> <<>>]

(***************************************************************************)
(* Items.  `renamed` is the explicit name or empty; a derived field is a   *)
(* copy of its item, attributes and all, under another identifier.         *)
(***************************************************************************)
FieldName(item) == IF item.renamed = "" THEN item.fn ELSE item.renamed

IsFlat(item) == item.flatten # <<>>

DerivedMethod(item, d) == [item EXCEPT !.fn = d.fn, !.ret = "result", !.derived = <<>>]

DerivedMember(item, d) == [item EXCEPT !.fn = d.fn, !.ret = d.ret, !.derived = <<>>, !.skip = FALSE]

DerivedOf(item, Copy(_, _)) == [i \in DOMAIN item.derived |-> Copy(item, item.derived[i])]

Kept(items) == SelectSeq(items, LAMBDA i : ~i.skip)

\* #[Object] and #[ComplexObject] add the derived methods after all the others
Methods(items) ==
  Kept(items \o FlattenSeq([i \in DOMAIN items |-> DerivedOf(items[i], DerivedMethod)]))

\* SimpleObject puts them after their field, and keeps those of a skipped field
StructFields(items) ==
  Kept(FlattenSeq([i \in DOMAIN items |-> <<items[i]>> \o DerivedOf(items[i], DerivedMember)]))

(***************************************************************************)
(* The schema.  A field's type is non-null when its Rust type is, unless   *)
(* an attribute says otherwise; the type of a Result loses its "!".        *)
(***************************************************************************)
MethodNonNull(item) == item.ret = "value" /\ ~item.nullable

MemberNonNull(item) ==
  IF item.converted # "" THEN item.converted = "value"
  ELSE item.ret = "value" /\ ~item.optional /\ ~item.nullable

TypeNonNull(item) == item.ret = "value"

Shows(item, NonNull(_)) == FieldName(item) :> [by |-> item.fn, nonnull |-> NonNull(item)]

NoFields == [n \in {} |-> <<>>]

Extended(fields, more) == more @@ fields

RECURSIVE SchemaFields(_)

ItemFields(items, NonNull(_)) ==
  FoldLeft(LAMBDA fields, i : Extended(fields, IF IsFlat(i) THEN SchemaFields(i.flatten[1])
                                               ELSE Shows(i, NonNull)),
           NoFields, items)

ObjectFields(t) == ItemFields(Methods(t.items), MethodNonNull)

ComplexObjectFields(t) == ItemFields(Methods(t.complex), MethodNonNull)

SimpleObjectFields(t) ==
  Extended(ItemFields(StructFields(t.items), MemberNonNull), ComplexObjectFields(t))

MergedFields(t) ==
  FoldLeft(Extended, NoFields, Reverse([i \in DOMAIN t.members |-> SchemaFields(t.members[i])]))

SchemaFields(t) ==
  CASE t.macro = "Object" -> ObjectFields(t)
    [] t.macro = "SimpleObject" -> SimpleObjectFields(t)
    [] t.macro \in {"MergedObject", "MergedSubscription"} -> MergedFields(t)
    [] OTHER -> ItemFields(Kept(t.items), TypeNonNull)

\* extend_fields panics when two members have a field of one name
RECURSIVE MembersClash(_)
MembersClash(t) ==
  \/ \E i \in DOMAIN t.members : MembersClash(t.members[i])
  \/ \E i, j \in DOMAIN t.members :
       i < j /\ DOMAIN SchemaFields(t.members[i]) \cap DOMAIN SchemaFields(t.members[j]) # {}

\* the key of a type that is not resolvable and names none: all its fields
KeyFields(t) ==
  LET items == IF t.macro = "Object" THEN SelectSeq(Methods(t.items), LAMBDA i : ~IsFlat(i))
               ELSE Kept(FlattenSeq([i \in DOMAIN t.items |->
                      <<t.items[i]>> \o (IF t.items[i].skip THEN <<>>
                                         ELSE DerivedOf(t.items[i], DerivedMember))]))
  IN  {FieldName(items[i]) : i \in DOMAIN items}

(***************************************************************************)
(* The resolvers, in the order resolve_field tries them; the first one of  *)
(* the field's name answers.  A flattened item puts those of its type in   *)
(* its place, with that type's guards and not this one's.                  *)
(***************************************************************************)
ResolverOf(t, macro, item) ==
  [name |-> FieldName(item), by |-> item.fn, macro |-> macro, item |-> item,
   guard |-> (item.guard \/ t.guard) /\ macro \notin {"Interface", "ComplexInterface"}]

RECURSIVE Resolvers(_)

ResolversOf(t, macro, items) ==
  FlattenSeq([i \in DOMAIN items |-> IF IsFlat(items[i]) THEN Resolvers(items[i].flatten[1])
                                     ELSE <<ResolverOf(t, macro, items[i])>>])

\* a match on the own fields, then the flattened types
ObjectResolvers(t) ==
  LET own == SelectSeq(Methods(t.items), LAMBDA i : ~IsFlat(i))
      flat == SelectSeq(Methods(t.items), IsFlat)
  IN  ResolversOf(t, "Object", own) \o ResolversOf(t, "Object", flat)

\* Mutant of ComplexResolvers: derived methods are in the schema alone.
PlainComplexResolvers(t) == ResolversOf(t, "ComplexObject", Kept(t.complex))

ComplexResolvers(t) == ResolversOf(t, "ComplexObject", Methods(t.complex))

SimpleObjectResolvers(t) ==
  LET own == ResolversOf(t, "SimpleObject", StructFields(t.items))
  IN  IF t.concrete THEN ComplexResolvers(t) \o own ELSE own \o ComplexResolvers(t)

\* an interface with `complex` has only the resolvers of its ComplexInterface
InterfaceResolvers(t) ==
  IF t.complex = <<>> THEN ResolversOf(t, "Interface", t.items)
  ELSE ResolversOf(t, "ComplexInterface", Kept(t.complex))

MergedResolvers(t) ==
  LET each == [i \in DOMAIN t.members |-> Resolvers(t.members[i])]
  IN  FlattenSeq(IF t.macro = "MergedObject" THEN Reverse(each) ELSE each)

Resolvers(t) ==
  CASE t.macro = "Object" -> ObjectResolvers(t)
    [] t.macro = "SimpleObject" -> SimpleObjectResolvers(t)
    [] t.macro = "Interface" -> InterfaceResolvers(t)
    [] t.macro = "Subscription" -> ResolversOf(t, "Subscription", Kept(t.items))
    [] OTHER -> MergedResolvers(t)

Dispatch(t, name) ==
  LET of == SelectSeq(Resolvers(t), LAMBDA r : r.name = name)
  IN  IF of = <<>> THEN NoResolver ELSE of[1]

(***************************************************************************)
(* A field.                                                                *)
(***************************************************************************)
ObjectTypesInit ==
  /\ declared \in TypeDeclarations
  /\ shown = NoFields /\ progress = "declared" /\ asked = "" /\ resolver = NoResolver
  /\ ran = <<>> /\ given = "none yet" /\ result = "none yet" /\ recorded = <<>>

Register ==
  /\ progress = "declared"
  /\ IF MembersClash(declared)
       THEN progress' = "panicked" /\ UNCHANGED shown
       ELSE progress' = "ready" /\ shown' = SchemaFields(declared)
  /\ UNCHANGED <<declared, asked, resolver, ran, given, result, recorded>>

\* a field no resolver knows is null
Select(name) ==
  /\ progress = "ready"
  /\ asked' = name
  /\ resolver' = Dispatch(declared, name)
  /\ IF resolver' = NoResolver THEN progress' = "done" /\ result' = "null"
                               ELSE progress' = "params" /\ UNCHANGED result
  /\ UNCHANGED <<declared, shown, ran, given, recorded>>

Answered(value) == progress' = "done" /\ result' = value

\* the error becomes the field's: recorded, and null in the field's place
Recorded(what) == recorded' = Append(recorded, what) /\ Answered("null")

\* the error is handed to the parent
Handed(what) == Answered("error") /\ UNCHANGED recorded

(***************************************************************************)
(* Every parameter is parsed, processed, validated and its input guards    *)
(* checked before the field's own guard.                                   *)
(***************************************************************************)
HasParams == resolver.macro # "SimpleObject" /\ resolver.item.params

ExtractParams ==
  /\ progress = "params"
  /\ ran' = IF HasParams THEN Append(ran, "params") ELSE ran
  /\ \/ progress' = "guard" /\ UNCHANGED <<result, recorded>>
     \/ HasParams /\ Handed("params")
  /\ UNCHANGED <<declared, shown, asked, resolver, given>>

\* Mutant of FieldNullable: a Result is taken for non-null.
FieldNullableByName(r) ==
  CASE r.macro = "SimpleObject" /\ r.item.converted # "" -> r.item.converted # "value"
    [] r.macro = "SimpleObject" /\ r.item.optional -> TRUE
    [] OTHER -> r.item.nullable \/ r.item.ret = "option"

\* nullable_field_check, and `inferred_output_nullable` of a converted member
FieldNullable(r) ==
  CASE r.macro = "SimpleObject" /\ r.item.converted # "" -> r.item.converted # "value"
    [] r.macro = "SimpleObject" /\ r.item.optional -> TRUE
    [] OTHER -> r.item.nullable \/ r.item.ret # "value"

GuardPasses == progress' = "call" /\ UNCHANGED <<result, recorded>>

GuardDenies ==
  /\ resolver.guard
  /\ IF resolver.macro # "Subscription" /\ FieldNullable(resolver)
       THEN Recorded("guard") ELSE Handed("guard")

CheckGuard ==
  /\ progress = "guard"
  /\ ran' = IF resolver.guard THEN Append(ran, "guard") ELSE ran
  /\ GuardPasses \/ GuardDenies
  /\ UNCHANGED <<declared, shown, asked, resolver, given>>

(***************************************************************************)
(* The function, or the struct's member, gives a value, none or an error.  *)
(* An interface calls the method of its object, which may always fail.     *)
(***************************************************************************)
Returns(r) ==
  IF r.macro = "SimpleObject" /\ r.item.converted # "" THEN r.item.converted ELSE r.item.ret

Gives(r) ==
  {"value"} \cup
  (IF Returns(r) = "option" THEN {"none"} ELSE {}) \cup
  (IF Returns(r) = "result" \/ r.macro = "Interface" THEN {"error"} ELSE {})

\* whether a failing function is seen by the resolver, or is a value to resolve
SeesError(r) ==
  IF r.macro = "SimpleObject"
    THEN r.item.nullable /\ r.item.ret = "result" /\ r.item.converted = "" /\ ~r.item.optional
    ELSE TRUE

KeepsError(r) ==
  CASE r.macro = "Subscription" -> FALSE
    [] r.macro = "ComplexInterface" -> FALSE
    [] r.macro = "Interface" -> r.item.ret = "result"
    [] r.macro = "SimpleObject" -> TRUE
    [] OTHER -> r.item.nullable \/ r.item.ret = "result"

Call(gives) ==
  /\ progress = "call"
  /\ given' = gives
  /\ ran' = Append(ran, "call")
  /\ IF gives = "error" /\ SeesError(resolver)
       THEN IF KeepsError(resolver) THEN Recorded("call") ELSE Handed("call")
       ELSE progress' = "value" /\ UNCHANGED <<result, recorded>>
  /\ UNCHANGED <<declared, shown, asked, resolver>>

(***************************************************************************)
(* OutputType::resolve of what was given.  Option and Result record the    *)
(* errors of what they hold; a nullable resolver records those handed to   *)
(* it.                                                                     *)
(***************************************************************************)
ValueType(r) ==
  CASE r.macro = "SimpleObject" /\ r.item.converted = "" /\ r.item.optional -> "option"
    [] r.macro = "SimpleObject" /\ SeesError(r) -> "value"
    [] r.macro # "SimpleObject" /\ r.item.ret = "result" -> "value"
    [] OTHER -> Returns(r)

\* resolve_field_async, resolve_nullable_field_value or resolve_simple_field_value
NullableResolver(r) ==
  CASE r.macro = "Object" ->
         IF r.item.async THEN r.item.nullable \/ r.item.ret = "result" ELSE r.item.ret = "result"
    [] r.macro = "ComplexObject" -> r.item.nullable \/ r.item.ret = "result"
    [] r.macro = "Interface" -> r.item.ret = "result"
    [] OTHER -> FALSE

ValueFails ==
  IF ValueType(resolver) # "value" \/ NullableResolver(resolver)
    THEN Recorded("value") ELSE Handed("value")

ResolveValue ==
  /\ progress = "value"
  /\ CASE given = "none" -> Answered("null") /\ UNCHANGED recorded
       [] given = "error" -> Recorded("call")
       [] OTHER -> (Answered("value") /\ UNCHANGED recorded) \/ ValueFails
  /\ UNCHANGED <<declared, shown, asked, resolver, ran, given>>

ObjectTypesNext ==
  \/ Register
  \/ \E name \in DOMAIN shown : Select(name)
  \/ ExtractParams
  \/ CheckGuard
  \/ progress = "call" /\ \E gives \in Gives(resolver) : Call(gives)
  \/ ResolveValue

(***************************************************************************)
(* Properties.                                                             *)
(***************************************************************************)
Reachable(t) == LET rs == Resolvers(t) IN {rs[i].name : i \in DOMAIN rs}

DeclaredTwice(name) ==
  LET rs == Resolvers(declared)
  IN  \E i, j \in DOMAIN rs : i < j /\ rs[i].name = name /\ rs[j].name = name

\* the names a key of all the fields may hold that are not fields
FlattenedNames(t) == {FieldName(t.items[i]) : i \in {k \in DOMAIN t.items : IsFlat(t.items[k])}}

(***************************************************************************)
(* The two things generated from one declaration agree: what the schema    *)
(* shows is answered by the item it shows, nothing else is answered, and   *)
(* the key of an unresolvable type is made of its fields.  Exempt are a    *)
(* name two items have, where the schema shows the later and the resolvers *)
(* try the first, and the name of a flattened member, which SimpleObject   *)
(* counts among its keys.                                                  *)
(***************************************************************************)
FieldsServed ==
  progress = "ready" =>
    /\ Reachable(declared) = DOMAIN shown
    /\ \A n \in DOMAIN shown :
         DeclaredTwice(n) \/ Dispatch(declared, n).by = shown[n].by
    /\ declared.macro \in {"Object", "SimpleObject"} =>
         KeyFields(declared) \subseteq DOMAIN shown \cup
           (IF declared.macro = "SimpleObject" THEN FlattenedNames(declared) ELSE {})

\* where an error leaves a field whose type is nullable, for all the schema says
Escapes(r, step) ==
  \/ step = "params"
  \/ r.macro \in {"Subscription", "ComplexInterface"}
  \/ r.macro = "Interface" /\ r.item.ret = "option" /\ step = "call"
  \/ r.macro = "Object" /\ ~r.item.async /\ r.item.nullable /\ r.item.ret = "value"
  \/ r.macro = "SimpleObject" /\ r.item.nullable /\ r.item.ret # "option" /\ step = "value"

LastStep == IF given = "none yet" THEN ran[Len(ran)] ELSE IF given = "error" THEN "call" ELSE "value"

(***************************************************************************)
(* A field is null only if its type lets it, an error of a nullable field  *)
(* stays in the field, is recorded once and not handed on as well, and no  *)
(* step runs after one that failed.                                        *)
(***************************************************************************)
NullsFit ==
  progress = "done" /\ resolver # NoResolver /\ ~DeclaredTwice(asked) =>
    /\ result = "null" => ~shown[asked].nonnull
    /\ result = "error" => shown[asked].nonnull \/ Escapes(resolver, LastStep)
    /\ Len(recorded) = (IF result = "null" /\ given # "none" THEN 1 ELSE 0)
    /\ given # "none yet" <=> "call" \in ToSet(ran)
    /\ resolver.guard /\ given # "none yet" => "guard" \in ToSet(ran)
==============================================================================

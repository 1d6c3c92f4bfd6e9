---------------------------- MODULE SchemaTypes ----------------------------
(***************************************************************************)
(* The types a schema registers, as the validation rules and the executor  *)
(* ask about them, and the values of arguments and variables.              *)
(*                                                                         *)
(* A type reference is the sequence of its wrappers and its name:          *)
(* [Int!] is <<"List", "NonNull", "Int">>.  A value is a tagged tuple:     *)
(* <<"null">>, <<"int", n>>, <<"string", s>>, <<"bool", b>>, <<"enum", e>>,*)
(* <<"list", items>>, <<"object", fields>> and, in documents only,         *)
(* <<"var", name>>.                                                        *)
(***************************************************************************)
EXTENDS Integers, Sequences, FiniteSets

CONSTANTS Types,        \* type name -> its MetaType
          Directives,   \* directive name -> its MetaDirective
          Implements,   \* object name -> the interfaces it implements
          RootTypes     \* kind of operation -> the name of its root type

NoType == ""
Null == <<"null">>
Undefined == <<"undefined">>

-----------------------------------------------------------------------------
(* MetaTypeName.                                                           *)

IsNonNull(ty) == Head(ty) = "NonNull"
IsList(ty) == Head(ty) = "List"
ConcreteTypename(ty) == ty[Len(ty)]
UnwrapNonNull(ty) == IF IsNonNull(ty) THEN Tail(ty) ELSE ty

\* Mutant of IsSubtype: only the names are compared.
IsSubtypeByName(super, sub) == ConcreteTypename(super) = ConcreteTypename(sub)

RECURSIVE IsSubtype(_, _)
IsSubtype(super, sub) ==
    CASE IsNonNull(super) /\ IsNonNull(sub) -> IsSubtype(Tail(super), Tail(sub))
      [] Len(super) = 1 /\ IsNonNull(sub) -> IsSubtype(super, Tail(sub))
      [] Len(super) = 1 /\ Len(sub) = 1 -> super = sub
      [] IsList(super) /\ IsList(sub) -> IsSubtype(Tail(super), Tail(sub))
      [] OTHER -> FALSE

-----------------------------------------------------------------------------
(* MetaType and Registry.                                                  *)

Lookup(name) == IF name \in DOMAIN Types THEN name ELSE NoType
Kind(type) == IF type = NoType THEN "None" ELSE Types[type].kind
IsComposite(type) == Kind(type) \in {"Object", "Interface", "Union"}
IsLeaf(type) == Kind(type) \in {"Scalar", "Enum"}
IsInput(type) == Kind(type) \in {"Scalar", "Enum", "InputObject"}

HasField(type, name) ==
    Kind(type) \in {"Object", "Interface"} /\ name \in DOMAIN Types[type].fields
FieldOf(type, name) == Types[type].fields[name]
FieldType(type, name) ==
    IF HasField(type, name) THEN Lookup(ConcreteTypename(FieldOf(type, name).ty))
                            ELSE NoType
FieldArgs(type, name) == FieldOf(type, name).args

PossibleTypes(type) ==
    IF Kind(type) \in {"Interface", "Union"} THEN Types[type].possible ELSE {type}

TypeOverlap(a, b) ==
    \/ a = b
    \/ PossibleTypes(a) \intersect PossibleTypes(b) # {}

-----------------------------------------------------------------------------
(* Values: what a scalar accepts and is_valid_input_value.                 *)

ScalarAccepts(type, value) ==
    CASE type = "Int" -> value[1] = "int"
      [] type = "Boolean" -> value[1] = "bool"
      [] type = "String" -> value[1] = "string"
      [] type = "ID" -> value[1] \in {"int", "string"}
      [] OTHER -> TRUE

Required(input) == IsNonNull(input.ty) /\ ~input.default

RECURSIVE IsValidInputValue(_, _)
IsValidInputValue(ty, value) ==
    LET type == Types[Head(ty)]
        fields == IF type.kind = "InputObject" THEN type.fields ELSE <<>>
    IN  IF IsNonNull(ty) THEN value # Null /\ IsValidInputValue(Tail(ty), value)
        ELSE IF value = Null THEN TRUE
        ELSE IF IsList(ty)
             THEN IF value[1] = "list"
                  THEN \A i \in DOMAIN value[2] : IsValidInputValue(Tail(ty), value[2][i])
                  ELSE IsValidInputValue(Tail(ty), value)
        ELSE CASE type.kind = "Scalar" -> ScalarAccepts(Head(ty), value)
               [] type.kind = "Enum" ->
                      value[1] \in {"enum", "string"} /\ value[2] \in type.values
               [] type.kind = "InputObject" ->
                      /\ value[1] = "object"
                      /\ type.oneof => /\ Cardinality(DOMAIN value[2]) = 1
                                       /\ \A n \in DOMAIN value[2] : value[2][n] # Null
                      /\ \A n \in DOMAIN fields :
                            IF n \in DOMAIN value[2]
                            THEN IsValidInputValue(fields[n].ty, value[2][n])
                            ELSE ~Required(fields[n])
                      /\ DOMAIN value[2] \subseteq DOMAIN fields
               [] OTHER -> TRUE

(* InputType::parse of the type that the code declares for an input, which *)
(* is not always the type the schema shows (a defaulted field of an input  *)
(* object is shown nullable, a field of a oneof object too): a missing     *)
(* value is null and an input object takes its fields by name.             *)
RECURSIVE Parses(_, _)
Parses(ty, value) ==
    LET v == IF value = Undefined THEN Null ELSE value
        type == Types[Head(ty)]
        Item(n) == IF n \in DOMAIN v[2] THEN v[2][n] ELSE Undefined
    IN  IF IsNonNull(ty) THEN v # Null /\ Parses(Tail(ty), v)
        ELSE IF v = Null THEN TRUE
        ELSE IF IsList(ty)
             THEN IF v[1] = "list"
                  THEN \A i \in DOMAIN v[2] : Parses(Tail(ty), v[2][i])
                  ELSE Parses(Tail(ty), v)
        ELSE CASE type.kind = "Scalar" -> ScalarAccepts(Head(ty), v)
               [] type.kind = "Enum" -> v[1] \in {"enum", "string"} /\ v[2] \in type.values
               [] OTHER ->
                      /\ v[1] = "object"
                      /\ IF type.oneof
                         THEN \E n \in DOMAIN type.fields :
                                /\ DOMAIN v[2] = {n}
                                /\ Parses(type.fields[n].parsed, v[2][n])
                         ELSE \A n \in DOMAIN type.fields :
                                \/ Item(n) = Undefined /\ type.fields[n].default
                                \/ Parses(type.fields[n].parsed, Item(n))

(* The variables a value names, each with the type expected where it       *)
(* stands.                                                                 *)
RECURSIVE ReferencedVariables(_)
ReferencedVariables(value) ==
    CASE value[1] = "var" -> {value[2]}
      [] value[1] = "list" ->
            UNION {ReferencedVariables(value[2][i]) : i \in DOMAIN value[2]}
      [] value[1] = "object" ->
            UNION {ReferencedVariables(value[2][n]) : n \in DOMAIN value[2]}
      [] OTHER -> {}

RECURSIVE VariableUsages(_, _)
VariableUsages(ty, value) ==
    LET inner == UnwrapNonNull(ty)
    IN  CASE value[1] = "var" -> {<<value[2], ty>>}
          [] value[1] = "list" /\ IsList(inner) ->
                UNION {VariableUsages(Tail(inner), value[2][i]) : i \in DOMAIN value[2]}
          [] value[1] = "object" /\ Len(inner) = 1 /\ Kind(inner[1]) = "InputObject" ->
                UNION {VariableUsages(Types[inner[1]].fields[n].ty, value[2][n]) :
                         n \in DOMAIN value[2] \intersect DOMAIN Types[inner[1]].fields}
          [] OTHER -> {}
=============================================================================

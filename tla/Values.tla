-------------------------------- MODULE Values --------------------------------
(***************************************************************************)
(* The values of gqlrs_value and the forms they are carried in: Rust data  *)
(* through serde (serializer.rs, deserializer.rs), JSON (value_serde.rs),  *)
(* the text of a document (Display, parser/src/parse/mod.rs) and the       *)
(* variables of a request (variables.rs).                                  *)
(*                                                                         *)
(* Values, data and types are trees.  A node has a kind, an atom, the      *)
(* names of its children when these are named, and the children.  A type   *)
(* is a node too; the children of an enum are its variants.                *)
(***************************************************************************)
EXTENDS Naturals, SequencesExt

CONSTANT Carriages   \* [codec, type, datum, as]: what is written, and the type it is read as

VARIABLES
  carriage,   \* the datum, its form and the type it is to be read as
  written,    \* what is written
  readback,   \* what is read
  stage       \* chosen, written, read

valueVars == <<carriage, written, readback, stage>>

Node(k, a, names, of) == [k |-> k, a |-> a, names |-> names, of |-> of]

Leaf(k, a) == Node(k, a, <<>>, <<>>)

Null == Leaf("Null", "")
List(of) == Node("List", "", <<>>, of)
Object(names, of) == Node("Object", "", names, of)
Err == Leaf("Err", "")

\* the node when none of its children is an error
Checked(n) == IF \E i \in DOMAIN n.of : n.of[i] = Err THEN Err ELSE n

Each(n, Op(_)) == Checked([n EXCEPT !.of = [i \in DOMAIN n.of |-> Op(n.of[i])]])

ChildNamed(n, name) == n.of[CHOOSE i \in DOMAIN n.names : n.names[i] = name]

(***************************************************************************)
(* Data to values.  A float that is not a number is null, a char is        *)
(* refused, and so is a key of a map that is neither a string nor a unit   *)
(* variant; the atom of a map is the kind of its keys.                     *)
(***************************************************************************)
Key(d) == d.a \in {"string", "unit variant"}

RECURSIVE to_value(_)
to_value(d) ==
  CASE d.k \in {"int", "float"} -> IF d.a = "nan" THEN Null ELSE Leaf("Number", d.a)
    [] d.k = "bool" -> Leaf("Boolean", d.a)
    [] d.k \in {"string", "Enum"} -> Leaf("String", d.a)
    [] d.k = "bytes" -> Leaf("Binary", d.a)
    [] d.k = "char" -> Err
    [] d.k \in {"unit", "none"} -> Null
    [] d.k \in {"some", "newtype"} -> to_value(d.of[1])
    [] d.k = "unit variant" -> Leaf("String", d.a)
    [] d.k = "newtype variant" -> Checked(Object(<<d.a>>, <<to_value(d.of[1])>>))
    [] d.k \in {"seq", "tuple"} -> Each([d EXCEPT !.k = "List"], to_value)
    [] d.k = "tuple variant" -> Checked(Object(<<d.a>>, <<Each(List(d.of), to_value)>>))
    [] d.k = "struct" -> Each([d EXCEPT !.k = "Object"], to_value)
    [] d.k = "struct variant" ->
         Checked(Object(<<d.a>>, <<Each(Object(d.names, d.of), to_value)>>))
    [] d.k = "map" -> IF d.of # <<>> /\ ~Key(d) THEN Err
                      ELSE Each(Object(d.names, d.of), to_value)

(***************************************************************************)
(* Values to data.  What the visitor of a Rust type accepts is serde's;    *)
(* which visit it gets, and that a list or an object has nothing left when *)
(* the visitor is done, are the deserializer's.                            *)
(***************************************************************************)
Accepts(t, v) ==
  CASE t.k = "int" -> v.k = "Number" /\ v.a # "1.5"
    [] t.k = "float" -> v.k = "Number"
    [] t.k = "bool" -> v.k = "Boolean"
    [] t.k = "string" -> v.k \in {"String", "Enum"}
    [] t.k = "bytes" -> v.k = "Binary"
    [] t.k = "unit" -> v.k = "Null"
    [] OTHER -> FALSE

Scalars == {"int", "float", "bool", "string", "bytes", "unit", "char"}

RECURSIVE from_value(_, _)

\* Mutant of visit_array: elements the visitor left are dropped.
VisitArrayPrefix(t, of) ==
  IF Len(of) < Len(t.of) THEN Err
  ELSE Checked(Node("tuple", "", <<>>, [i \in DOMAIN t.of |-> from_value(t.of[i], of[i])]))

\* the elements of a tuple type; a list with some left is refused
visit_array(t, of) ==
  IF Len(of) # Len(t.of) THEN Err
  ELSE Checked(Node("tuple", "", <<>>, [i \in DOMAIN t.of |-> from_value(t.of[i], of[i])]))

\* the fields of a struct: unknown ones are ignored, a missing option is none
visit_object(t, v) ==
  Checked(Node("struct", "", t.names,
    [i \in DOMAIN t.of |->
       IF t.names[i] \in ToSet(v.names) THEN from_value(t.of[i], ChildNamed(v, t.names[i]))
       ELSE IF t.of[i].k = "option" THEN Leaf("none", "") ELSE Err]))

(***************************************************************************)
(* A variant: an object of one key, or a string or enum for its name.  An  *)
(* empty list is visited as the unit, which a tuple does not accept.       *)
(***************************************************************************)
Variant(t, name) ==
  IF name \in ToSet(t.names) THEN ChildNamed(t, name) ELSE Leaf("unknown", "")

AsVariant(d, name) == IF d = Err THEN Err ELSE [d EXCEPT !.a = name]

NamedVariant(t, name) ==
  IF Variant(t, name).k = "unit variant" THEN Leaf("unit variant", name) ELSE Err

VariantOf(t, name, v) ==
  LET vt == Variant(t, name) IN
  CASE vt.k = "unit variant" -> IF v = Null THEN Leaf("unit variant", name) ELSE Err
    [] vt.k = "newtype variant" ->
         Checked(Node("newtype variant", name, <<>>, <<from_value(vt.of[1], v)>>))
    [] vt.k = "tuple variant" ->
         IF v.k # "List" \/ v.of = <<>> \/ visit_array(vt, v.of) = Err THEN Err
         ELSE AsVariant([visit_array(vt, v.of) EXCEPT !.k = "tuple variant"], name)
    [] vt.k = "struct variant" ->
         IF v.k # "Object" \/ visit_object(vt, v) = Err THEN Err
         ELSE AsVariant([visit_object(vt, v) EXCEPT !.k = "struct variant"], name)
    [] OTHER -> Err

deserialize_enum(t, v) ==
  CASE v.k = "Object" -> IF Len(v.names) = 1 THEN VariantOf(t, v.names[1], v.of[1]) ELSE Err
    [] v.k \in {"String", "Enum"} -> NamedVariant(t, v.a)
    [] OTHER -> Err

from_value(t, v) ==
  CASE t.k \in Scalars -> IF Accepts(t, v) THEN Leaf(t.k, v.a) ELSE Err
    [] t.k = "option" -> IF v = Null THEN Leaf("none", "")
                         ELSE Checked(Node("some", "", <<>>, <<from_value(t.of[1], v)>>))
    [] t.k = "newtype" -> Checked(Node("newtype", "", <<>>, <<from_value(t.of[1], v)>>))
    [] t.k = "enum" -> deserialize_enum(t, v)
    [] t.k = "seq" -> IF v.k # "List" THEN Err
                      ELSE Each([v EXCEPT !.k = "seq"], LAMBDA c : from_value(t.of[1], c))
    [] t.k = "tuple" -> IF v.k # "List" THEN Err ELSE visit_array(t, v.of)
    [] t.k = "map" -> IF v.k # "Object" \/ (v.of # <<>> /\ ~Key(t)) THEN Err
                      ELSE Each([v EXCEPT !.k = "map", !.a = t.a],
                                LAMBDA c : from_value(t.of[1], c))
    [] t.k = "struct" -> IF v.k # "Object" THEN Err ELSE visit_object(t, v)

(***************************************************************************)
(* JSON.  Enums are strings and binaries lists of numbers; a variable is   *)
(* an object of the key "$var", and any object whose "$var" is a string is *)
(* read as one at once, which the reader refuses when entries are left.    *)
(***************************************************************************)
Octets == List(<<Leaf("Number", "7")>>)

RECURSIVE ToJson(_)
ToJson(v) ==
  CASE v.k = "Enum" -> Leaf("String", v.a)
    [] v.k = "Binary" -> Octets
    [] v.k = "Variable" -> Object(<<"$var">>, <<Leaf("String", v.a)>>)
    [] OTHER -> Each(v, ToJson)

IsVariable(v, i) == v.names[i] = "$var" /\ v.of[i].k = "String"

RECURSIVE ValueFromJson(_)
ValueFromJson(j) ==
  LET vars == {i \in DOMAIN j.names : IsVariable(j, i)} IN
  IF vars = {} THEN Each(j, ValueFromJson)
  ELSE LET i == CHOOSE k \in vars : \A l \in vars : k <= l
       IN  IF i = Len(j.of) THEN Leaf("Variable", j.of[i].a) ELSE Err

\* ConstValue::deserialize
ConstFromJson(j) == j

(***************************************************************************)
(* The text of a document.  A control character is written as the decimal  *)
(* of its code, which is read as hexadecimal; the names of enums and of    *)
(* an object's keys are written as they are.                               *)
(***************************************************************************)
Keywords == {"true", "false", "null"}

IsName(s) == s \notin {"a b", "$var"}

write_quoted(s) == IF s = "U+001F" THEN "U+0031" ELSE s

RECURSIVE ToText(_)
ToText(v) ==
  CASE v.k = "String" -> Leaf("String", write_quoted(v.a))
    [] v.k = "Binary" -> Octets
    [] OTHER -> Each(v, ToText)

RECURSIVE parse_value(_)
parse_value(v) ==
  CASE v.k = "Enum" ->
         IF v.a = "null" THEN Null
         ELSE IF v.a \in Keywords THEN Leaf("Boolean", v.a)
         ELSE IF IsName(v.a) THEN v ELSE Err
    [] v.k = "Object" -> IF \E i \in DOMAIN v.names : ~IsName(v.names[i]) THEN Err
                         ELSE Each(v, parse_value)
    [] OTHER -> Each(v, parse_value)

(***************************************************************************)
(* ConstValue::eq: an enum equals the string of its name, and objects are  *)
(* equal whatever the order of their keys.                                 *)
(***************************************************************************)
RECURSIVE eq(_, _)
eq(a, b) ==
  CASE {a.k, b.k} \subseteq {"String", "Enum"} -> a.a = b.a
    [] a.k = "Object" /\ b.k = "Object" ->
         /\ Len(a.of) = Len(b.of)
         /\ \A i \in DOMAIN a.names :
              a.names[i] \in ToSet(b.names) /\ eq(a.of[i], ChildNamed(b, a.names[i]))
    [] OTHER -> /\ a.k = b.k /\ a.a = b.a /\ Len(a.of) = Len(b.of)
                /\ \A i \in DOMAIN a.of : eq(a.of[i], b.of[i])

(***************************************************************************)
(* Variables: JSON that is no object is no variables.                      *)
(***************************************************************************)
VariablesOf(j) == IF j.k = "Object" THEN j ELSE Object(<<>>, <<>>)

(***************************************************************************)
(* Writing and reading.                                                    *)
(***************************************************************************)
ValuesInit ==
  carriage \in Carriages /\ written = Err /\ readback = Err /\ stage = "chosen"

Write(form) ==
  stage = "chosen" /\ stage' = "written" /\ written' = form /\ UNCHANGED <<carriage, readback>>

Read(form) ==
  stage = "written" /\ stage' = "read" /\ readback' = form /\ UNCHANGED <<carriage, written>>

WriteData == carriage.codec = "data" /\ Write(to_value(carriage.datum))
ReadData ==
  /\ carriage.codec = "data"
  /\ Read(IF written = Err THEN Err ELSE from_value(carriage.as, written))

WriteJson == carriage.codec \in {"json", "const json", "variables"} /\ Write(ToJson(carriage.datum))
ReadValueJson == carriage.codec = "json" /\ Read(ValueFromJson(written))
ReadConstJson == carriage.codec = "const json" /\ Read(ConstFromJson(written))
ReadVariables == carriage.codec = "variables" /\ Read(VariablesOf(ConstFromJson(written)))

WriteText == carriage.codec = "text" /\ Write(ToText(carriage.datum))
ReadText == carriage.codec = "text" /\ Read(parse_value(written))

ValuesNext ==
  \/ WriteData \/ ReadData
  \/ WriteJson \/ ReadValueJson \/ ReadConstJson \/ ReadVariables
  \/ WriteText \/ ReadText

(***************************************************************************)
(* Properties.                                                             *)
(***************************************************************************)
RECURSIVE Nodes(_)
Nodes(n) == {n} \cup UNION {Nodes(n.of[i]) : i \in DOMAIN n.of}

Somewhere(n, P(_)) == \E m \in Nodes(n) : P(m)

\* data that does not come back: what is inside an option is written like none
LosesData(d) ==
  \/ d.k = "char" \/ d.a = "nan"
  \/ d.k = "some" /\ to_value(d.of[1]) = Null
  \/ d.k = "tuple variant" /\ d.of = <<>>
  \/ d.k = "map" /\ d.of # <<>> /\ ~Key(d)

IsStruct(t) == t.k \in {"struct", "struct variant"}

NotJson(v) == v.k = "Binary"

LooksLikeVariable(v) ==
  \E i \in DOMAIN v.names : v.names[i] = "$var" /\ v.of[i].k \in {"String", "Enum"}

NotText(v) ==
  \/ v.k = "Binary"
  \/ v.k = "String" /\ v.a = "U+001F"
  \/ v.k = "Object" /\ \E i \in DOMAIN v.names : ~IsName(v.names[i])
  \/ v.k = "Enum" /\ (v.a \in Keywords \/ ~IsName(v.a))

(***************************************************************************)
(* What is written is read back, exactly when nothing in it is of the      *)
(* kinds each form loses; and data read as a type it was not written from  *)
(* is refused or is the same value, but for the unknown fields of a struct.*)
(***************************************************************************)
DataKept(c) ==
  /\ c.as = c.type => (readback = c.datum <=> ~Somewhere(c.datum, LosesData))
  /\ readback # Err /\ ~Somewhere(c.as, IsStruct) => eq(to_value(readback), written)

ValuesKept ==
  stage = "read" =>
    CASE carriage.codec = "data" -> DataKept(carriage)
      [] carriage.codec = "const json" ->
           eq(readback, carriage.datum) <=> ~Somewhere(carriage.datum, NotJson)
      [] carriage.codec = "json" ->
           eq(readback, carriage.datum) <=>
             ~Somewhere(carriage.datum, NotJson) /\ ~Somewhere(carriage.datum, LooksLikeVariable)
      [] carriage.codec = "variables" ->
           eq(readback, carriage.datum) <=>
             carriage.datum.k = "Object" /\ ~Somewhere(carriage.datum, NotJson)
      [] carriage.codec = "text" ->
           readback = carriage.datum <=> ~Somewhere(carriage.datum, NotText)
===============================================================================

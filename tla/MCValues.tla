------------------------------- MODULE MCValues -------------------------------
(***************************************************************************)
(* Data of twenty-odd types read as themselves and as nine others, and     *)
(* values two deep in each of the other forms.                             *)
(***************************************************************************)
EXTENDS Values

Ty(k) == Leaf(k, "")
Of(k, of) == Node(k, "", <<>>, of)
Whole == Ty("int")

Variants ==
  Node("enum", "", <<"U", "N", "T", "E", "S">>,
       <<Ty("unit variant"), Of("newtype variant", <<Of("option", <<Whole>>)>>),
         Of("tuple variant", <<Whole, Ty("string")>>), Of("tuple variant", <<>>),
         Node("struct variant", "", <<"a">>, <<Whole>>)>>)

Struct(second) == Node("struct", "", <<"a", "b">>, <<Whole, second>>)

Map(keys, of) == Node("map", keys, <<>>, <<of>>)

LeafTypes == {Ty(k) : k \in Scalars}

Types ==
  LeafTypes
  \cup {Of(k, <<t>>) : k \in {"option", "newtype", "seq"},
                       t \in LeafTypes \cup {Of("option", <<Whole>>), Of("seq", <<Whole>>), Variants}}
  \cup {Of("tuple", l) : l \in {<<Whole>>, <<Whole, Whole>>, <<Whole, Ty("string")>>}}
  \cup {Map(k, t) : k \in {"string", "unit variant", "int"}, t \in {Whole, Of("option", <<Whole>>)}}
  \cup {Struct(t) : t \in {Whole, Of("option", <<Whole>>), Variants}}
  \cup {Variants}

Atoms(k) ==
  CASE k = "float" -> {"1.5", "nan"}
    [] k = "string" -> {"text", "U"}
    [] OTHER -> {"1"}

RECURSIVE Data(_)
DataLists(l) ==
  IF l = <<>> THEN {<<>>}
  ELSE IF Len(l) = 1 THEN {<<x>> : x \in Data(l[1])}
  ELSE {<<x, y>> : x \in Data(l[1]), y \in Data(l[2])}

Data(t) ==
  CASE t.k = "unit" -> {Ty("unit")}
    [] t.k \in Scalars \ {"unit"} -> {Leaf(t.k, a) : a \in Atoms(t.k)}
    [] t.k = "option" -> {Ty("none")} \cup {Of("some", <<x>>) : x \in Data(t.of[1])}
    [] t.k = "seq" -> {Of("seq", l) : l \in {<<>>} \cup {<<x>> : x \in Data(t.of[1])}
                                             \cup {<<x, x>> : x \in Data(t.of[1])}}
    [] t.k = "map" -> {Leaf("map", t.a)} \cup {Node("map", t.a, <<"b">>, <<x>>) : x \in Data(t.of[1])}
    [] t.k = "enum" -> UNION {{[x EXCEPT !.a = t.names[i]] : x \in Data(t.of[i])} : i \in DOMAIN t.of}
    [] t.k = "unit variant" -> {Ty("unit variant")}
    [] OTHER -> {Node(t.k, "", t.names, l) : l \in DataLists(t.of)}

Readers ==
  {Whole, Ty("string"), Of("option", <<Whole>>), Of("seq", <<Whole>>), Of("tuple", <<Whole>>),
   Of("tuple", <<Whole, Whole>>), Map("string", Whole), Struct(Of("option", <<Whole>>)), Variants}

DataCarriages ==
  UNION {{[codec |-> "data", type |-> t, datum |-> x, as |-> u] :
           x \in Data(t), u \in Readers \cup {t}} : t \in Types}

\* values
ValueLeaves ==
  {Null, Leaf("Number", "1"), Leaf("Boolean", "true"), Leaf("String", "text"),
   Leaf("String", "U+0008"), Leaf("String", "U+001F"), Leaf("Enum", "A"), Leaf("Enum", "null"),
   Leaf("Enum", "a b"), Leaf("Binary", "7"), Leaf("Variable", "x")}

Holding(inner) ==
  {List(<<x>>) : x \in inner} \cup {List(<<Null, x>>) : x \in inner}
  \cup {Object(<<n>>, <<x>>) : n \in {"a", "a b", "$var"}, x \in inner}
  \cup {Object(<<m, n>>, <<x, y>>) : m, n \in {"a", "$var"}, x, y \in inner}

WellNamed(v) == ~(v.k = "Object" /\ Len(v.names) = 2 /\ v.names[1] = v.names[2])

Trees == {v \in ValueLeaves \cup Holding(ValueLeaves)
                \cup Holding({List(<<>>), Object(<<"$var">>, <<Leaf("String", "text")>>)}) :
            WellNamed(v)}

IsVariableNode(v) == v.k = "Variable"

ValueCarriages ==
  {[codec |-> c, type |-> Null, datum |-> v, as |-> Null] : c \in {"json", "text"}, v \in Trees}
  \cup {[codec |-> c, type |-> Null, datum |-> v, as |-> Null] :
          c \in {"const json", "variables"},
          v \in {v \in Trees : ~Somewhere(v, IsVariableNode)}}

MCCarriages == DataCarriages \cup ValueCarriages

ValuesSpec == ValuesInit /\ [][ValuesNext]_valueVars
===============================================================================

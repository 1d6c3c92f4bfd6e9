------------------------------- MODULE MCInputs -------------------------------
(***************************************************************************)
(* Arguments of the scalar types and what wraps them, and of input objects *)
(* of two fields with defaults, guards, converters, validators and         *)
(* flattening, each with values that fit and values that do not.           *)
(***************************************************************************)
EXTENDS InputTypes

MCNumberOf ==
  [a \in {"-5", "-1", "0", "1", "2.5", "3", "5", "9"} |->
     CASE a = "-5" -> -10 [] a = "-1" -> -2 [] a = "0" -> 0 [] a = "1" -> 2
       [] a = "2.5" -> 5 [] a = "3" -> 6 [] a = "5" -> 10 [] a = "9" -> 18]

NumberValues == {Leaf("Number", a) : a \in DOMAIN MCNumberOf}
Num(a) == Leaf("Number", a)
Omitted == Leaf("Variable", "omitted")

AType0 == [k |-> "string", names |-> <<>>, of |-> <<>>, fields |-> <<>>]
Input(k) == [AType0 EXCEPT !.k = k]
WrappedIn(k, t) == [AType0 EXCEPT !.k = k, !.of = <<t>>]
AnEnum == [AType0 EXCEPT !.k = "enum", !.names = <<"A", "B">>]
InputObject(fields) == [AType0 EXCEPT !.k = "object", !.fields = fields]

AField(name, t) ==
  [name |-> name, type |-> t, default |-> Absent, flatten |-> FALSE, guard |-> FALSE,
   using |-> FALSE, validator |-> NoValidator]

Limit(op, n, float) == [op |-> op, limit |-> n, float |-> float]

ScalarTypes ==
  {Input(k) : k \in Integers4 \cup {"float", "string", "id", "json"}} \cup {AnEnum}

WrappedTypes ==
  {WrappedIn(k, t) : k \in {"option", "maybe", "secret", "vec", "array", "set"},
                     t \in {Input("i8"), Input("nonzero"), AnEnum, WrappedIn("option", Input("i8"))}}

SimpleValues == NumberValues \cup {Absent, Null, Omitted, Leaf("String", "A"), Leaf("Enum", "A"),
                                   Leaf("Enum", "C"), Leaf("Boolean", "true")}

ListValues == {List(<<x, y>>) : x, y \in {Num("1"), Num("9"), Null, Omitted, Leaf("Enum", "A")}}
              \cup {List(<<x>>) : x \in {Num("1"), Null}}

Plain(t, v, int) == [type |-> t, given |-> v, default |-> Absent, validator |-> NoValidator, int |-> int]

ScalarArguments ==
  {Plain(t, v, int) : t \in ScalarTypes, v \in SimpleValues, int \in Integers4}
  \cup {Plain(t, v, "i64") : t \in WrappedTypes, v \in SimpleValues \cup ListValues}
  \cup {[Plain(t, v, "u64") EXCEPT !.validator = Limit(op, n, f)] :
          t \in {Input("i64"), Input("u64"), Input("float"), WrappedIn("option", Input("u64")),
                 WrappedIn("vec", Input("u64"))},
          v \in NumberValues \cup {Null, List(<<Num("1"), Num("9")>>)},
          op \in {"maximum", "minimum", "multiple_of"}, n \in {4, 6}, f \in BOOLEAN}
  \cup {[Plain(WrappedIn("vec", Input("i64")), v, "i64") EXCEPT !.validator = Limit(op, 1, FALSE)] :
          v \in ListValues \cup {List(<<>>)}, op \in {"max_items", "min_items"}}

\* input objects of the fields a and b
FieldTypes ==
  {Input("i8"), WrappedIn("option", Input("i8")), WrappedIn("maybe", Input("i8")),
   WrappedIn("vec", WrappedIn("option", Input("i8")))}

AForms ==
  {[AField("a", t) EXCEPT !.default = d, !.guard = g] :
     t \in FieldTypes, d \in {Absent, Num("1")}, g \in BOOLEAN}
  \cup {[AField("a", Input("i8")) EXCEPT !.default = d, !.validator = Limit("maximum", 4, FALSE)] :
          d \in {Absent, Num("1"), Num("3")}}

BField == [AField("b", WrappedIn("option", Input("string"))) EXCEPT !.guard = TRUE]

Small(a) == InputObject(<<a, BField>>)

Holding1(f) == InputObject(<<f, AField("c", WrappedIn("option", Input("i8")))>>)

Guarded == [AField("a", Input("i8")) EXCEPT !.default = Num("1"), !.guard = TRUE]

OuterField(t) == [AField("f", t) EXCEPT !.guard = TRUE]

ObjectTypes1 ==
  {Small(a) : a \in AForms}
  \cup {Holding1([OuterField(Small(Guarded)) EXCEPT !.flatten = fl, !.using = u]) : fl, u \in BOOLEAN}
  \cup {Holding1(OuterField(WrappedIn("option", Small(Guarded))))}
  \cup {WrappedIn(k, Small(Guarded)) : k \in {"vec", "set", "array", "option", "secret"}}
  \cup {[InputObject(<<AField("f", Small(Guarded)), AField("a", Input("i8"))>>) EXCEPT !.k = "oneof"]}

ObjectWith(names, of) == Object(names, of)

SmallValues ==
  {ObjectWith(<<>>, <<>>), ObjectWith(<<"b">>, <<Leaf("String", "A")>>), ObjectWith(<<"z">>, <<Num("1")>>)}
  \cup {ObjectWith(<<"a">>, <<x>>) : x \in {Num("1"), Num("3"), Num("9"), Null, Omitted, List(<<Null, Num("1")>>)}}
  \cup {ObjectWith(<<"a", "b">>, <<Num("1"), x>>) : x \in {Leaf("String", "A"), Null}}

ObjectValues ==
  SmallValues
  \cup {ObjectWith(<<"f">>, <<x>>) : x \in SmallValues \cup {Null}}
  \cup {ObjectWith(<<"a", "c">>, <<Num("1"), Num("1")>>)}
  \cup {List(<<x, y>>) : x, y \in SmallValues}
  \cup {Absent, Null}

ObjectArguments ==
  {Plain(t, v, "i8") : t \in ObjectTypes1, v \in ObjectValues}
  \cup {[Plain(Small(Guarded), v, "i8") EXCEPT !.default = ObjectWith(<<"a">>, <<Num("3")>>)] :
          v \in ObjectValues \cup {Omitted}}

MCArguments == ScalarArguments \cup ObjectArguments

InputsSpec == InputsInit /\ [][InputsNext]_inputVars
===============================================================================

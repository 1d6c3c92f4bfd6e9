------------------------------ MODULE InputTypes ------------------------------
(***************************************************************************)
(* One argument from the request to the resolver: its variables resolved,  *)
(* validated against the schema, parsed to its Rust type with the          *)
(* validators of its fields, and the guards of the fields supplied         *)
(* checked; and the default values that the schema shows.                  *)
(*                                                                         *)
(* A type is [k, name, of, fields]: a scalar, a wrapper or list `of` one   *)
(* type, an enum, or an input object.  A field is [name, type, default,    *)
(* flatten, guard, using, validator].  Parsed data are nodes like values.  *)
(***************************************************************************)
EXTENDS Values, Integers

CONSTANTS
  Arguments,   \* [type, given, default, validator, int]: what the request gives, and which
               \* integer type the schema's Int was registered from
  NumberOf     \* the atom of a number -> its value in halves

VARIABLES
  argument,    \* the argument
  raw,         \* its value without variables, or Absent
  parsed,      \* the Rust value, or Err
  checked,     \* the guards that ran, in order
  phase        \* given, resolved, rejected, valid, parsed, failed, denied, called

inputVars == <<argument, raw, parsed, checked, phase>>

Absent == Leaf("Absent", "")

HasField(v, name) == v.k = "Object" /\ name \in ToSet(v.names)

(***************************************************************************)
(* resolve_input_value: an omitted variable is null in a list, drops its   *)
(* entry in an object, and is no value at the top.                         *)
(***************************************************************************)
RECURSIVE resolve_input_value(_)
resolve_input_value(v) ==
  LET inner == [i \in DOMAIN v.of |-> resolve_input_value(v.of[i])]
      kept == SelectSeq([i \in DOMAIN v.of |-> i], LAMBDA i : inner[i] # Absent)
  IN  CASE v.k = "Variable" -> Absent
        [] v.k = "List" -> List([i \in DOMAIN inner |-> IF inner[i] = Absent THEN Null ELSE inner[i]])
        [] v.k = "Object" -> Object([i \in DOMAIN kept |-> v.names[kept[i]]],
                                    [i \in DOMAIN kept |-> inner[kept[i]]])
        [] OTHER -> v

(***************************************************************************)
(* Scalars.  Integers are 4 bits wide, i8 3 bits.                          *)
(***************************************************************************)
Halves(v) == NumberOf[v.a]
Integral(v) == v.k = "Number" /\ Halves(v) % 2 = 0
IntOf(v) == Halves(v) \div 2

is_i64(v) == Integral(v) /\ IntOf(v) \in -8..7
is_u64(v) == Integral(v) /\ IntOf(v) \in 0..15

Integers4 == {"i8", "i64", "u64", "nonzero"}

\* is_valid of the integer types; the unsigned non-zero ones ask for an i64
ValidInt(k, v) == IF k = "u64" THEN is_u64(v) ELSE is_i64(v)

ParsesInt(k, v) ==
  CASE k = "i8" -> is_i64(v) /\ IntOf(v) \in -4..3
    [] k = "i64" -> is_i64(v)
    [] k = "u64" -> is_u64(v)
    [] k = "nonzero" -> is_u64(v) /\ IntOf(v) # 0

InEnum(t, v) == v.k \in {"Enum", "String"} /\ v.a \in ToSet(t.names)

(***************************************************************************)
(* Validation.  Option and MaybeUndefined are nullable, and a default      *)
(* strips the "!" of its field; the schema has one Int, the first          *)
(* registered.                                                             *)
(***************************************************************************)
RECURSIVE NonNullType(_)
NonNullType(t) ==
  CASE t.k \in {"option", "maybe"} -> FALSE
    [] t.k = "secret" -> NonNullType(t.of[1])
    [] OTHER -> TRUE

RECURSIVE InputFields(_)
InputFields(t) ==
  FlattenSeq([i \in DOMAIN t.fields |-> IF t.fields[i].flatten THEN InputFields(t.fields[i].type)
                                        ELSE <<t.fields[i]>>])

FieldNamed(fields, name) == fields[CHOOSE i \in DOMAIN fields : fields[i].name = name]

RECURSIVE is_valid_input_value(_, _, _)

ValidFields(t, v) ==
  LET fields == InputFields(t) IN
  /\ \A i \in DOMAIN fields :
       LET f == fields[i]
           nonnull == NonNullType(f.type) /\ f.default = Absent
       IN  IF HasField(v, f.name)
             THEN is_valid_input_value(f.type, nonnull, ChildNamed(v, f.name))
             ELSE ~nonnull
  /\ \A n \in ToSet(v.names) : \E i \in DOMAIN fields : fields[i].name = n

ValidOneof(t, v) ==
  /\ Len(v.of) = 1 /\ v.of[1] # Null
  /\ \E i \in DOMAIN t.fields :
       v.names[1] = t.fields[i].name /\ is_valid_input_value(t.fields[i].type, FALSE, v.of[1])

is_valid_input_value(t, nonnull, v) ==
  CASE v = Null -> ~nonnull
    [] t.k \in {"option", "maybe", "secret"} -> is_valid_input_value(t.of[1], nonnull, v)
    [] t.k \in {"vec", "array", "set"} ->
         IF v.k = "List"
           THEN \A i \in DOMAIN v.of : is_valid_input_value(t.of[1], NonNullType(t.of[1]), v.of[i])
           ELSE is_valid_input_value(t.of[1], NonNullType(t.of[1]), v)
    [] t.k \in Integers4 -> ValidInt(argument.int, v)
    [] t.k = "float" -> v.k = "Number"
    [] t.k = "string" -> v.k = "String"
    [] t.k = "id" -> is_i64(v) \/ v.k = "String"
    [] t.k = "enum" -> InEnum(t, v)
    [] t.k = "json" -> TRUE
    [] t.k = "object" -> v.k = "Object" /\ ValidFields(t, v)
    [] t.k = "oneof" -> v.k = "Object" /\ ValidOneof(t, v)

(***************************************************************************)
(* Validators.  The value is converted to the number type of the limit,    *)
(* which is i64 or f64 as the limit is written: an unsigned value wraps,   *)
(* and a float is cut towards zero.                                        *)
(***************************************************************************)
NoValidator == [op |-> "", limit |-> 0, float |-> FALSE]

TowardsZero(h) == IF h >= 0 THEN h \div 2 ELSE -((-h) \div 2)

as_(k, h, float) ==
  CASE float -> h
    [] k = "float" -> 2 * TowardsZero(h)
    [] k \in {"u64", "nonzero"} /\ h > 14 -> h - 32
    [] OTHER -> h

\* Option and MaybeUndefined have the raw value of what they hold, or none
RECURSIVE RawValues(_, _)
RawValues(t, d) ==
  CASE t.k \in {"option", "maybe"} /\ d.of = <<>> -> {}
    [] t.k \in {"option", "maybe", "secret"} -> RawValues(t.of[1], d.of[1])
    [] OTHER -> {[type |-> t, data |-> d]}

multiple_of(x, n) == x # 0 /\ x % n = 0

Holds(validator, r) ==
  LET x == as_(r.type.k, NumberOf[r.data.a], validator.float)
      n == validator.limit
  IN  CASE validator.op = "" -> TRUE
        [] validator.op = "maximum" -> x <= n
        [] validator.op = "minimum" -> x >= n
        [] validator.op = "multiple_of" -> multiple_of(x, n)
        [] validator.op = "max_items" -> Len(r.data.of) <= n
        [] validator.op = "min_items" -> Len(r.data.of) >= n

\* `list` looks at each element
Validates(f, d) ==
  \A r \in RawValues(f.type, d) :
    IF f.validator.op \in {"maximum", "minimum", "multiple_of"} /\ r.type.k \in {"vec", "set"}
      THEN \A i \in DOMAIN r.data.of : \A e \in RawValues(r.type.of[1], r.data.of[i]) :
             Holds(f.validator, e)
      ELSE Holds(f.validator, r)

(***************************************************************************)
(* Parsing.                                                                *)
(***************************************************************************)
Wrapped(k, d) == Checked(Node(k, "", <<>>, <<d>>))

Distinct(of) ==
  FoldLeft(LAMBDA seen, d : IF d \in ToSet(seen) THEN seen ELSE Append(seen, d), <<>>, of)

RECURSIVE ParseInput(_, _)

Elements(t, values) == Checked(Node(t.k, "", <<>>, [i \in DOMAIN values |-> ParseInput(t.of[1], values[i])]))

\* a list takes any other value for its only element; an array does not
ParseList(t, v) ==
  LET items == Elements(t, IF v.k = "List" THEN v.of ELSE <<v>>)
  IN  CASE t.k = "array" -> IF v.k = "List" /\ Len(v.of) = 2 THEN items ELSE Err
        [] t.k = "set" -> IF items = Err THEN Err ELSE [items EXCEPT !.of = Distinct(items.of)]
        [] OTHER -> items

\* a default stands for a field that is not there, and is validated as well
ParsedField(f, v) ==
  LET d == CASE f.flatten -> ParseInput(f.type, v)
             [] HasField(v, f.name) -> ParseInput(f.type, ChildNamed(v, f.name))
             [] f.default # Absent -> ParseInput(f.type, f.default)
             [] OTHER -> ParseInput(f.type, Absent)
  IN  IF d # Err /\ Validates(f, d) THEN d ELSE Err

ParseObject(t, v) ==
  IF v.k # "Object" THEN Err
  ELSE Checked(Node("object", "", [i \in DOMAIN t.fields |-> t.fields[i].name],
                    [i \in DOMAIN t.fields |-> ParsedField(t.fields[i], v)]))

ParseOneof(t, v) ==
  IF v.k = "Object" /\ Len(v.of) = 1 /\ \E i \in DOMAIN t.fields : t.fields[i].name = v.names[1]
    THEN Checked(Node("oneof", "", v.names, <<ParsedField(FieldNamed(t.fields, v.names[1]), v)>>))
    ELSE Err

IfParses(parses, d) == IF parses THEN d ELSE Err

ParseInput(t, input) ==
  LET v == IF input = Absent THEN Null ELSE input IN
  CASE t.k \in Integers4 -> IfParses(ParsesInt(t.k, v), Leaf(t.k, v.a))
    [] t.k = "float" -> IfParses(v.k = "Number", Leaf("float", v.a))
    [] t.k = "string" -> IfParses(v.k = "String", Leaf("string", v.a))
    [] t.k = "id" -> IfParses(v.k = "String" \/ is_i64(v), Leaf("id", v.a))
    [] t.k = "enum" -> IfParses(InEnum(t, v), Leaf("enum", v.a))
    [] t.k = "json" -> Node("json", "", <<>>, <<ToJson(v)>>)
    [] t.k = "secret" -> Wrapped("secret", ParseInput(t.of[1], input))
    [] t.k = "option" -> IF v = Null THEN Leaf("none", "") ELSE Wrapped("some", ParseInput(t.of[1], v))
    [] t.k = "maybe" -> IF input = Absent THEN Leaf("undefined", "")
                        ELSE IF v = Null THEN Leaf("null", "") ELSE Wrapped("some", ParseInput(t.of[1], v))
    [] t.k \in {"vec", "array", "set"} -> ParseList(t, v)
    [] t.k = "object" -> ParseObject(t, v)
    [] t.k = "oneof" -> ParseOneof(t, v)

(***************************************************************************)
(* InputType::to_value, whose text is the default that the schema shows.   *)
(* It does not tell undefined from null, and hides a secret.               *)
(***************************************************************************)
Shown == [i8 |-> "Number", i64 |-> "Number", u64 |-> "Number", nonzero |-> "Number",
          float |-> "Number", string |-> "String", id |-> "String", enum |-> "Enum"]

RECURSIVE as_input_value(_, _)
as_input_value(t, d) ==
  CASE t.k = "secret" \/ d.k \in {"none", "undefined", "null"} -> Null
    [] t.k \in {"option", "maybe"} -> as_input_value(t.of[1], d.of[1])
    [] t.k \in {"vec", "array", "set"} ->
         List([i \in DOMAIN d.of |-> as_input_value(t.of[1], d.of[i])])
    [] t.k = "json" -> Leaf("String", "json")
    [] t.k = "oneof" ->
         Object(d.names, <<as_input_value(FieldNamed(t.fields, d.names[1]).type, d.of[1])>>)
    [] t.k = "object" ->
         LET put == [i \in DOMAIN t.fields |->
                       LET v == as_input_value(t.fields[i].type, d.of[i])
                       IN  IF t.fields[i].flatten THEN v ELSE Object(<<t.fields[i].name>>, <<v>>)]
         IN  Object(FlattenSeq([i \in DOMAIN put |-> put[i].names]),
                    FlattenSeq([i \in DOMAIN put |-> put[i].of]))
    [] OTHER -> Leaf(Shown[t.k], d.a)

(***************************************************************************)
(* validate_input_guards: the fields whose guards run, in order.  A list   *)
(* goes through its items and the values given for them together; a set,   *)
(* which may have fewer items than values, parses each value again.        *)
(***************************************************************************)
RECURSIVE InputGuards(_, _, _)

ListOf(v) == IF v = Absent THEN <<>> ELSE IF v.k = "List" THEN v.of ELSE <<v>>

ZippedGuards(t, d, v) ==
  LET n == IF Len(d.of) < Len(ListOf(v)) THEN Len(d.of) ELSE Len(ListOf(v))
  IN  FlattenSeq([i \in 1..n |-> InputGuards(t.of[1], d.of[i], ListOf(v)[i])])

\* Mutant of SetGuards: the items of the set are taken with the values in order.
SetGuardsZipped(t, d, v) == ZippedGuards(t, d, v)

SetGuards(t, d, v) ==
  FlattenSeq([i \in DOMAIN ListOf(v) |->
                InputGuards(t.of[1], ParseInput(t.of[1], ListOf(v)[i]), ListOf(v)[i])])

Supplied(f, v) == IF f.flatten THEN v # Absent ELSE HasField(v, f.name)

OwnGuard(f, v) == IF f.guard /\ Supplied(f, v) THEN <<f.name>> ELSE <<>>

\* nothing below a converted field is looked at
InnerGuards(f, d, v) ==
  CASE f.using \/ ~Supplied(f, v) -> <<>>
    [] f.flatten -> InputGuards(f.type, d, v)
    [] OTHER -> InputGuards(f.type, d, ChildNamed(v, f.name))

InputGuards(t, d, v) ==
  CASE t.k \in {"option", "maybe", "secret"} ->
         IF d.of = <<>> THEN <<>> ELSE InputGuards(t.of[1], d.of[1], v)
    [] t.k \in {"vec", "array"} -> ZippedGuards(t, d, v)
    [] t.k = "set" -> SetGuards(t, d, v)
    [] t.k = "object" ->
         FlattenSeq([i \in DOMAIN t.fields |-> OwnGuard(t.fields[i], v)])
         \o FlattenSeq([i \in DOMAIN t.fields |-> InnerGuards(t.fields[i], d.of[i], v)])
    [] t.k = "oneof" -> InnerGuards(FieldNamed(t.fields, d.names[1]), d.of[1], v)
    [] OTHER -> <<>>

(***************************************************************************)
(* The machine.                                                            *)
(***************************************************************************)
InputsInit ==
  /\ argument \in Arguments
  /\ raw = Absent /\ parsed = Err /\ checked = <<>>
  /\ phase = "given"

RECURSIVE OmitsVariable(_)
OmitsVariable(v) == v.k = "Variable" \/ \E i \in DOMAIN v.of : OmitsVariable(v.of[i])

Accepted ==
  CASE argument.given = Absent -> ~NonNullType(argument.type) \/ argument.default # Absent
    [] OmitsVariable(argument.given) -> TRUE
    [] OTHER -> is_valid_input_value(argument.type, NonNullType(argument.type), argument.given)

\* ArgumentsOfCorrectType, ProvidedNonNullArguments
ValidateArgument ==
  /\ phase = "given"
  /\ phase' = IF Accepted THEN "valid" ELSE "rejected"
  /\ UNCHANGED <<argument, raw, parsed, checked>>

\* get_param_value_with_raw: the default stands for an argument that is not written
get_param_value ==
  IF argument.given = Absent /\ argument.default # Absent
    THEN ParseInput(argument.type, argument.default)
    ELSE ParseInput(argument.type, resolve_input_value(argument.given))

ParseArgument ==
  /\ phase = "valid"
  /\ raw' = resolve_input_value(argument.given)
  /\ parsed' = IF get_param_value # Err /\ Validates(argument, get_param_value)
                 THEN get_param_value ELSE Err
  /\ phase' = IF parsed' = Err THEN "failed" ELSE "parsed"
  /\ UNCHANGED <<argument, checked>>

CheckInputGuard ==
  /\ phase = "parsed"
  /\ LET guards == InputGuards(argument.type, parsed, raw) IN
       /\ Len(checked) < Len(guards)
       /\ checked' = Append(checked, guards[Len(checked) + 1])
  /\ phase' \in {"parsed", "denied"}
  /\ UNCHANGED <<argument, raw, parsed>>

CallResolver ==
  /\ phase = "parsed"
  /\ Len(checked) = Len(InputGuards(argument.type, parsed, raw))
  /\ phase' = "called"
  /\ UNCHANGED <<argument, raw, parsed, checked>>

InputsNext == ValidateArgument \/ ParseArgument \/ CheckInputGuard \/ CallResolver

(***************************************************************************)
(* Properties.                                                             *)
(***************************************************************************)
\* the types met in a value; `through` the converted fields or not
RECURSIVE Places(_, _, _)

FieldPlaces(f, v, through) ==
  CASE f.using /\ ~through -> {}
    [] f.flatten -> Places(f.type, v, through)
    [] HasField(v, f.name) -> Places(f.type, ChildNamed(v, f.name), through)
    [] f.default # Absent -> {}
    [] OTHER -> Places(f.type, Absent, through)

Places(t, v, through) ==
  {[type |-> t, value |-> v]} \cup
  CASE t.k \in {"option", "maybe"} /\ v \in {Absent, Null} -> {}
    [] t.k \in {"option", "maybe", "secret"} -> Places(t.of[1], v, through)
    [] t.k = "array" /\ v.k # "List" -> {}
    [] t.k \in {"vec", "array", "set"} ->
         UNION {Places(t.of[1], ListOf(v)[i], through) : i \in DOMAIN ListOf(v)}
    [] t.k = "object" /\ v.k = "Object" ->
         UNION {FieldPlaces(t.fields[i], v, through) : i \in DOMAIN t.fields}
    [] t.k = "oneof" /\ v.k = "Object" ->
         FieldPlaces(FieldNamed(t.fields, v.names[1]), v, through)
    [] OTHER -> {}

\* null for a field with a default, a number outside the Rust type, an array of another length
RustRefuses(p) ==
  \/ p.value \in {Absent, Null} /\ NonNullType(p.type) /\ p.type.k \notin {"json", "secret", "vec", "set"}
  \/ p.value.k = "Number" /\ p.type.k \in Integers4 /\ ~ParsesInt(p.type.k, p.value)
  \/ p.type.k = "array" /\ ~(p.value.k = "List" /\ Len(p.value.of) = 2)

ValidatorRefuses(p) ==
  p.type.k = "object" /\ \E i \in DOMAIN p.type.fields :
    LET f == p.type.fields[i] IN
    \/ /\ HasField(p.value, f.name)
       /\ ParseInput(f.type, ChildNamed(p.value, f.name)) # Err
       /\ ~Validates(f, ParseInput(f.type, ChildNamed(p.value, f.name)))
    \/ ~HasField(p.value, f.name) /\ f.default # Absent /\ ~Validates(f, ParseInput(f.type, f.default))

Validated == argument.given # Absent /\ ~OmitsVariable(argument.given)

(***************************************************************************)
(* An argument that validation accepts parses, exactly when Rust takes     *)
(* each value in it and each validator is content.                         *)
(***************************************************************************)
AcceptedParses ==
  phase \in {"parsed", "failed"} /\ Validated =>
    (parsed # Err <=>
       /\ \A p \in Places(argument.type, raw, TRUE) : ~RustRefuses(p) /\ ~ValidatorRefuses(p)
       /\ Validates(argument, ParseInput(argument.type, raw)))

\* what a default loses
LosesInput(d) == d.k \in {"secret", "json", "undefined"}

(***************************************************************************)
(* The value that the schema shows for a default is read back as it.       *)
(***************************************************************************)
DefaultsReadBack ==
  phase = "parsed" /\ ~Somewhere(parsed, LosesInput) =>
    ParseInput(argument.type, as_input_value(argument.type, parsed)) = parsed

GuardedFields(p) ==
  IF p.type.k # "object" THEN {}
  ELSE {p.type.fields[i].name : i \in {i \in DOMAIN p.type.fields :
          p.type.fields[i].guard /\ Supplied(p.type.fields[i], p.value)}}

(***************************************************************************)
(* A resolver runs only after the guards of all fields that the request    *)
(* supplied, at any depth, and of no other; but for those below a          *)
(* converted field.                                                        *)
(***************************************************************************)
SuppliedGuardsChecked ==
  phase = "called" =>
    ToSet(checked) = UNION {GuardedFields(p) : p \in Places(argument.type, raw, FALSE)}

(***************************************************************************)
(* A limit that a validator accepts holds of the number itself, unless it  *)
(* is too large for i64 or has a fraction.                                 *)
(***************************************************************************)
LimitsHeld ==
  phase = "parsed" /\ argument.validator.op = "maximum" =>
    \A n \in Nodes(parsed) : n.k \in Integers4 \cup {"float"} =>
      \/ NumberOf[n.a] <= argument.validator.limit
      \/ ~argument.validator.float /\ (NumberOf[n.a] > 14 \/ NumberOf[n.a] % 2 # 0)

InputsKept == AcceptedParses /\ DefaultsReadBack /\ SuppliedGuardsChecked /\ LimitsHeld
===============================================================================

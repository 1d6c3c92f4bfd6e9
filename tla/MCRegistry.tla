------------------------------ MODULE MCRegistry ------------------------------
(***************************************************************************)
(* Programs of a query root with up to MaxFields fields taken from a menu, *)
(* over one library of declarations: A is both an object and an input      *)
(* object, AInput takes the name its input side would get, D is another    *)
(* Rust type named A, S a scalar, E an enum used on both sides, N an       *)
(* interface, V a union, P an entity, M a merged object, R an object that  *)
(* leads back to the query root, B a part that merged query roots have,    *)
(* with entities of its own, and C one of them that leads back to both.    *)
(***************************************************************************)
EXTENDS SdlExport

CONSTANTS MaxFields, Extras

N(base) == <<base, 0>>

Blank == [kind |-> "Object", rust |-> "", name |-> <<"", 0>>, fields |-> <<>>, inputs |-> <<>>,
          possible |-> <<>>, parts |-> <<>>, entities |-> <<>>, unresolvable |-> FALSE, marks |-> {}]

Type(kind, rust, name) == [Blank EXCEPT !.kind = kind, !.rust = rust, !.name = name]

F(name, out, args) == [name |-> name, out |-> out, args |-> args, marks |-> {}]

Arg(name, of) == [name |-> name, of |-> of, marks |-> {}]

Marked(member, marks) == [member EXCEPT !.marks = marks]

Scalar == Marked(Type("Scalar", "S", N("S")), {"specifiedBy", "tag"})

Library ==
  [s   |-> Scalar,
   e   |-> Marked(Type("Enum", "E", N("E")), {"deprecated"}),
   a   |-> [Type("Object", "A", N("A")) EXCEPT !.fields = <<F("x", "s", <<>>)>>],
   ain |-> [Type("InputObject", "A", N("A")) EXCEPT
              !.inputs = <<Arg("self", "ain"), Marked(Arg("h", "s"), {"deprecated", "custom"})>>],
   ai  |-> [Type("InputObject", "AI", <<"A", 1>>) EXCEPT !.inputs = <<Arg("of", "ain")>>],
   d   |-> [Type("Object", "D", N("A")) EXCEPT !.fields = <<F("x", "s", <<>>)>>],
   sx  |-> [Type("Object", "SX", N("S")) EXCEPT !.fields = <<F("y", "e", <<>>)>>],
   n   |-> [Type("Interface", "N", N("N")) EXCEPT !.possible = <<"a", "p">>,
              !.fields = <<F("x", "s", <<>>)>>],
   l   |-> [Type("Interface", "L", N("L")) EXCEPT !.possible = <<"p">>,
              !.fields = <<Marked(F("z", "a", <<>>), {"semanticNonNull", "tag"})>>],
   v   |-> [Type("Union", "V", N("V")) EXCEPT !.possible = <<"p", "r">>],
   p   |-> [Type("Object", "P", N("P")) EXCEPT
              !.fields = <<F("k", "s", <<>>), F("w", "e", <<Marked(Arg("in", "ain"), {"tag"})>>)>>],
   u   |-> [Type("Object", "U", N("U")) EXCEPT !.unresolvable = TRUE, !.fields = <<F("x", "s", <<>>)>>],
   m   |-> [Type("Object", "M", N("M")) EXCEPT !.parts = <<"p", "a">>],
   mm  |-> [Type("Object", "MM", N("MM")) EXCEPT !.parts = <<"a", "u">>],
   r   |-> [Type("Object", "R", N("R")) EXCEPT !.fields = <<F("q", "query", <<>>)>>],
   b   |-> [Type("Object", "B", N("B")) EXCEPT !.fields = <<F("f12", "e", <<>>)>>,
              !.entities = <<"c", "n", "u">>],
   c   |-> [Type("Object", "C", N("C")) EXCEPT
              !.fields = <<F("q", "query", <<>>), F("b", "b", <<>>)>>]]

Menu ==
  {F("f1", "s", <<Arg("a", "ain")>>), F("f2", "a", <<>>), F("f3", "a", <<Arg("b", "ai")>>),
   F("f4", "n", <<>>), F("f5", "l", <<Arg("c", "e")>>), F("f6", "v", <<>>), F("f7", "m", <<>>),
   F("f8", "sx", <<>>), F("f9", "d", <<>>), F("f10", "mm", <<>>), F("f11", "u", <<>>)}

FieldLists(k) == {q \in UNION {[1..j -> Menu] : j \in 1..k} :
                 \A i, j \in DOMAIN q : i # j => q[i] # q[j]}

Query(fields, entities) ==
  [Type("Object", "Query", N("Query")) EXCEPT !.fields = fields, !.entities = entities]

Program(fields, entities, extra, federation) ==
  [decls |-> [d \in DOMAIN Library \cup {"query"} |->
                IF d = "query" THEN Query(fields, entities) ELSE Library[d]],
   roots |-> <<"query">>, extra |-> extra,
   ignore_name_conflicts |-> {}, enable_federation |-> federation]

Register(d) == [decl |-> d, as |-> "register"]
Directive(d) == [decl |-> d, as |-> "directive"]

MergedQueries ==
  {[Program(q, <<"p">>, <<>>, FALSE) EXCEPT !.decls["query"].parts = parts] :
     q \in FieldLists(1) \cup {<<F("f13", "c", <<>>)>>}, parts \in {<<"b">>, <<"a", "b">>}}

SomeExtra == {<<>>, <<Directive("ain")>>, <<Register("l"), Register("ain")>>,
              <<Directive("ain"), Register("a")>>}

EntityChoices == {<<>>, <<"p">>, <<"l", "u">>}

EmptyQueries == {Program(<<>>, <<"r">>, <<>>, FALSE), Program(<<>>, <<"p", "r">>, <<>>, TRUE)}

MCPrograms ==
  EmptyQueries \cup MergedQueries \cup
  {Program(q, es, x, fed) : q \in FieldLists(MaxFields), es \in EntityChoices,
                            x \in Extras, fed \in {FALSE, TRUE}}

MCBases ==
  {"A", "B", "C", "E", "L", "M", "MM", "N", "P", "Query", "R", "S", "U", "V", "_Entity", "_Service"}

MCSdlOptions ==
  {[federation |-> f, specified_by |-> f, compose |-> f] : f \in BOOLEAN}

Hide(ts, ms) == [types |-> ts, members |-> ms]

MCHiddenSets ==
  {Hide({}, {"none"}), Hide({N("P")}, {}), Hide({N("N")}, {"f2"}), Hide({}, {"z", "w"}),
   Hide({<<"A", 1>>}, {"f5"})}
===============================================================================

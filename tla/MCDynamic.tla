------------------------------ MODULE MCDynamic ------------------------------
(***************************************************************************)
(* Families of dynamic schemas: an interface and an object that implements *)
(* it with every pair of wrapped types and arguments; an interface that    *)
(* implements others; three input objects with every graph of non-null     *)
(* references; a oneof input object; references to missing types or types  *)
(* of the wrong kind, with keys; a mutation root; a subscription root of   *)
(* every kind and none; federation with and without keys, validated by     *)
(* either mode, without a query type; and a taken name.                    *)
(***************************************************************************)
EXTENDS DynamicSchema, SequencesExt

Plain == [name |-> "", kind |-> "Object", fields |-> <<>>, implements |-> {}, possible |-> {},
          oneof |-> FALSE, keys |-> "none"]

DynField(name, ty, args) == [name |-> name, ty |-> ty, args |-> args, default |-> FALSE]
DynArg(name, ty) == [name |-> name, ty |-> ty]

IntT == Named("Int")
Wrapped(t) == {t, NonNull(t), List(t), List(NonNull(t)), NonNull(List(t)), NonNull(List(NonNull(t)))}

Obj(name, fields, implements) ==
  [Plain EXCEPT !.name = name, !.fields = fields, !.implements = implements]

Schema(types) ==
  [types |-> types, query |-> "Query", mutation |-> "", subscription |-> "",
   federation |-> FALSE, validation_mode |-> "Strict"]

ArgLists == {<<>>, <<DynArg("a", IntT)>>, <<DynArg("a", NonNull(IntT))>>}

ImplementationFamily ==
  {Schema(<<Obj("Query", <<DynField("i", Named("I"), <<>>), DynField("o", NonNull(Named("O")), <<>>)>>, {}),
            [Obj("I", <<DynField("f", ti, ai)>>, {}) EXCEPT !.kind = "Interface"],
            Obj("O", <<DynField("f", to, ao)>>, {"I"})>>) :
     ti \in Wrapped(IntT), to \in Wrapped(IntT), ai \in ArgLists, ao \in ArgLists}

InterfaceFamily ==
  {Schema(<<Obj("Query", <<DynField("i", Named("I"), <<>>), DynField("j", List(Named("J")), <<>>)>>, {}),
            [Obj("I", <<DynField("f", IntT, <<>>)>>, {}) EXCEPT !.kind = "Interface"],
            [Obj("J", <<DynField("f", tj, <<>>)>>, ij) EXCEPT !.kind = "Interface"],
            Obj("O", <<DynField("f", IntT, <<>>)>>, io)>>) :
     tj \in {IntT, NonNull(IntT)}, ij \in {{}, {"I"}, {"J"}, {"O"}}, io \in SUBSET {"I", "J"}}

InputNames == {"X", "Y", "Z"}

Input(name, targets) ==
  [Plain EXCEPT !.name = name, !.kind = "InputObject",
     !.fields = SetToSeq({DynField(t, NonNull(Named(t)), <<>>) : t \in targets})
                  \o <<DynField("n", List(NonNull(Named("X"))), <<>>)>>]

InputFamily ==
  {Schema(<<Obj("Query", <<DynField("q", IntT, <<DynArg("x", Named("X"))>>)>>, {}),
            Input("X", x), Input("Y", y), Input("Z", z)>>) :
     x \in SUBSET InputNames, y \in SUBSET InputNames, z \in SUBSET InputNames}

OneOf(ty, default) ==
  Schema(<<Obj("Query", <<DynField("q", IntT, <<DynArg("x", Named("X"))>>)>>, {}),
           [Plain EXCEPT !.name = "X", !.kind = "InputObject", !.oneof = TRUE,
              !.fields = <<[DynField("v", ty, <<>>) EXCEPT !.default = default]>>]>>)

OneOfFamily == {OneOf(ty, d) : ty \in Wrapped(IntT), d \in BOOLEAN}

KindFamily ==
  {[Schema(<<Obj("Query", <<DynField(fname, out, <<DynArg("x", arg)>>)>>, {}),
                [Obj("I", <<DynField("f", IntT, <<>>)>>, {}) EXCEPT !.kind = "Interface", !.keys = ik],
                [Obj("O", <<DynField("f", IntT, <<>>), DynField("g", Named("U"), <<>>)>>, oi) EXCEPT !.keys = ok],
                [Plain EXCEPT !.name = "U", !.kind = "Union", !.possible = up],
                [Plain EXCEPT !.name = "X", !.kind = "InputObject", !.fields = <<DynField("v", IntT, <<>>)>>]>>)
      EXCEPT !.mutation = mut] :
     fname \in {"q", "__q"},
     out \in {Named("O"), List(Named("I")), NonNull(Named("U")), Named("X"), Named("Gone")},
     arg \in {IntT, Named("O"), Named("Gone")},
     ik \in {"none", "resolvable"}, ok \in {"none", "resolvable", "unresolvable"},
     oi \in {{}, {"I"}, {"U"}},
     up \in {{"O"}, {"I"}, {"O", "Gone"}}, mut \in {"", "U"}}

TakenName == {Schema(<<Obj("Query", <<DynField("q", IntT, <<>>)>>, {}), [Plain EXCEPT !.name = "Int"]>>)}

WithMutation ==
  {[Schema(<<Obj("Query", <<DynField("q", IntT, <<>>)>>, {}),
             Obj("Mutation", <<DynField("m", List(NonNull(Named("Query"))), <<>>)>>, {})>>)
      EXCEPT !.mutation = "Mutation"]}

SubscriptionFamily ==
  {[Schema(<<Obj("Query", <<DynField("q", IntT, <<>>)>>, {}),
             Obj("O", <<DynField("q", Named("Query"), <<>>)>>, {}),
             [Plain EXCEPT !.name = "X", !.kind = "InputObject", !.fields = <<DynField("v", IntT, <<>>)>>],
             [Obj("S", <<DynField("e", event, <<>>)>>, {}) EXCEPT !.kind = "Subscription"]>>)
      EXCEPT !.subscription = root] :
     event \in {IntT, List(NonNull(Named("O"))), Named("X"), Named("S"), Named("Gone")},
     root \in {"S", "O", "Gone", ""}}

FederationFamily ==
  {[Schema(<<Obj("Query", qfields, {}),
             [Obj("I", <<DynField("f", IntT, <<>>)>>, {}) EXCEPT !.kind = "Interface", !.keys = ik],
             [Obj("O", <<DynField("f", IntT, <<>>)>>, oi) EXCEPT !.keys = ok]>>)
      EXCEPT !.query = query, !.federation = federation, !.validation_mode = mode] :
     qfields \in {<<>>, <<DynField("o", Named("O"), <<>>)>>, <<DynField("_entities", Named("Query"), <<>>)>>},
     ik \in {"none", "resolvable"}, ok \in {"none", "resolvable", "unresolvable"}, oi \in {{}, {"I"}},
     query \in {"Query", "Gone"}, federation \in BOOLEAN, mode \in {"Strict", "Fast"}}

MCDefinitions ==
  <<ImplementationFamily, InterfaceFamily, InputFamily, OneOfFamily, KindFamily, WithMutation,
    SubscriptionFamily, FederationFamily, TakenName>>

V(kind) == [kind |-> kind]
Value(valid) == [kind |-> "scalar", valid |-> valid]
Items(vs) == [kind |-> "list", items |-> vs]
Typed(o) == [kind |-> "typed", ty |-> o]

MCReturned ==
  {V("none"), V("null"), Value(TRUE), Value(FALSE), Items(<<V("null"), Value(TRUE)>>),
   Items(<<Value(TRUE)>>), Typed("O"), Typed("Query"), Items(<<Typed("O"), Typed("I")>>)}

MCReserved == {"__q"}

AllDefinitions == UNION Range(MCDefinitions)
===============================================================================

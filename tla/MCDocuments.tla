---------------------------- MODULE MCDocuments ----------------------------
(***************************************************************************)
(* A small schema and the families of requests that TLC runs through       *)
(* Documents.                                                              *)
(***************************************************************************)
EXTENDS Documents

NoArgs == <<>>
Input(ty) == [ty |-> ty, parsed |-> ty, default |-> FALSE]
Defaulted(ty) == [ty |-> ty, parsed |-> ty, default |-> TRUE]
Cache(public, age) == [public |-> public, max_age |-> age]
Meta(ty, args) ==
    [ty |-> ty, args |-> args, complexity |-> "none", depth_cost |-> 1, cache |-> DefaultCache]
Object(fields) == [kind |-> "Object", fields |-> fields, cache |-> DefaultCache]
Scalar == [kind |-> "Scalar"]

PetFields == [name |-> [Meta(<<"String">>, NoArgs) EXCEPT !.cache = Cache(TRUE, 30)],
              mate |-> [Meta(<<"Pet">>, NoArgs) EXCEPT !.depth_cost = 2]]

MCTypes ==
    [Query |-> Object([self |-> Meta(<<"NonNull", "Query">>, NoArgs),
                       pet |-> Meta(<<"Pet">>, NoArgs),
                       dog |-> [Meta(<<"Dog">>, NoArgs) EXCEPT !.complexity = "heavy"],
                       page |-> [Meta(<<"Dog">>, "n" :> Input(<<"NonNull", "Int">>))
                                   EXCEPT !.complexity = "scaled"],
                       any |-> Meta(<<"List", "Any">>, NoArgs),
                       count |-> [Meta(<<"Int">>, "n" :> Input(<<"NonNull", "Int">>))
                                    EXCEPT !.cache = Cache(FALSE, 60)],
                       find |-> Meta(<<"Int">>, ("by" :> Input(<<"Filter">>)) @@
                                                ("ids" :> Input(<<"List", "Int">>)) @@
                                                ("one" :> Input(<<"One">>)) @@
                                                ("top" :> Defaulted(<<"NonNull", "Int">>)))]),
     Subscription |-> Object([tick |-> Meta(<<"Int">>, NoArgs)]),
     Pet |-> [kind |-> "Interface", fields |-> PetFields, possible |-> {"Dog", "Cat"}],
     Any |-> [kind |-> "Union", possible |-> {"Dog", "Query"}],
     Dog |-> [Object(PetFields @@ ("bark" :> [Meta(<<"Kind">>, NoArgs)
                                                EXCEPT !.complexity = "free"]))
                EXCEPT !.cache = Cache(FALSE, 0)],
     Cat |-> Object(PetFields),
     Kind |-> [kind |-> "Enum", values |-> {"A"}],
     Filter |-> [kind |-> "InputObject", oneof |-> FALSE,
                 fields |-> [min |-> Input(<<"Int">>),
                             max |-> [ty |-> <<"Int">>, parsed |-> <<"NonNull", "Int">>,
                                      default |-> TRUE]]],
     One |-> [kind |-> "InputObject", oneof |-> TRUE,
              fields |-> [a |-> [ty |-> <<"Int">>, parsed |-> <<"NonNull", "Int">>,
                                 default |-> FALSE],
                          b |-> [ty |-> <<"String">>, parsed |-> <<"NonNull", "String">>,
                                 default |-> FALSE]]],
     Int |-> Scalar, String |-> Scalar, Boolean |-> Scalar, Upload |-> Scalar]

MCImplements == [Query |-> {}, Subscription |-> {}, Dog |-> {"Pet"}, Cat |-> {"Pet"}]
MCRootTypes == [QUERY |-> "Query", MUTATION |-> NoType, SUBSCRIPTION |-> "Subscription"]

Conditional == [locations |-> {"FIELD", "FRAGMENT_SPREAD", "INLINE_FRAGMENT"},
                args |-> "if" :> Input(<<"NonNull", "Boolean">>), repeatable |-> FALSE]
MCDirectives == [skip |-> Conditional, include |-> Conditional,
                 tag |-> [locations |-> {"FIELD", "QUERY"}, args |-> NoArgs, repeatable |-> TRUE]]

-----------------------------------------------------------------------------
(* Selections.                                                             *)

Field(name, set) == [kind |-> "field", name |-> name, alias |-> "", on |-> "",
                     args |-> <<>>, dirs |-> <<>>, set |-> set]
Leaf(name) == Field(name, <<>>)
Spread(name) == [Leaf(name) EXCEPT !.kind = "spread"]
Inline(on, set) == [Field("", set) EXCEPT !.kind = "inline", !.on = on]
As(alias, sel) == [sel EXCEPT !.alias = alias]
With(sel, args) == [sel EXCEPT !.args = args]
At(sel, dirs) == [sel EXCEPT !.dirs = dirs]
If(name, value) == [name |-> name, args |-> <<<<"if", value>>>>]
V(name) == <<"var", name>>
N(n) == <<"int", n>>
B(b) == <<"bool", b>>
List(items) == <<"list", items>>
Obj(fields) == <<"object", fields>>

UpToTwo(S) == {<<a>> : a \in S} \union {<<a, b>> : a, b \in S}
VarDef(name, ty, default) == [name |-> name, ty |-> ty, default |-> default]
Op(kind, vars, set) == [kind |-> kind, vars |-> vars, dirs |-> <<>>, set |-> set]
Frag(on, set) == [on |-> on, dirs |-> <<>>, set |-> set]
DocOf(ops, frags) == [ops |-> ops, frags |-> frags]
Single(set) == DocOf("" :> Op("QUERY", <<>>, set), <<>>)
NoFrags == <<>>

NoLimits == [recursion |-> 4, directives |-> -1, aliases |-> -1, complexity |-> -1, depth |-> -1]
Submit(doc_, mode_) ==
    [doc |-> doc_, selected |-> "", vars |-> <<>>, mode |-> mode_, limits |-> NoLimits]
Strict(docs) == {Submit(d, "strict") : d \in docs}

-----------------------------------------------------------------------------
(* Fragments that spread one another, with a variable somewhere.           *)
CountV == With(Leaf("count"), <<<<"n", V("v")>>>>)
Graphs ==
    LET pool == {Spread("A"), Spread("B"), Field("self", <<Spread("A")>>), CountV}
    IN  {DocOf("" :> Op("QUERY", vs, s), [A |-> Frag("Query", a), B |-> Frag("Query", b)]) :
           vs \in {<<>>, <<VarDef("v", <<"NonNull", "Int">>, Undefined)>>},
           s \in UpToTwo(pool \ {Spread("B")}), a \in UpToTwo(pool), b \in {<<p>> : p \in pool}}
Fast == {Submit(d, "fast") : d \in {g \in Graphs : g.ops[""].vars = <<>>}}

(* Two operations over shared fragments.                                   *)
TwoOperations ==
    {[Submit(DocOf([P |-> Op("QUERY", <<VarDef("v", ty, Undefined)>>, <<Spread("A")>>),
               Q |-> Op(kind, <<>>, q)], [A |-> Frag("Query", <<a>>)]), "strict")
        EXCEPT !.selected = o, !.vars = "v" :> N(1)] :
       ty \in {<<"NonNull", "Int">>, <<"Int">>}, kind \in {"QUERY", "MUTATION", "SUBSCRIPTION"},
       q \in {<<Leaf("tick")>>, <<Leaf("__typename")>>, <<Spread("A")>>,
              <<With(Leaf("count"), <<<<"n", N(1)>>>>)>>},
       a \in {CountV, Leaf("count"), Spread("Gone")}, o \in {"", "P", "Q", "R"}}

(* Fields and fragments on types.                                          *)
NameFields == {Leaf("name"), Leaf("bark"), Leaf("__typename"), As("name", Leaf("bark"))}
Typed ==
    LET some == NameFields \union {Inline(t, <<n>>) : t \in {"Pet", "Dog", "Cat", "Any", "Kind", "Gone", ""},
                                                n \in NameFields \ {Leaf("__typename")}}
                      \union {Spread("A")}
    IN  {DocOf("" :> Op("QUERY", <<>>, <<Field(f, s)>>), [A |-> Frag(t, <<n>>)]) :
           f \in {"pet", "dog", "any", "lost"}, s \in UpToTwo(some) \ {<<x, y>> : x, y \in NameFields},
           t \in {"Pet", "Dog"}, n \in {Leaf("name"), Leaf("bark")}}
    \union {Single(<<Field(f, s)>>) : f \in {"pet", "dog", "any", "count"},
               s \in UpToTwo(NameFields) \union {<<>>}}

(* Arguments and variables.                                                *)
Values == {Null, N(1), <<"string", "x">>, V("v"), List(<<V("v"), N(1)>>), List(<<N(1)>>)}
          \union {Obj(o) : o \in {"min" :> N(1), "min" :> V("v"), "max" :> Null, "a" :> N(1),
                                  ("a" :> N(1)) @@ ("b" :> Null), "a" :> V("v"), "gone" :> N(1),
                                  ("min" :> V("v")) @@ ("max" :> <<"string", "x">>)}}
VarTypes == {<<"Int">>, <<"NonNull", "Int">>, <<"List", "Int">>, <<"NonNull", "List", "Int">>,
             <<"String">>, <<"Filter">>, <<"Pet">>, <<"Upload">>, <<"List", "Gone">>}
Arguments ==
    {[Submit(DocOf("" :> Op("QUERY", IF ReferencedVariables(v) = {} THEN <<>>
                                ELSE <<VarDef("v", ty, default)>>,
                       <<With(Leaf("find"), <<<<name, v>>>>)>>), NoFrags), "strict")
        EXCEPT !.vars = given] :
       name \in {"by", "ids", "one", "top", "gone"}, v \in Values, ty \in VarTypes,
       default \in {Undefined, N(1), List(<<N(1)>>)},
       given \in {<<>>, "v" :> N(1), "v" :> Null, "v" :> List(<<N(1), Null>>)}}
DuplicateArguments ==
    Strict({Single(<<With(Leaf("find"), <<<<"top", a>>, <<n, b>>>>)>>) :
              a, b \in {N(1), Null}, n \in {"top", "ids"}})

(* @skip and @include on fields, spreads and inline fragments.             *)
Dirs == {<<>>} \union {<<If(d, v)>> : d \in {"skip", "include"}, v \in {B(TRUE), B(FALSE), V("v")}}
Skips ==
    {[Submit(DocOf("" :> Op("QUERY", <<VarDef("v", ty, default)>>,
                       <<At(Field("pet", <<At(Leaf("name"), d2), Inline("Dog", <<Leaf("bark")>>)>>), d1),
                         At(Spread("A"), d3), At(Leaf("__typename"), <<If("skip", V("v"))>>)>>),
              "A" :> Frag("Query", <<At(Inline("", <<At(Field("dog", <<Leaf("name")>>), d1)>>), d2)>>)),
          "strict") EXCEPT !.vars = given] :
       ty \in {<<"NonNull", "Boolean">>, <<"Boolean">>},
       default \in {Undefined, B(TRUE), B(FALSE)}, given \in {<<>>, "v" :> B(TRUE), "v" :> B(FALSE)},
       d1 \in Dirs, d2 \in Dirs,
       d3 \in {<<>>, <<If("skip", V("v"))>>, <<If("include", V("v"))>>}}
Tagged ==
    {[Submit(Single(<<At(Field("dog", <<At(As(k, Leaf("name")), ds)>>), es)>>), "strict")
        EXCEPT !.limits.directives = n, !.limits.aliases = n] :
       k \in {"", "k"}, ds, es \in {<<>>, <<If("skip", B(FALSE)), If("skip", B(FALSE))>>,
                                    <<[name |-> "tag", args |-> <<>>], [name |-> "tag", args |-> <<>>]>>,
                                    <<[name |-> "gone", args |-> <<>>]>>}, n \in {-1, 0, 1}}

(* Complexity and depth, over two operations, with custom costs.           *)
Limits ==
    LET leaves == {<<Leaf("name")>>, <<Leaf("bark")>>, <<Field("mate", <<Leaf("name")>>)>>,
                   <<Leaf("name"), Field("mate", <<Leaf("name")>>)>>}
        sets == {<<Field(f, s)>> : f \in {"pet", "dog"}, s \in leaves}
                \union {<<Field("self", <<Spread("A")>>)>>, <<Spread("A"), Leaf("count")>>}
    IN  {[Submit(DocOf([P |-> Op("QUERY", <<>>, p), Q |-> Op("QUERY", <<>>, q)], "A" :> Frag("Query", a)),
              "fast") EXCEPT !.selected = "P", !.limits.complexity = c, !.limits.depth = n] :
           p \in sets, q \in sets, a \in {<<Field("dog", s)>> : s \in leaves},
           c \in {-1, 4, 7}, n \in {-1, 2}}

(* A complexity function that reads an argument, in two operations with    *)
(* variables of their own.                                                 *)
Scaled ==
    LET pageOf(value) == With(Field("page", <<Leaf("name"), Field("mate", <<Leaf("name")>>)>>),
                              <<<<"n", value>>>>)
        sets == {<<pageOf(V("v"))>>, <<pageOf(N(2))>>, <<Spread("A")>>}
        defs == {<<>>, <<VarDef("v", <<"NonNull", "Int">>, Undefined)>>,
                 <<VarDef("v", <<"NonNull", "Int">>, N(3))>>}
    IN  {[Submit(DocOf([P |-> Op("QUERY", vs, p), Q |-> Op("QUERY", us, q)],
                       "A" :> Frag("Query", <<pageOf(V("v"))>>)), mode)
            EXCEPT !.selected = "P", !.vars = given, !.limits.complexity = c] :
           vs \in defs, us \in defs, p \in sets, q \in sets, mode \in {"strict", "fast"},
           given \in {<<>>, "v" :> N(1), "v" :> Null}, c \in {-1, 10}}

(* Fields of one response key.                                             *)
Merges ==
    Strict({Single(<<Field(f, <<a>>), Field(f, <<b, c>>)>>) :
              f \in {"pet", "dog", "any"},
              a, b \in {Leaf("name"), Leaf("__typename"), Inline("Dog", <<Leaf("bark")>>),
                        Inline("Query", <<Leaf("__typename")>>)},
              c \in {Inline("Dog", <<Leaf("name")>>), Field("mate", <<Leaf("name")>>)}})

MCFamilies == <<Strict(Graphs), Fast, TwoOperations, Strict(Typed), Arguments,
                DuplicateArguments, Skips, Tagged, Limits, Scaled, Merges>>
=============================================================================

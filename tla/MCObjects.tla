------------------------------ MODULE MCObjects ------------------------------
(***************************************************************************)
(* Types declared to the derive macros: one item with every combination of *)
(* the attributes that decide what a failure does, and types of a few      *)
(* items that are derived, flattened, renamed, skipped or merged.          *)
(***************************************************************************)
EXTENDS ObjectTypes

Rets == {"value", "option", "result"}

AnItem(fn) ==
  [fn |-> fn, renamed |-> "", ret |-> "value", async |-> TRUE, nullable |-> FALSE,
   optional |-> FALSE, converted |-> "", guard |-> FALSE, params |-> FALSE, skip |-> FALSE,
   flatten |-> <<>>, derived |-> <<>>]

AType(macro, items) ==
  [macro |-> macro, items |-> items, complex |-> <<>>, members |-> <<>>, guard |-> FALSE,
   concrete |-> FALSE]

\* one item
Attributed(macro) ==
  {[AnItem("a") EXCEPT !.ret = r, !.async = s, !.nullable = n, !.optional = o, !.converted = c,
                       !.guard = g, !.params = p] :
     r \in Rets, s \in IF macro \in {"Object", "ComplexObject"} THEN BOOLEAN ELSE {TRUE},
     n \in IF macro \in {"Object", "ComplexObject", "SimpleObject"} THEN BOOLEAN ELSE {FALSE},
     o \in IF macro = "SimpleObject" THEN BOOLEAN ELSE {FALSE},
     c \in IF macro = "SimpleObject" THEN Rets \cup {""} ELSE {""},
     g \in BOOLEAN, p \in IF macro = "SimpleObject" THEN {FALSE} ELSE BOOLEAN}

OneItem ==
  {AType(m, <<i>>) : m \in {"Object", "Interface", "Subscription"}, i \in Attributed("Object")}
  \cup {AType("SimpleObject", <<i>>) : i \in Attributed("SimpleObject")}
  \cup {[AType("SimpleObject", <<AnItem("b")>>) EXCEPT !.complex = <<i>>] :
          i \in Attributed("ComplexObject")}
  \cup {[AType("Interface", <<i>>) EXCEPT !.complex = <<i>>] : i \in Attributed("Interface")}
  \cup {[AType("Object", <<[AnItem("a") EXCEPT !.ret = r]>>) EXCEPT !.guard = TRUE] : r \in Rets}

\* several items
Inner == [AType("SimpleObject", <<AnItem("c"), [AnItem("d") EXCEPT !.guard = TRUE]>>)
            EXCEPT !.complex = <<AnItem("e")>>]

Flattening(fn) == [AnItem(fn) EXCEPT !.flatten = <<Inner>>]

Deriving(fn, to) == [AnItem(fn) EXCEPT !.derived = <<[fn |-> to, ret |-> "option"]>>]

ItemLists ==
  {<<AnItem("a"), AnItem("b")>>, <<Flattening("f"), AnItem("a")>>, <<AnItem("c"), Flattening("f")>>,
   <<Flattening("f"), AnItem("c")>>, <<Deriving("a", "x"), AnItem("b")>>,
   <<[Deriving("a", "x") EXCEPT !.renamed = "y"], AnItem("b")>>,
   <<[Deriving("a", "x") EXCEPT !.skip = TRUE], AnItem("b")>>,
   <<[AnItem("a") EXCEPT !.renamed = "b"], AnItem("c")>>,
   <<[AnItem("a") EXCEPT !.renamed = "b"], AnItem("b")>>}

Complexes == {<<>>, <<AnItem("e")>>, <<AnItem("b")>>, <<Deriving("e", "z"), Flattening("g")>>}

Objects == {AType("Object", l) : l \in ItemLists}
           \cup {[AType("SimpleObject", l) EXCEPT !.complex = c, !.concrete = k] :
                   l \in ItemLists, c \in Complexes, k \in BOOLEAN}

Members == {AType("Object", <<AnItem("a"), AnItem("b")>>), Inner,
            AType("SimpleObject", <<[AnItem("g") EXCEPT !.ret = "option"]>>)}

Nested == {[AType("MergedObject", <<>>) EXCEPT !.members = <<Inner>>]}

Merging == {[AType(m, <<>>) EXCEPT !.members = <<x, y>>] :
              m \in {"MergedObject"}, x \in Members, y \in Members \cup Nested}
           \cup {[AType("MergedSubscription", <<>>) EXCEPT !.members =
                   <<AType("Subscription", <<AnItem(f)>>), AType("Subscription", <<AnItem("b")>>)>>] :
                 f \in {"a", "b"}}

MCTypeDeclarations == OneItem \cup Objects \cup Merging

ObjectsSpec == ObjectTypesInit /\ [][ObjectTypesNext]_ovars
==============================================================================

------------------------------ MODULE MCExecution ------------------------------
(***************************************************************************)
(* Model checking of the request pipeline and of subscriptions: two        *)
(* requests, a document that passes, one that is too deep, one that does   *)
(* not parse, one the rules reject, and subscriptions with one and with    *)
(* two root fields.                                                        *)
(***************************************************************************)
EXTENDS SubscriptionStream, TLC

CONSTANTS q, deep, bad, wrong, sub, subs, n1, n2, f1, f2, f3

MCTexts  == {q, deep, bad, wrong, sub, subs}
MCNames  == {n1, n2}
MCFields == {f1, f2, f3}
MCKnown  == {f1, f2}
MCRoots  == [t \in MCTexts |-> IF t = sub THEN {f1}
                               ELSE IF t = subs THEN {f1, f2} ELSE {f3}]

Passing(type) ==
  [parses |-> TRUE, depth |-> TRUE, directives |-> TRUE, aliases |-> TRUE,
   valid |-> TRUE, named |-> {}, type |-> type]

MCDoc ==
  (q     :> [Passing("query") EXCEPT !.named = {n1, n2}]) @@
  (deep  :> [Passing("mutation") EXCEPT !.depth = FALSE]) @@
  (bad   :> [Passing("query") EXCEPT !.parses = FALSE]) @@
  (wrong :> [Passing("subscription") EXCEPT !.valid = FALSE]) @@
  (sub   :> Passing("subscription")) @@
  (subs  :> [Passing("subscription") EXCEPT !.named = {n1}])

MCChain   == <<"apollo", "relay">>
MCBackend == [e \in {"apollo", "relay"} |-> "lru"]

Ids(a, b) == [e \in {"apollo", "relay"} |-> IF e = "apollo" THEN a ELSE b]

Ask(t, p, i, n, o, s, c) ==
  [query |-> t, parsed |-> p, ids |-> i, name |-> n, introspection |-> o,
   stream |-> s, schema |-> c]

NoIds == Ids(None, None)

Persisted ==
  {Ask(t, p, Ids(a, b), None, FALSE, FALSE, "derived") :
     t \in {Empty, deep, sub}, p \in {None, q},
     a \in {None, Sha256(deep), Sha256(sub)}, b \in {None, Sha256(sub)}}
  \cup {Ask(t, None, Ids(a, b), None, FALSE, FALSE, "derived") :
          t \in {bad}, a \in {Sha256(bad), Malformed}, b \in {None}}

Plain ==
  {Ask(t, None, NoIds, n, FALSE, FALSE, "derived") :
     t \in {q, wrong, sub}, n \in {None, n1}}

Streams ==
  {Ask(t, None, NoIds, None, o, TRUE, c) :
     t \in {sub, subs}, o \in BOOLEAN, c \in {"derived", "dynamic"}}
  \cup {Ask(q, None, NoIds, n1, FALSE, TRUE, c) : c \in {"derived", "bare"}}

Both(a, b) == [r \in 1 .. 2 |-> IF r = 1 THEN a ELSE b]

\* Two requests of a batch, or one beside a subscription.
MCInputs ==
  {Both(a, b) : a, b \in Persisted \cup Plain}
  \cup {Both(Ask(q, None, NoIds, n1, FALSE, FALSE, "derived"), s) : s \in Streams}
  \cup {Both(s, Ask(q, None, NoIds, n1, FALSE, FALSE, "derived")) :
          s \in {t \in Streams : t.query = q}}
================================================================================

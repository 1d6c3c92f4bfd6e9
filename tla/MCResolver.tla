----------------------------- MODULE MCResolver -----------------------------
(***************************************************************************)
(* Model checking of Resolver on small requests.  A request is given by    *)
(* its positions in the order of the selection, and what surrounds each.   *)
(***************************************************************************)
EXTENDS Resolver, Naturals, Sequences

TheRoot     == "data"
NoSerial    == {}
FirstSerial == {"first"}

UpOf(parent) ==
  LET chain[n \in DOMAIN parent] == IF n = TheRoot THEN {n} ELSE {n} \cup chain[parent[n]]
  IN  chain

EarlierOf(order, parent) ==
  [n \in DOMAIN parent |->
     {a \in DOMAIN parent : /\ parent[a] = parent[n] /\ a # TheRoot
                            /\ \E i, j \in DOMAIN order : i < j /\ order[i] = a /\ order[j] = n}]

\* { first { child done } second { name } }: first is an object marked serial, second a list of two plain items
RequestForm   == [data |-> "value", first |-> "option", child |-> "simple_result", done |-> "result",
                  second |-> "option", m1 |-> "item", name |-> "simple", m2 |-> "item"]
RequestParent == [data |-> "data", first |-> "data", child |-> "first", done |-> "first",
                  second |-> "data", m1 |-> "second", name |-> "m1", m2 |-> "second"]
RequestPositions == DOMAIN RequestForm
RequestUp        == UpOf(RequestParent)
RequestEarlier   ==
  EarlierOf(<<"first", "child", "done", "second", "m1", "name", "m2">>, RequestParent)

\* Where a position does not keep its own errors, a failed argument is one more of them; so is a failed
\* directive, if a position around gives it a path.  An error stands for all three.
OneErrorOfAKind ==
  \A n \in Positions :
    /\ fate[n] = "argument" => OwnNull(n)
    /\ fate[n] = "directive" => OwnNull(n) \/ \A c \in Positions : Nearest(c, n) => Rewriters(c, n) = {}

=============================================================================

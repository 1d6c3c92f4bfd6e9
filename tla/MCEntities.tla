----------------------------- MODULE MCEntities -----------------------------
(***************************************************************************)
(* A query root of one or two members and two or three representations of  *)
(* the types User, which is a Node, and Item.                              *)
(***************************************************************************)
EXTENDS Entities, TLC

MCInterfacesOf(type) == IF type = "User" THEN {"Node"} ELSE {}

Finder(fn, type, keys, requires) == [fn |-> fn, type |-> type, keys |-> keys, requires |-> requires]

ById == Finder("user_by_id", "User", <<"id">>, <<>>)
ByIdAndName == Finder("user_by_id_and_name", "User", <<"id", "name">>, <<>>)
WithName == Finder("user_with_name", "User", <<"id">>, <<"name">>)
NodeById == Finder("node_by_id", "Node", <<"id">>, <<>>)
NodeFull == Finder("node_full", "Node", <<"id", "name">>, <<>>)
ItemById == Finder("item_by_id", "Item", <<"id">>, <<>>)
UsersById == [fn |-> "users_by_id", type |-> "User", key |-> "id"]
UsersByName == [fn |-> "users_by_name", type |-> "User", key |-> "name"]

Finding(finders, batches) == [finders |-> finders, batches |-> batches]

MemberLists ==
  {<<Finding(f, <<>>)>> : f \in {<<ById, ByIdAndName>>, <<WithName, ById>>, <<NodeFull, ById>>,
                                 <<NodeById, ItemById>>}}
  \cup {<<Finding(<<ById>>, <<UsersByName>>)>>, <<Finding(<<ItemById>>, <<UsersById, UsersByName>>)>>}
  \cup {<<Finding(<<ById>>, <<>>), Finding(f, b)>> :
          f \in {<<>>, <<ItemById>>, <<NodeById>>}, b \in {<<>>, <<UsersByName>>}}

Rep(typename, keys) == [typename |-> typename, keys |-> keys]

Id(q) == "id" :> q
IdName(q, r) == "id" :> q @@ "name" :> r

Reps == {Rep("User", Id("good")), Rep("User", Id("bad")), Rep("User", IdName("good", "good")),
         Rep("User", IdName("bad", "good")), Rep("Item", Id("good")), Rep("", Id("good")),
         Rep("scalar", <<>>)}

Threes == {<<Rep("User", IdName("good", "bad")), r, s>> :
             r \in {Rep("Item", Id("good")), Rep("User", IdName("good", "good"))},
             s \in {Rep("User", IdName("good", "good")), Rep("", Id("good"))}}

MCGateways ==
  {[enabled |-> TRUE, members |-> m, representations |-> r] :
     m \in MemberLists, r \in {<<x, y>> : x, y \in Reps} \cup Threes}
  \cup {[enabled |-> FALSE, members |-> <<Finding(<<ById>>, <<>>)>>,
         representations |-> <<Rep("User", Id("good"))>>]}
=============================================================================

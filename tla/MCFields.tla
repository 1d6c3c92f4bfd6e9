------------------------------- MODULE MCFields -------------------------------
(***************************************************************************)
(* The fields of a response: the order in which the executor runs their    *)
(* resolvers (MCResolver), and what the generated resolvers do with their  *)
(* arguments and values (MCTypes).  The two share no state: a resolver's   *)
(* result is a fate there and is computed here.                            *)
(***************************************************************************)
EXTENDS MCResolver, MCTypes

NoTypes == NoObject /\ NoGateway /\ NoCarriage /\ NoArgument

\* A response without fields.
NoRequest ==
  /\ fate = [n \in Positions |-> IF n = Root THEN "value" ELSE "absent"]
  /\ st = [n \in Positions |-> IF n = Root THEN "resolved" ELSE "gone"]
  /\ errors = {} /\ answered = TRUE

FieldsInit == (Init /\ OneErrorOfAKind /\ NoTypes) \/ (TypesInit /\ NoRequest)

FieldsNext == (Next /\ UNCHANGED typesVars) \/ (TypesNext /\ UNCHANGED vars)

\* The request is polled and its resolvers return.
FieldsSpec == FieldsInit /\ [][FieldsNext]_<<vars, typesVars>> /\ Fairness
==============================================================================

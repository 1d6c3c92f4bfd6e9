------------------------------- MODULE MCTypes -------------------------------
(***************************************************************************)
(* The code that the derive macros generate and what it calls: the fields  *)
(* of output types (MCObjects), the entity finders (MCEntities), values in *)
(* the forms they are carried in (MCValues) and arguments (MCInputs).  The *)
(* four share no state.                                                    *)
(***************************************************************************)
EXTENDS MCObjects, MCEntities, MCInputs, MCValues

NoObject ==
  /\ declared = Inner /\ shown = NoFields /\ progress = "none" /\ asked = ""
  /\ resolver = NoResolver /\ ran = <<>> /\ given = "none yet" /\ result = "none yet"
  /\ recorded = <<>>

NoGateway ==
  /\ gateway = [enabled |-> FALSE, members |-> <<>>, representations |-> <<>>]
  /\ member = 0 /\ work = {} /\ found = <<>> /\ entities = <<>> /\ verdict = "none"

NoCarriage ==
  /\ carriage = [codec |-> "none", type |-> Null, datum |-> Null, as |-> Null]
  /\ written = Err /\ readback = Err /\ stage = "none"

NoArgument ==
  argument = Plain(AnEnum, Absent, "i8") /\ raw = Absent /\ parsed = Err /\ checked = <<>> /\ phase = "none"

TypesInit ==
  \/ ObjectTypesInit /\ NoGateway /\ NoCarriage /\ NoArgument
  \/ EntitiesInit /\ NoObject /\ NoCarriage /\ NoArgument
  \/ ValuesInit /\ NoObject /\ NoGateway /\ NoArgument
  \/ InputsInit /\ NoObject /\ NoGateway /\ NoCarriage

TypesNext ==
  \/ ObjectTypesNext /\ UNCHANGED <<evars, valueVars, inputVars>>
  \/ EntitiesNext /\ UNCHANGED <<ovars, valueVars, inputVars>>
  \/ ValuesNext /\ UNCHANGED <<ovars, evars, inputVars>>
  \/ InputsNext /\ UNCHANGED <<ovars, evars, valueVars>>

typesVars == <<ovars, evars, valueVars, inputVars>>

TypesSpec == TypesInit /\ [][TypesNext]_typesVars
==============================================================================

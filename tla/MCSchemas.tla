------------------------------ MODULE MCSchemas ------------------------------
(***************************************************************************)
(* One schema is built: from Rust types (MCRegistry) or from values at run *)
(* time (MCDynamic).  The two share no state.                              *)
(***************************************************************************)
EXTENDS MCRegistry, MCDynamic

NoProgram ==
  /\ program = Program(<<>>, <<>>, <<>>, FALSE)
  /\ todo = <<>> /\ stack = <<>> /\ types = <<>> /\ implements = {} /\ directives = <<>>
  /\ keys = <<>>
  /\ phase = "none" /\ client = NoClient /\ sdl = NoSdl

NoDefinition ==
  /\ definition = Schema(<<>>)
  /\ registered = 0 /\ possible = <<>> /\ served = {} /\ verdict = "none" /\ answer = NoAnswer

SchemasInit == (SdlInit /\ NoDefinition) \/ (DynamicInit /\ NoProgram)

SchemasNext == (SdlNext /\ UNCHANGED dvars) \/ (DynamicNext /\ UNCHANGED <<vars, sdl>>)

SchemasSpec == SchemasInit /\ [][SchemasNext]_<<vars, sdl, dvars>>
==============================================================================

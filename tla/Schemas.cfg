CONSTANTS
  Programs <- MCPrograms
  Bases <- MCBases
  HiddenSets <- MCHiddenSets
  MaxFields = 2
  Extras <- SomeExtra
  SdlOptions <- MCSdlOptions
  Definitions <- AllDefinitions
  Reserved <- MCReserved
  Returned <- MCReturned
SPECIFICATION SchemasSpec
CHECK_DEADLOCK FALSE
INVARIANTS RegistryClosed PanicsOnlyOnClash EntitiesServed SdlSound
INVARIANTS AcceptedSchemaServed ResultConforms

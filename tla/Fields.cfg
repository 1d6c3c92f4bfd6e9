CONSTANTS
  TypeDeclarations <- MCTypeDeclarations
  Gateways <- MCGateways
  InterfacesOf <- MCInterfacesOf
  Carriages <- MCCarriages
  Arguments <- MCArguments
  NumberOf <- MCNumberOf
  Positions <- RequestPositions
  Root <- TheRoot
  Up <- RequestUp
  Earlier <- RequestEarlier
  Form <- RequestForm
  Serial <- FirstSerial
SPECIFICATION FieldsSpec
CHECK_DEADLOCK FALSE
INVARIANTS FieldsServed NullsFit EntitiesFound ValuesKept InputsKept
INVARIANTS NoOrphanResolver SerialFieldsDoNotOverlap ErrorsFit DataIsDeterministic
PROPERTY RequestAnswered

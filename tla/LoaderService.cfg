CONSTANTS
  Keys = {k1, k2}
  Calls = {c1, c2}
  ModesUsed <- BothModes
  MaxBatchSize = 2
  Policy = "LruCache"
  Cap = 1
  MaxVersion = 1
  SpawnMayFail = TRUE
  Toggles <- NoToggle
SPECIFICATION Spec
SYMMETRY Symmetry
CHECK_DEADLOCK FALSE
INVARIANT FreshAnswer
PROPERTY ImplementsService

CONSTANTS
  Keys = {k1, k2}
  Calls = {c1}
  ModesUsed <- BothModes
  MaxBatchSize = 2
  Policy = "LruCache"
  Cap = 1
  MaxVersion = 2
  SpawnMayFail = FALSE
  Toggles <- BothToggles
SPECIFICATION Spec
SYMMETRY Symmetry
CHECK_DEADLOCK FALSE
PROPERTY TypedCacheOff

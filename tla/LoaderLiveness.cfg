CONSTANTS
  Keys = {k1, k2}
  Calls = {c1, c2}
  ModesUsed <- BothModes
  MaxBatchSize = 2
  Policy = "NoCache"
  Cap = 1
  MaxVersion = 1
  SpawnMayFail = FALSE
  Toggles <- NoToggle
SPECIFICATION FairSpec
CHECK_DEADLOCK FALSE
INVARIANTS BatchKeysMatch NoOrphanBatch SenderOwnedOnce
PROPERTY EveryCallReturns

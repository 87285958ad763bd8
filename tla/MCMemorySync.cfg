CONSTANTS
  EntityIds = {1, 2}
  FactIds = {1, 2}
  nx = nx
  ny = ny
  ca = ca
  cb = cb
  Names = {nx, ny}
  Contents = {ca, cb}
  Scenarios <- AllScenarios
  MaxClock = 3
  MaxFaults = 1
  Nil = Nil
SPECIFICATION FairBackSpec
INVARIANT StoresAgree
INVARIANT CacheCovers
INVARIANT FactsAddressable
INVARIANT BackupIsComplete
INVARIANT RestoreIsWhole
PROPERTY PullsSettle
CHECK_DEADLOCK FALSE

CONSTANTS
  EntityIds = {1, 2}
  FactIds = {1, 2}
  nx = nx
  ny = ny
  ca = ca
  cb = cb
  Names = {nx, ny}
  Contents = {ca, cb}
  Scenarios <- HiddenScenarios
  MaxClock = 2
  MaxFaults = 0
  Nil = Nil
SPECIFICATION FairBackSpec
PROPERTY MergesAreVisible
CHECK_DEADLOCK FALSE

SPECIFICATION EngineSpec
CONSTANTS
  Ids <- HostIds
  Comps <- HostComps
  RolloutRecords <- MCRolloutRecords
  Deployments <- MCDeployments
  NoRollout = NoRollout
  NoPod = NoPod
  MaxDeployments = 3
  MaxApplies = 3
  MaxFaults = 1
  MaxCrashes = 1
  MaxTeardowns = 1
INVARIANTS
  OrderRespected
  DestroyedUnreferenced
  ExecutedConverges
  RollbackClean
  DriftBounded
  NoDriftNoChangeIsUp
CHECK_DEADLOCK FALSE

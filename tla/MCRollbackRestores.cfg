SPECIFICATION EngineSpec
CONSTANTS
  Ids <- HostIds
  Comps <- GrowComps
  RolloutRecords <- MCRolloutRecords
  Deployments <- MCDeployments
  NoRollout = NoRollout
  NoPod = NoPod
  MaxDeployments = 3
  MaxApplies = 3
  MaxFaults = 0
  MaxCrashes = 0
  MaxTeardowns = 0
INVARIANTS
  RollbackRestores
CHECK_DEADLOCK FALSE

SPECIFICATION EngineFairSpec
CONSTANTS
  Ids <- NetIds
  Comps <- NetComps
  RolloutRecords <- MCRolloutRecords
  Deployments <- MCDeployments
  NoRollout = NoRollout
  NoPod = NoPod
  MaxDeployments = 2
  MaxApplies = 2
  MaxFaults = 2
  MaxCrashes = 1
  MaxTeardowns = 0
INVARIANTS
  ConditionsGate
  LinksMirror
PROPERTIES
  ApplyReturns
  ImplementsLinkStore
CHECK_DEADLOCK FALSE

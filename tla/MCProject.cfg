SPECIFICATION FairSpec
CONSTANTS
  NameSeq <- MCNameSeq
  InitName <- MCInitName
  Docs <- MCDocs
  Active = {}
  MaxEdits = 2
  MaxFaults = 1
  MaxExits = 0
  Targets <- MCTargets
  MaxUps = 1
  MaxCommands = 1
  FailureThreshold = 2
INVARIANTS
  ConditionsSeen
  UpIsAPrefix
  DownIsComplete
  WatchMirrors
  WatchIsCurrent
PROPERTIES
  UpReturns
CHECK_DEADLOCK FALSE

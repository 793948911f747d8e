SPECIFICATION SupFairSpec
CONSTANTS
  web = web
  db = db
  shell = shell
  Services <- Two
  Policy <- MixedPolicies
  StopSeq <- TwoStopSeq
  BackoffMin = 1
  BackoffMax = 3
  MaxExits = 1
  MaxFaults = 1
  MaxCommands = 1
  Others <- OneOther
INVARIANTS
  OnePod
  BackoffExact
  LeakBounded
PROPERTIES
  RestartsByPolicy
  SignalEnds
  ExitedIsRestarted
CHECK_DEADLOCK FALSE

SPECIFICATION FairSpec
CONSTANTS
  Mappings = 0
  Conns = {c1}
  Port <- MCPort
  Shares = 1
  MaxFaults = 0
PROPERTIES
  SignalStopsVM
CHECK_DEADLOCK FALSE

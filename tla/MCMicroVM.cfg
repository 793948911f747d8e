SPECIFICATION FairSpec
CONSTANTS
  Mappings = 2
  Conns = {c1, c2}
  Port <- MCPort
  Shares = 1
  MaxFaults = 1
INVARIANTS
  NoOrphans
  Drained
PROPERTIES
  StopsReturn
CHECK_DEADLOCK FALSE

SPECIFICATION PoolFairSpec
CONSTANTS
  w1 = w1
  w2 = w2
  r1 = r1
  r2 = r2
  r3 = r3
  r4 = r4
  Workers <- MCWorkers
  Requests <- MCRequests
  SubjectOf <- MCSubjects
  Cap = 1
  MaxFailures = 2
INVARIANTS
  Conserved
  StopIsSafe
PROPERTIES
  StopTerminates
  LoadIsServed
CHECK_DEADLOCK FALSE

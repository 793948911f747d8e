SPECIFICATION Spec
CONSTANTS
  Services <- MCServices
  MaxLines = 3
  MaxTruncated = 1
  Since = 2
  TailN = 1
INVARIANTS
  NothingSkipped
  AtMostTwice
PROPERTIES
  EventuallyShown
CHECK_DEADLOCK FALSE

SPECIFICATION Spec
CONSTANTS
  a = a
  b = b
  c = c
  ghost = ghost
  Services <- MCServices
  Names <- MCNames
INVARIANTS
  DetectCyclesExact
  LevelsRespectDeps
  StartOrderExact
CHECK_DEADLOCK FALSE

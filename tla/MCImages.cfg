SPECIFICATION Spec
CONSTANTS
  Procs = {p, q}
  StorePaths = {"store", "foreign"}
  Paths = {"a/img", "b/img"}
  Comps <- MCComps
  Ref <- MCRef
  Built <- MCBuilt
  Versions <- MCVersions
  Registry <- MCRegistry
  Platform = "host"
  MaxCommands = 2
  MaxFaults = 1
  MaxEdits = 1
SYMMETRY Symmetry
INVARIANT PresentIsExact
PROPERTY PathIsFresh
CHECK_DEADLOCK FALSE

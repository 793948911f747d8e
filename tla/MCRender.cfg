SPECIFICATION Spec
CONSTANTS
  NameSeq <- MCNameSeq
  InitName = {}
  Docs <- MCDocs
  Active = {}
  Host <- MCHost
  Kind <- MCKind
  Label <- MCLabel
  Prefixed <- MCPrefixed
  MaxPort = 100
  MaxBytes = 1
  MaxRenders = 3
  MaxFaults = 1
INVARIANTS
  RenderFaithful
  OverridesSuffice
  KustomizationClosed
CHECK_DEADLOCK FALSE

SPECIFICATION Spec
CONSTANTS
  Env = {e1, e2}
  MaxOps = 6
  MaxFaults = 0
  NULL = NULL
SYMMETRY Symmetry
CHECK_DEADLOCK FALSE
PROPERTIES
  NamespaceServesOthers
  LastOneCleansUp

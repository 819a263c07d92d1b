SPECIFICATION Spec
CONSTANTS
  Env = {e1, e2}
  MaxOps = 4
  MaxFaults = 2
  NULL = NULL
SYMMETRY Symmetry
CHECK_DEADLOCK FALSE
INVARIANTS
  DeployedIsComplete
  DatabaseCredentialsAgree
  DecommissionedHasNoObjects
PROPERTIES
  NamespaceServesOthers
  LastOneCleansUp

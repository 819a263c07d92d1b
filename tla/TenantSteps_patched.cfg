SPECIFICATION Spec
CONSTANTS
  Env = {e1}
  MaxOps = 2
  MaxFaults = 0
  NULL = NULL
CHECK_DEADLOCK FALSE
INVARIANT DeployedIsLive

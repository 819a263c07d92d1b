SPECIFICATION Spec
CONSTANTS
  Env = {e1}
  MaxOps = 2
  MaxFaults = 1
  NULL = NULL
CHECK_DEADLOCK FALSE
INVARIANT SearchCredentialsAgree

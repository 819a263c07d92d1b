SPECIFICATION Spec
CONSTANTS
  Env = {e1}
  MaxOps = 4
  MaxFaults = 0
  NULL = NULL
CHECK_DEADLOCK FALSE
PROPERTY DeletedWasCleanedUp

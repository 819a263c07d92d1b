SPECIFICATION Spec
CONSTANTS
  Env <- Environments
  MaxOps = 3
  MaxTasks = 3
  MaxFaults = 2
  NULL = NULL
CHECK_DEADLOCK FALSE
INVARIANTS
  DeployedIsWired
  TrafficStaysHome
  NothingLeftBehind
PROPERTIES
  OthersUntouched

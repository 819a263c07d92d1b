SPECIFICATION FairSpec
CONSTANTS
  Env = {e1}
  Image = {i1}
  MaxReplicas = 1
  MAX_RETRIES = 2
  NULL = NULL
  Request = {q1}
  EntryDate = {NULL, "future", "elapsed"}
  MaxOps = 3
  MaxCrashes = 0
  MaxFaults = 0
PROPERTY AnyStateIsTornDown

SPECIFICATION Spec
CONSTANTS
  Env = {e1}
  Image = {i1}
  MaxReplicas = 1
  MAX_RETRIES = 3
  NULL = NULL
  Request = {q1}
  EntryDate = {NULL, "future", "elapsed"}
  MaxOps = 2
  MaxCrashes = 0
  MaxFaults = 0
INVARIANT ExhaustedIsSkipped

SPECIFICATION Spec
CONSTANTS
  Env = {e1}
  Image = {i1}
  MaxReplicas = 1
  MAX_RETRIES = 2
  NULL = NULL
  Request = {q1}
  EntryDate = {NULL}
  MaxOps = 1
  MaxCrashes = 1
  MaxFaults = 0
INVARIANT SkippedWasNeverProvisioned

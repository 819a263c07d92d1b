SPECIFICATION FairSpec
CONSTANTS
  Env = {e1}
  Image = {i1, i2}
  MaxReplicas = 1
  MAX_RETRIES = 2
  NULL = NULL
  Request = {q1}
  EntryDate = {NULL, "future", "elapsed"}
  MaxOps = 2
  MaxCrashes = 0
  MaxFaults = 0
PROPERTY DriftIsSeen

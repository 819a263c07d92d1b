SPECIFICATION FairSpecFromDeployed
CONSTANTS
  Env = {e1, e2}
  Image = {i1}
  MaxReplicas = 1
  MAX_RETRIES = 1
  NULL = NULL
  Request = {q1}
  EntryDate = {NULL}
  MaxOps = 2
  MaxCrashes = 0
  MaxFaults = 1
PROPERTIES
  InProgressEnds
  DueTeardownHappens

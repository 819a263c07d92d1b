SPECIFICATION SpecFromEither
CONSTANTS
  Env = {e1}
  Image = {i1}
  MaxReplicas = 1
  MAX_RETRIES = 3
  NULL = NULL
  Request = {q1, q2}
  EntryDate = {NULL, "future", "elapsed"}
  MaxOps = 2
  MaxCrashes = 1
  MaxFaults = 1
SYMMETRY Symmetry
INVARIANTS
  TypeOK
  CleanRowIsApplied
  DecommissionedIsGone
  PurgeLeavesNothing
  AttemptsBounded
  DeployedHasBaseline
PROPERTIES
  NoEarlySurrender
  DecommissionedIsFinal
  KeepsLifecycle

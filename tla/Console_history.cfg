SPECIFICATION Spec
CONSTANTS
  NULL = NULL
  e1 = e1
  e2 = e2
  q1 = q1
  q2 = q2
  Env <- const_Env
  Deployed = {e1}
  Here = e1
  Query <- const_Query
  Matches <- const_Matches
  Slot = {s1, s2}
  ActSlot = {s1}
  PollSlot = {s1}
  Writer = {w1}
  Limit = 1
  MaxOlder = 2
  MaxClicks = 2
  MaxFaults = 1
  MaxChanges = 1
  MaxEvents = 3
  MaxWrites = 4
INVARIANT HistoryIsContinuous
CHECK_DEADLOCK FALSE

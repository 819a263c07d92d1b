SPECIFICATION FairSpec
CONSTANTS
  Goroutine = {g1, g2}
  Host = {h1}
  Service = {s1}
  PositiveTTL = 2
  NegativeTTL = 1
  Interval = 2
  MaxLookup = 1
  MaxChanges = 1
  MaxFaults = 1
  NULL = NULL
INVARIANTS
  AnswersAreFresh
  ResolutionIsRight
PROPERTIES
  RequestsAreAnswered
  WrongAnswersEnd

SPECIFICATION FairSpec
CONSTANTS
  NoTime = NoTime
  Msg = {1}
  Server = {s1}
  Stranger = 0
  Undecodable = {}
  RetryLimits <- EndlessOrOne
  ScheduleDelays = {0, 1}
  RetryMaxAge = 2
  BackoffDelays = {1}
  Lease = 1
  Interval = 1
  BatchLimit = 1
  AttemptTimeout = 1
  MaxStall = 1
  MaxCopies = 1
  MaxFaults = 2
INVARIANTS
  CallsWithinBudget
  NoneForgotten
  GivesUpOnlyWhenExhausted
  AttemptsInWindow
PROPERTIES
  EveryAcceptedEnds

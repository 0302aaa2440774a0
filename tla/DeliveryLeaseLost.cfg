SPECIFICATION Spec
CONSTANTS
  NoTime = NoTime
  Msg = {1}
  Server = {s1, s2}
  Stranger = 0
  Undecodable = {}
  RetryLimits = {1}
  ScheduleDelays = {0}
  RetryMaxAge = 0
  BackoffDelays = {1}
  Lease = 1
  Interval = 1
  BatchLimit = 1
  AttemptTimeout = 1
  MaxStall = 1
  MaxCopies = 1
  MaxFaults = 0
SYMMETRY Symmetry
INVARIANTS
  Inv
PROPERTIES
  SentUnderWinningClaim
  PromiseKept

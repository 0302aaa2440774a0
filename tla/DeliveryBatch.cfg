SPECIFICATION FairSpec
CONSTANTS
  NoTime = NoTime
  Msg = {1, 2}
  Server = {s1}
  Stranger = 0
  Undecodable = {2}
  RetryLimits = {0}
  ScheduleDelays = {0}
  RetryMaxAge = 0
  BackoffDelays = {1}
  Lease = 2
  Interval = 1
  BatchLimit = 2
  AttemptTimeout = 1
  MaxStall = 1
  MaxCopies = 1
  MaxFaults = 1
PROPERTIES
  EveryAcceptedEnds

SPECIFICATION Spec
CONSTANTS
  Worker = {w1, w2}
  Message = {m1, m2}
  MaxRetries = 1
  MaxAge = 3
  Lease = 2
  MaxTime = 4
  MaxFaults = 0
  NoTime = NoTime
CHECK_DEADLOCK FALSE
INVARIANTS
  DeadCounted

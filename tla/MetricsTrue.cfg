SPECIFICATION MetricsSpec
CONSTANTS
  Msg = {"m1", "m2"}
  Channel = {"email", "sms"}
  SendAt <- Later
  MaxClock = 1
  MaxAttempts = 1
  MaxFaults = 1
  Worker = {w1, w2}
  Message = {n1, n2}
  NoTime = NoTime
  MaxRetries = 1
  MaxAge = 3
  Lease = 2
  MaxTime = 4
  MaxLost = 1
CHECK_DEADLOCK FALSE
INVARIANTS
  MetricsTypeOK
  GaugesTrue
  CountsTrue
PROPERTIES
  GaugesCatchUp

SPECIFICATION ServerSpec
CONSTANTS
  Request = {"r1"}
  Worker = {"w1"}
  Grace = 4
  AttemptTimeout = 1
  Stalls = {1, 2}
  MaxDeliveries = 2
  Consuming = {"w1"}
  Relaying = "relay"
  MaxDials = 5
  MaxFaults = 2
  Channel = {"bale", "sms"}
  Enabled = {"sms"}
  ConfiguredCheckTimeout = 0
  ConfiguredTimeouts = {0, 1}
  DefaultCheckTimeout = 2
  MaxFlips = 1
CHECK_DEADLOCK FALSE
INVARIANTS
  ServerTypeOK
  ConnectionShared
  GraceCoversAttempt
  ShutdownComplete
  ReadinessIsTrue
PROPERTIES
  NothingHangs

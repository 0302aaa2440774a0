SPECIFICATION MessagesSpec
CONSTANTS
  Second = 5
  MaxAttempts = 11
  Request <- Requests
  Enabled = {"sms", "http", "email", "bale"}
  MaxRequests = 3
  MaxFaults = 1
  NoTime = NoTime
  Server = {s1, s2}
  Id = {r1, r2}
  OldRow <- OldRows
  MaxAge = 2
  Interval = 1
  MaxClock = 3
  MaxCrashes = 1
  Receptor = {"a", "b"}
  One = "a"
  MaxTries = 3
  Addressees = 3
  Address = {"public", "other", "private", "excepted", "metadata"}
  Special = {"metadata"}
  Private = {"private", "excepted", "metadata"}
  Excepted = {"excepted", "metadata"}
  RequestLimit = 0
  ResponseLimit = 1
  MaxLength = 2
  MaxAddresses = 2
CHECK_DEADLOCK FALSE
INVARIANTS
  MessagesTypeOK
  RequestsAgree
  SentMeansTaken
  RepeatsExplained
  OnlyPermitted
PROPERTIES
  WaitsGrow
  Upgraded
  AttemptEnds

SPECIFICATION FairSpec
CONSTANTS
  h1 = h1 h2 = h2 d1 = d1 d2 = d2 d3 = d3 k = k
  NoKey = NoKey
  Submission = {h1, d1, d2, d3}
  Direct = {d1, d2, d3}
  KeyOf <- LooseKeys
  ContentOf <- LooseContents
  Malformed = {d2}
  Disabled = {h1, d1}
  Thread = {t1, t2}
  MaxTries = 1
  MaxFaults = 2
  MaxDeletes = 0
INVARIANTS MessageKept DuplicatesNeedFaults
PROPERTIES SettledAsPromised
CHECK_DEADLOCK FALSE

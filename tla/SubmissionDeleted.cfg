SPECIFICATION Spec
CONSTANTS
  h1 = h1 h2 = h2 d1 = d1 d2 = d2 d3 = d3 k = k
  NoKey = NoKey
  Submission = {h1, h2, d1}
  Direct = {d1}
  KeyOf <- RivalKeys
  ContentOf <- RivalContents
  Malformed = {}
  Disabled = {}
  Thread = {t1}
  MaxTries = 1
  MaxFaults = 0
  MaxDeletes = 1
PROPERTIES DeletionFreesKey
CHECK_DEADLOCK FALSE

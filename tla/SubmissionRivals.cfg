SPECIFICATION Spec
CONSTANTS
  h1 = h1 h2 = h2 d1 = d1 d2 = d2 d3 = d3 k = k
  NoKey = NoKey
  Submission = {h1, h2, d1}
  Direct = {d1}
  KeyOf <- RivalKeys
  ContentOf <- RivalContents
  Malformed = {}
  Disabled = {}
  Thread = {t1, t2}
  MaxTries = 2
  MaxFaults = 2
  MaxDeletes = 1
SYMMETRY Symmetry
INVARIANTS TypeOK AnswersAreTrue OneIdPerKey
PROPERTIES KeepsPromise
CHECK_DEADLOCK FALSE

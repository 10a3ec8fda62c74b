SPECIFICATION FairSpec
CONSTANTS
  Ids = {i1}
  Texts = {ta, tb}
  None = None
  Workers = {w1}
  Writers = {x1}
  Batch = 1
  MaxAttempts = 1
  Revisit = FALSE
  MaxEdits = 2
  MaxFaults = 2
PROPERTY Converges
CHECK_DEADLOCK FALSE

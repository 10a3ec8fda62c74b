SPECIFICATION Spec
CONSTANTS
  Ids = {i1}
  Texts = {ta, tb}
  None = None
  Workers = {w1}
  Writers = {x1, x2}
  Batch = 1
  MaxAttempts = 2
  Revisit = TRUE
  MaxEdits = 3
  MaxFaults = 0
INVARIANT VectorMatchesText
CHECK_DEADLOCK FALSE

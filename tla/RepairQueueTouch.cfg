SPECIFICATION Spec
CONSTANTS
  Ids = {i1}
  Texts = {ta, tb}
  None = None
  Workers = {w1, w2}
  Writers = {x1}
  Batch = 1
  MaxAttempts = 1
  Revisit = TRUE
  MaxEdits = 3
  MaxFaults = 0
SYMMETRY Symmetry
INVARIANT VectorMatchesText
CHECK_DEADLOCK FALSE

SPECIFICATION Spec
CONSTANTS
  Ids = {i1}
  Texts = {ta, tb}
  None = None
  Workers = {w1, w2}
  Writers = {x1}
  Batch = 1
  MaxAttempts = 2
  Revisit = FALSE
  MaxEdits = 2
  MaxFaults = 1
SYMMETRY Symmetry
INVARIANTS TypeOK VectorMatchesText DebtRecorded EnrichHasVector
CHECK_DEADLOCK FALSE

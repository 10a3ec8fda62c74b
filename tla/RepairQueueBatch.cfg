SPECIFICATION Spec
CONSTANTS
  Ids = {i1, i2}
  Texts = {ta, tb}
  None = None
  Workers = {w1}
  Writers = {x1}
  Batch = 2
  MaxAttempts = 1
  Revisit = FALSE
  MaxEdits = 1
  MaxFaults = 1
SYMMETRY Symmetry
PROPERTY ImplementsIndexDebt
CHECK_DEADLOCK FALSE

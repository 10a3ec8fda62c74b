SPECIFICATION Spec
CONSTANTS
  Ids = {i1, i2}
  Null = Null
  Classes = {c1}
  Slots = {s1, s2}
  Fact = Fact
  Writers = {w1}
  DedupActions = {"hint"}
  Modes = {"off"}
  SplitMerge = FALSE
  QueueCap = 2
  Degrades = FALSE
  DedupJob = TRUE
  LLMMerge = FALSE
  UserLinks = FALSE
  MaxOps = 3
INVARIANT SlotSuccession
CHECK_DEADLOCK FALSE

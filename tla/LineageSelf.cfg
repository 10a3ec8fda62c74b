SPECIFICATION Spec
CONSTANTS
  Ids = {i1, i2}
  Null = Null
  Classes = {c1}
  Slots = {s1}
  Fact = Fact
  Writers = {w1}
  DedupActions = {"coalesce"}
  Modes = {"off"}
  SplitMerge = FALSE
  QueueCap = 2
  Degrades = TRUE
  DedupJob = FALSE
  LLMMerge = FALSE
  UserLinks = FALSE
  MaxOps = 3
INVARIANT NoCycle
CHECK_DEADLOCK FALSE

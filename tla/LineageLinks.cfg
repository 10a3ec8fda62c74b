SPECIFICATION Spec
CONSTANTS
  Ids = {i1, i2, i3}
  Null = Null
  Classes = {c1}
  Slots = {s1}
  Fact = Fact
  Writers = {w1, w2}
  DedupActions = {"supersede"}
  Modes = {"off", "sync", "async"}
  SplitMerge = TRUE
  QueueCap = 2
  Degrades = FALSE
  DedupJob = FALSE
  LLMMerge = FALSE
  UserLinks = FALSE
  MaxOps = 6
SYMMETRY Symmetry
INVARIANTS TypeOK NoCycle SlotSuccession FactsByFacts
CHECK_DEADLOCK FALSE

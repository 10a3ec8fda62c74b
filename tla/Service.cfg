SPECIFICATION ServiceSpec
CONSTANTS
    Captures = {c1, c2}
    Sessions = {s1, s2}
    NoSession = NoSession
    MaxTokens = 2
    MaxBuffers = 1
    SemCap = 1
    MaxUpsets = 1
    SessionsOf <- MCSessionsOf
    Edited = {c1}
    Tasks = {j1, j2, j3}
    Flushers = {f1, f2}
    QueueRoom = 2
    Docs = {1, 2, 3}
    LongTexts = {a}
    Declined = {d}
    Poison = {p}
    ShortTexts = {}
    NoText = NoText
    DocWriters = {w1}
    ChunkBatch = 1
    ScanCap = 3
    SameInstant = FALSE
    MaxDocWrites = 1
    MaxTroubles = 1
INVARIANTS
    ServiceTypeOK
    OneHome
    DistilledOnce
    StampedMeansTried
    FlushMeansDone
    AcceptedIsRun
    ChunksMatchText
PROPERTIES
    NoneWaitsForever
    FlushReturns
    NoneStarves
CHECK_DEADLOCK FALSE

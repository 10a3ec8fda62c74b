SPECIFICATION UpkeepSpec
CONSTANTS
    Mems = {m1, m2}
    WorkingTTL = 1
    EpisodicTTL = 2
    CustomTTLs = {3}
    ShortTermCap = 1
    TombstoneTTL = 1
    PromoteMinAccess = 1
    PurgeBatch = 1
    Writes <- MCWrites
    Rewrites <- MCRewrites
    MaxTime = 2
    MaxRequests = 3
    Facts = {f1}
    Jobs = {j1, j2}
    Seeds = {40}
    Given = {60}
    Cooldown = 1
    Grace = 1
    DecayPerTick = 10
    DemoteAfter = 1
    DemotedTTL = 1
    MaxDay = 3
    MaxUses = 1
    MaxJobs = 2
    KeyNames = {k1, k2}
    FileNames = {}
    Nobody = Nobody
    Shell = Shell
    EnvAdmin = FALSE
    KeyRequests = {r1, r2}
    MaxSecrets = 2
    MaxAsks = 2
    Entries = {e1, e2}
    Shared = shared
    Tenant = tenant
    Outside = {other}
    NoSpace = NoSpace
    Gone = Gone
    Columns = {home, default}
    Projects = {p1}
    MaxChanges = 1
    MaxCommands = 2
    Segments = {"a", "b"}
    Depth = 2
    MaxEntries = 3
    MaxLinks = 1
    MaxListed = 2
    Scores = {2, 5}
    MaxRanked = 5
    MaxTwins = 1
    Quotas <- MCQuotas
    Sizes = {2, 4}
    Overlaps = {0, 1, 3}
    Caps = {0, 2}
    MaxLength = 6
SYMMETRY Symmetric
INVARIANTS
    UpkeepTypeOK
    ShortTermExpires
    RecallExtends
    ForgottenStaysGone
    InvalidatedStaysDown
    GrowthIsEarned
    ExpiryFollowsTier
    RestrictionsHold
    CacheTrue
    MovedWhole
    ReadSetExact
    CutSpares
    PromotionsAreEarned
    NothingSkipped
    EachPartGains
PROPERTIES
    LiveLost
    RecalledNotDemoted
    RestoresStrandedOnly
CHECK_DEADLOCK FALSE

SPECIFICATION Spec
CONSTANTS
    Parts = {"MochatInbox", "KeyStores", "GovernanceBoard", "WorkDesk", "Compliance", "ResilientCache", "MemoryStore", "KnowledgeIndex", "DataStores", "Enclave", "Skills"}
    a = a
    b = b
    Window = 5
    Limit = 2
    Lag = 2
    MaxEvents = 7
    MaxRestarts = 1
    KsProcs = {a, b}
    KsNames = {"m", "n"}
    KsMax = 5
    GbProposals = {p, q}
    GbLimit = 1
    GbMaxPolls = 2
    GbMaxResolves = 2
    GbMaxFaults = 1
    WdWorkers = {a, b, c}
    WdIssues = {i}
    WdLease = 2
    WdTtl = 2
    WdMaxTime = 4
    WdMaxVotes = 3
    WdMaxSteps = 3
    CpTtl = 1
    CpMaxTime = 5
    CpMaxRecords = 3
    CpMaxPrunes = 2
    RcThreads = {a, b}
    RcKeys = {"k", "l"}
    RcTagNames = {"x"}
    RcMaxItems = 2
    RcThreshold = 2
    RcMaxSets = 2
    RcMaxOps = 2
    MsSessions = {s1, s2}
    MsOrgs = {o1, o2}
    MsBatch = 2
    MsMaxTurns = 2
    MsMaxFaults = 1
    MsMaxCrashes = 1
    MsMaxDeletes = 1
    KbMaxText = 5
    KbMaxSize = 4
    KbChunks = {a, b, c}
    KbCallers = {a, b}
    KbMaxAdds = 4
    DsTasks = {a, b}
    DsTenants = {s1, s2}
    DsKeys = {a, b}
    DsMaxWrites = 1
    DsMaxBackups = 1
    DsMaxDepth = 2
    DsMaxVersion = 3
    EnCallers = {a, b}
    EnMaxStarts = 4
    EnStrict = TRUE
    EnKeyIds = {1, 2}
    EnMaxEnvelopes = 3
    SkNames = {a, b}
    SkPairs <- MCSkPairs
    SkInstalls = {s1, s2}
    SkMaxPieces = 2
    SkMaxRuns = 1
    SkMaxIterations = 3
    SkTarget = 8
INVARIANTS
    DecisionsRight
    
    
PROPERTIES
    NeverUndone
CHECK_DEADLOCK FALSE

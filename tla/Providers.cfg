SPECIFICATION Spec
CONSTANTS
    Parts = {"ChannelResilience", "CircuitBreaker", "ModelRouter", "LlmChat", "LlmRequest", "Terminal", "CodexProvider", "LocalProviders", "TokenLifecycle", "ApiKeys", "ToolGate", "PolicyRules"}
    RlCallers = {a, b}
    RlChannels = {c1, c2}
    RlRate = 1
    RlCapacity = 1
    RlTimeout = 3
    RlMaxTime = 3
    RlMaxGrants = 3
    MaxBackoff = 4
    MaxRetries = 4
    Samples = 2
    CbCalls = {a, b}
    CbThreshold = 2
    CbProbes = 2
    CbRecovery = 2
    CbWindow = 2
    BhMax = 1
    CbMaxTime = 6
    CbMaxLog = 3
    MrTenths = {0, 10}
    MrFamilies = {"claude-3-5", "gemini-1.5", "deepseek-r1", "other"}
    LcCallers = {a, b}
    LcRetries = 1
    LcMaxCalls = 2
    LcMaxFaults = 3
    LrMaxMsgs = 5
    LrMaxDeltas = 3
    TmCallers = {a, b}
    TmMaxVersion = 2
    TmMaxBoxes = 2
    TmMaxRuns = 2
    CxCalls = {a, b}
    CxMaxTurns = 2
    LpCallers = {a, b}
    LpMaxServers = 3
    LpMaxChats = 3
    TkAccessLife = 1
    TkRefreshLife = 2
    TkRevokedFor = 2
    TkMaxTokens = 4
    TkMaxGone = 2
    TkMaxTime = 3
    AkPrefixes = {"p", "q"}
    AkScopes = {"read"}
    AkLife = 1
    AkMinutes = {0, 2, 9}
    AkLeast = 1
    AkMost = 2
    AkMaxKeys = 2
    AkMaxGrants = 1
    AkMaxTime = 4
    TgMaxCalls = 3
    TgMaxSame = 2
    TgWindow = 1
    TgKeepSteps = 2
    TgMaxRecords = 4
    TgMaxTickets = 3
    TgMaxCount = 2
    TgMaxStep = 3
    PrTasks = {a, b}
    PrMaxRules = 2
    PrMaxDepth = 2
    PrMost = 2
    PrMaxTime = 3
INVARIANTS
    
    LimitsKept
    

    
CHECK_DEADLOCK FALSE

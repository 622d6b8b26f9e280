SPECIFICATION Spec
CONSTANTS
    Parts = {"ChannelManager", "Heartbeats", "SubagentPool", "Sandbox", "Extensions", "Inference", "Supervisor", "Conversation"}
    Chans = {c1, c2}
    MaxOut = 2
    HbMaxStarts = 3
    HbMaxTriggers = 1
    HbDeadAfter = 3
    HbIsolateAfter = 2
    HbCallers = {a, b}
    HbMaxAttempts = 3
    HbMaxCalls = 7
    SpTasks = {a, b, c}
    SpMost = 2
    SpMaxHistory = 3
    SpMaxCancels = 1
    SpMaxDrains = 1
    SbMaxBytes = 3
    SbMaxFiles = 2
    SbMaxEntries = 3
    SbMaxPath = 4
    XtCallers = {a, b}
    XtMaxCalls = 3
    XtMaxPrints = 1
    XtPlugins = 2
    XtInterval = 2
    XtMaxTime = 5
    InRequests = {a, b}
    InAsked = {"none"}
    InThreshold = 2
    InRecovery = 2
    InMaxTime = 2
    InLength = 4
    InMask = 2
    Services = {s1, s2}
    Diagnostics = {"low_memory"}
    MaxRestarts = 1
    Cooldown = 1
    MaxCrashes = 2
    MaxCalls = 2
    MaxHealth = 1
    MaxTime = 4
    CvChats = {a, b}
    CvMaxTurns = 2
    CvMaxStops = 1
    CvMaxExtra = 1

    
    
PROPERTIES
    NothingAfterEnd
    
CHECK_DEADLOCK FALSE

SPECIFICATION Spec
CONSTANTS
    Parts = {"Telegram", "Discord", "Email", "WhatsApp", "MochatLink", "MochatPanel", "OutboundText", "Feishu", "Matrix", "DingTalk", "Slack"}
    MaxUpdates = 3
    ThreadCache = 2
    Chunks = 2
    MaxGateway = 2
    MaxMsgs = 1
    MaxSends = 1
    Mails = {m1, m2}
    MaxUids = 1
    MaxGot = 2
    MaxErrors = 1
    MaxCrashes = 1
    WaWindow = 2
    WaLag = 1
    MaxWaMsgs = 4
    MaxWaConns = 3
    Targets = {t1}
    MaxConnects = 2
    PanelWindow = 3
    PollLimit = 1
    PollLag = 1
    MaxPanelMsgs = 4
    PanelMentions = {{}, {2}, {1, 3}}
    MaxText = 6
    MaxLen = 3
    MaxElems = 5
    MaxMedia = 2
    MaxTables = 1
    FsWindow = 3
    FsLag = 1
    MaxFsMsgs = 4
    MaxRuns = 2
    Files = {f1, f2}
    MaxMxMsgs = 2
    MaxSyncs = 1
    Life = 3
    Margin = 2
    MaxDelay = 1
    MaxNow = 3
    MaxAnswers = 2
    MaxMediaRefs = 1
    MaxDtMsgs = 1
    MaxSlackMsgs = 1
    MaxLostAcks = 1
INVARIANTS
    
    ChannelsSound
PROPERTIES
    MessagesHandled
    
CHECK_DEADLOCK FALSE

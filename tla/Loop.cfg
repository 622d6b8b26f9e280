CONSTANTS
    Chats = {a, b}
    MaxTurns = 3
    MaxDirect = 1
    MaxStops = 1
    MaxSends = 1
    MaxSubs = 1
SPECIFICATION FairSpec
INVARIANT TypeOK
INVARIANT AnsweredOrSent
INVARIANT SentToOwnChat
INVARIANT LockExact
PROPERTY StopWaits
PROPERTY TurnsEnd
CHECK_DEADLOCK FALSE

CONSTANTS
    Sessions = {s1}
    Window = 3
    MaxTurns = 5
    MaxCrashes = 1
SPECIFICATION FairSpec
INVARIANT TypeOK
INVARIANT RecentKept
INVARIANT Durable
PROPERTY OffsetGrows
 
PROPERTY ConsolidationEnds
CHECK_DEADLOCK FALSE

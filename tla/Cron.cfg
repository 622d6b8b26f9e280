CONSTANTS
    OneShots = {j1}
    Kept = {j2}
    Recurring = {j3}
    Every = 2
    MaxTime = 3
    MaxApi = 2
    MaxRuns = 1
    MaxExt = 1
    MaxStops = 1
SPECIFICATION FairSpec
INVARIANT TypeOK
INVARIANT TimerArmed
INVARIANT StoreSaved
PROPERTY DueIsExecuted
PROPERTY ExternalEditsHonoured
CHECK_DEADLOCK FALSE

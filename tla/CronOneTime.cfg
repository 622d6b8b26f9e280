CONSTANTS
    OneShots = {j1}
    Kept = {}
    Recurring = {j3}
    Every = 2
    MaxTime = 4
    MaxApi = 3
    MaxRuns = 0
    MaxExt = 0
    MaxStops = 0
SPECIFICATION Spec
INVARIANT OneTimeExecution
CHECK_DEADLOCK FALSE

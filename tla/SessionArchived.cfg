CONSTANTS
    Sessions = {s1}
    Window = 3
    MaxTurns = 4
    MaxCrashes = 0
SPECIFICATION Spec
INVARIANT ConsolidatedIsArchived
CHECK_DEADLOCK FALSE

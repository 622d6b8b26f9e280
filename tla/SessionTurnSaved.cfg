CONSTANTS
    Sessions = {s1}
    Window = 3
    MaxTurns = 1
    MaxCrashes = 0
SPECIFICATION Spec
INVARIANT TurnSavedWhole
CHECK_DEADLOCK FALSE

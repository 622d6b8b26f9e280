CONSTANTS
    Nodes = {n1, n2}
    Msgs = {m1, m2}
    MaxSize = 2
    Redis = TRUE
    MaxBacklog = 1
    MaxFailures = 3
SPECIFICATION Spec
INVARIANTS Bounded Fifo
CHECK_DEADLOCK FALSE

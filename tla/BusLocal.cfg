CONSTANTS
    Nodes = {n1}
    Msgs = {m1, m2, m3, m4}
    MaxSize = 1
    Redis = FALSE
    MaxBacklog = 0
    MaxFailures = 0
SPECIFICATION FairSpec
INVARIANTS TypeOK NoSilentLoss NoDuplicate
PROPERTIES ImplementsMailbox AcceptedIsConsumed
CHECK_DEADLOCK FALSE

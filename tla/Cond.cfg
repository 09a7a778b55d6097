CONSTANTS
    Threads = {1, 2, 3}
    MaxCalls = 2
SPECIFICATION FairSpec
INVARIANTS
    TypeOK
    LockKept
PROPERTIES
    BroadcastReaches
    CallsReturn
CHECK_DEADLOCK FALSE

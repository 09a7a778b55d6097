CONSTANTS
    Threads = {1, 2}
    MaxCalls = 2
SPECIFICATION Spec
INVARIANT LockReleased
CHECK_DEADLOCK FALSE

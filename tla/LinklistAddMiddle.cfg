CONSTANTS
    Threads = {1}
    Items = {1, 2}
    Junk = 9
    Nodes = {1, 2, 3, 4}
    Methods = {"add_end", "add_middle", "get_middle"}
    AddIndexes = {1, 2}
    Indexes = {0, 1, 2, 3, 5}
    CallerLocks = FALSE
SPECIFICATION Spec
INVARIANT AddedAtIndex
CHECK_DEADLOCK FALSE

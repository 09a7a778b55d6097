CONSTANTS
    Threads = {1, 2}
    Items = {1, 2}
    Junk = 9
    Nodes = {1, 2, 3}
    Methods = {"len", "get_first", "get_end", "get_middle", "rm_first", "rm_end", "rm_middle", "add_first", "add_end", "add_middle", "destroy"}
    AddIndexes = {0}
    Indexes = {0, 1, 3}
    CallerLocks = TRUE
SPECIFICATION FairSpec
INVARIANTS
    TypeOK
    ListShape
PROPERTIES
    ImplementsDeque
    Released
CHECK_DEADLOCK FALSE

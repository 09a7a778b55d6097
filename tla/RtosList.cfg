CONSTANTS
    Items = {1, 2, 3}
    Lists = {11, 12}
    SortedLists = {11}
    Values = {0, 1, 2}
    MaxDelay = 2
SPECIFICATION Spec
INVARIANTS
    TypeOK
    Rings
    Counted
    Sorted
PROPERTIES
    NoOvertaking
    ImplementsRing

CONSTANTS
    Procs = {1, 2}
    NsPerMs = 2
    MsPerSec = 3
    IntRange = 16
    MaxInterval = 3
    LockMs = {2, 3}
    FirstNow = {2}
    MaxNow = 8
    MaxSegs = 2
    MaxStarts = 3
    MaxWrites = 1
SPECIFICATION FairSpec
INVARIANTS
    TypeOK
    MutualExclusion
    NoLostUpdate
    OneSegment
PROPERTIES
    TmlockPatient
    TmlockReturns
CHECK_DEADLOCK FALSE

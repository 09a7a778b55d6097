CONSTANTS
    Clients = {11, 13}
    KeyOf <- MCKeyOf
    Names <- MCNames
    SrvName = "srv"
    AskFlag = FALSE
    BcastFlag = TRUE
    AskLens = {3}
    ReplyLens = {3}
    EventLens = {3}
    ToutLimit = 0
    Mortal = {}
    Destroyers = {13}
    SrvDestroys = FALSE
    SrvPidBase = 100
    MaxClient = 2
    Cap = 2
    MaxQid = 4
    MaxAsk = 0
    MaxSlow = 0
    MaxStarts = 2
    MaxEvents = 2
SPECIFICATION Spec
INVARIANTS
    TypeOK
    ListSound
    RegisteredIsListed
    EventsInOrder
CHECK_DEADLOCK FALSE

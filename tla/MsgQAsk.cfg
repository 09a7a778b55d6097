CONSTANTS
    Clients = {11, 12}
    KeyOf <- MCKeyOf
    Names <- MCNames
    SrvName = "srv"
    AskFlag = TRUE
    BcastFlag = FALSE
    AskLens = {3, 2036}
    ReplyLens = {3, 0, 2036}
    EventLens = {3}
    ToutLimit = 1
    Mortal = {12}
    Destroyers = {12}
    SrvDestroys = TRUE
    SrvPidBase = 100
    MaxClient = 2
    Cap = 2
    MaxQid = 4
    MaxAsk = 3
    MaxSlow = 1
    MaxStarts = 2
    MaxEvents = 0
SPECIFICATION FairSpec
INVARIANTS
    AnswersInOrder
    LagBounded
    BacklogBounded
PROPERTY InitTerminates

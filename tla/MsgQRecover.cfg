CONSTANTS
    Clients = {11}
    KeyOf <- MCKeyOf
    Names <- MCNames
    SrvName = "srv"
    AskFlag = FALSE
    BcastFlag = TRUE
    AskLens = {3}
    ReplyLens = {3}
    EventLens = {3}
    ToutLimit = 1
    Mortal = {}
    Destroyers = {}
    SrvDestroys = FALSE
    SrvPidBase = 100
    MaxClient = 4
    Cap = 4
    MaxQid = 5
    MaxAsk = 0
    MaxSlow = 2
    MaxStarts = 3
    MaxEvents = 2
SPECIFICATION FairSpec
INVARIANT ListSound
PROPERTY EventuallyListed

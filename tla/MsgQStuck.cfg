CONSTANTS
    Clients = {11}
    KeyOf <- MCKeyOf
    Names <- MCNames
    SrvName = "srv"
    AskFlag = FALSE
    BcastFlag = TRUE
    AskLens = {3}
    ReplyLens = {3}
    EventLens = {3}
    ToutLimit = 0
    Mortal = {11}
    Destroyers = {}
    SrvDestroys = FALSE
    SrvPidBase = 100
    MaxClient = 2
    Cap = 2
    MaxQid = 5
    MaxAsk = 0
    MaxSlow = 0
    MaxStarts = 1
    MaxEvents = 2
SPECIFICATION FairSpec
PROPERTY MonitorReturns
CHECK_DEADLOCK FALSE

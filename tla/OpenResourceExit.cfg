SPECIFICATION Spec
CONSTANTS
    g1 = g1
    g2 = g2
    s1 = s1
    Groups = {g1, g2}
    Resources = {s1}
    ResourcesOf <- Shared
    Entries = 1
    RangeMode = FALSE
    OpenTime <- SharedTimes
    DefaultIpOpenTime = 1
    ACOpenCompensationTime = 2
    TempPortOpenTime = 4
    AgentTimeout = 2
    ServerTimeout = 1
    ReqBound = 2
    MaxTime = 6
CHECK_DEADLOCK FALSE
INVARIANT ExitWithinASecond

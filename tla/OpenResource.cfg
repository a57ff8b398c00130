SPECIFICATION Spec
CONSTANTS
    g1 = g1
    g2 = g2
    s1 = s1
    Groups = {g1, g2}
    Resources = {s1}
    ResourcesOf <- Shared
    Entries = 2
    RangeMode = TRUE
    OpenTime <- SharedTimes
    DefaultIpOpenTime = 1
    ACOpenCompensationTime = 1
    TempPortOpenTime = 4
    AgentTimeout = 1
    ServerTimeout = 1
    ReqBound = 2
    MaxTime = 3
CHECK_DEADLOCK FALSE
INVARIANT TypeOK OpenWhilePromised

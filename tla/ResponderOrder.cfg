SPECIFICATION Spec
CONSTANTS
    w1 = w1
    w2 = w2
    Workers = {w1, w2}
    PeerTypes = {"ART"}
    MinimalRecvInterval = 1
    CookieRoundTripTime = 1
    CookieRegenerateTime = 1
    StaleTime = 1
    ThreatCountBeforeBlock = 1
    OverloadStates = {FALSE}
    ThreatBound = 2
    SendBound = 3
    MaxTime = 6
CHECK_DEADLOCK FALSE
SYMMETRY Symmetry
PROPERTY BlockEarned AcceptedInOrder

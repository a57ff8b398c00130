SPECIFICATION Spec
CONSTANTS
    w1 = w1
    w2 = w2
    Workers = {w1, w2}
    PeerTypes = {}
    MinimalRecvInterval = 1
    CookieRoundTripTime = 1
    CookieRegenerateTime = 1
    StaleTime = 2
    ThreatCountBeforeBlock = 1
    OverloadStates = {TRUE}
    ThreatBound = 1
    SendBound = 3
    MaxTime = 5
CHECK_DEADLOCK FALSE
SYMMETRY Symmetry
INVARIANT TypeOK HeldCookieWorks

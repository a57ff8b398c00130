SPECIFICATION Spec
CONSTANTS
    w1 = w1
    w2 = w2
    Workers = {w1, w2}
    PeerTypes = {"LST"}
    MinimalRecvInterval = 1
    CookieRoundTripTime = 1
    CookieRegenerateTime = 1
    StaleTime = 3
    ThreatCountBeforeBlock = 1
    OverloadStates = {TRUE, FALSE}
    ThreatBound = 2
    SendBound = 3
    MaxTime = 5
CHECK_DEADLOCK FALSE
PROPERTY ClampOnlyLowers

SPECIFICATION FairSpec
CONSTANTS
    v1 = v1
    Servers = {v1}
    ServerDiscoveryRetryBeforeFail = 2
    ReportToServerInterval = 1
    ConnBound = 2
INVARIANTS TypeOK FailedNotConnected
PROPERTIES ComesBack InputClosesAgain
CHECK_DEADLOCK FALSE

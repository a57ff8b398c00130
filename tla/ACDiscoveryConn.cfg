SPECIFICATION Spec
CONSTANTS
    v1 = v1
    Servers = {v1}
    ServerDiscoveryRetryBeforeFail = 2
    ReportToServerInterval = 1
    ConnBound = 2
INVARIANT ConnAvailable
CHECK_DEADLOCK FALSE

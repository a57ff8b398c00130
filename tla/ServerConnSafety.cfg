SPECIFICATION Spec
CONSTANTS
    UdpAddrs = {a1, a2}
    DataChannels = {}
    ACIds = {x1}
    DBIds = {d1}
    MaxConcurrentConnection = 1
    PreCheckThreatCountBeforeBlock = 0
    PacketQueueSizePerConnection = 1
    RecvQueueSize = 1
    ConnBound = 2
SYMMETRY Symmetry
INVARIANTS TypeOK TableMatchesRoutines
PROPERTIES OnlineKept BlockedStaysOut
CHECK_DEADLOCK FALSE

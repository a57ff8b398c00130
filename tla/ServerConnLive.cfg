SPECIFICATION FairSpec
CONSTANTS
    UdpAddrs = {a1}
    DataChannels = {w1}
    ACIds = {x1}
    DBIds = {}
    MaxConcurrentConnection = 1
    PreCheckThreatCountBeforeBlock = 0
    PacketQueueSizePerConnection = 1
    RecvQueueSize = 1
    ConnBound = 2
INVARIANTS OverloadOnlyUnderLoad
PROPERTIES ReaderReleased StopDrains
CHECK_DEADLOCK FALSE

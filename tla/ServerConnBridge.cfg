SPECIFICATION Spec
CONSTANTS
    UdpAddrs = {a1}
    DataChannels = {w1}
    ACIds = {}
    DBIds = {}
    MaxConcurrentConnection = 1
    PreCheckThreatCountBeforeBlock = 0
    PacketQueueSizePerConnection = 1
    RecvQueueSize = 1
    ConnBound = 2
SYMMETRY Symmetry
PROPERTIES DataChannelBridged
CHECK_DEADLOCK FALSE

SPECIFICATION Spec
CONSTANTS
    Reqs = {r1}
    SendQueueSize = 1
    RecvQueueSize = 1
    ReplyBound = 2
INVARIANTS NoSendOnClosedChannel
CHECK_DEADLOCK FALSE

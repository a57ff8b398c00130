SPECIFICATION FairSpec
CONSTANTS
    Reqs = {r1, r2}
    SendQueueSize = 1
    RecvQueueSize = 1
    ReplyBound = 2
INVARIANTS TypeOK AtMostOneAnswer OnePlace
PROPERTIES ImplementsRequest EventuallyAnswered
CHECK_DEADLOCK FALSE

SPECIFICATION FairSpec
CONSTANTS
    a = a
    h = h
    Cpus = {c1, c2}
    Handlers = {h1}
    Packets <- MCPackets
    Replies <- MCReplies
    Operations <- MCOperations
    Neighbours <- MCNeighbours
    TempOpenTime = 1
    ReplyTime = 1
    MaxEntries = 1
    OperationBound = 2
    MaxTime = 4
CHECK_DEADLOCK FALSE
INVARIANTS TypeOK PassedInTime
PROPERTY RetransmissionPasses

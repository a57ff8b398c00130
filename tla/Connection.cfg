SPECIFICATION FairSpec
CONSTANTS
    Senders = {s1}
    reader = reader
    owner = owner
    Closers = {k1}
    Requests = {r1}
    NoRequest = NoRequest
    Id <- MCId
    QueueSize = 2
    PacketBound = 3
CHECK_DEADLOCK FALSE
INVARIANTS TypeOK AtMostOneLost MissedOnlyLate
PROPERTIES NobodyStuck CloseReturns

SPECIFICATION PoolSpec
CONSTANTS
    Users = {u1, u2, u3}
    Transactions = {t1}
    Packets = {p1, p2, p3, p4}
    Buffers = {b1, b2}
    none = none
    MaxBuffers = 1
    Word = 16
    DropBound = 1
    Further = TRUE
CHECK_DEADLOCK FALSE
INVARIANT Exclusive

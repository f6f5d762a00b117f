CONSTANTS
    c1 = c1
    c2 = c2
    c3 = c3
    u1 = u1
    u2 = u2
    Conns = {c1, c2, c3}
    Uids = {u1, u2}
    UidOf <- MCUidOf
    Server = Server
    Workers = {w1, w2}
    Sendable <- MCSendable
    MaxSent = 2
    Leavers = {c1}
    NoConn = NoConn
SPECIFICATION Spec
PROPERTY NoBlocksLeft
CHECK_DEADLOCK FALSE

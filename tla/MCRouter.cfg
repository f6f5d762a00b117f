CONSTANTS
    r1 = r1
    s1 = s1
    s2 = s2
    s4 = s4
    l1 = l1
    l2 = l2
    u1 = u1
    u2 = u2
    u4 = u4
    b1 = b1
    b2 = b2
    b3 = b3
    Routers = {r1}
    Servers = {s1, s2, s4}
    Users = {u1, u2, u4}
    Links = {l1, l2}
    RouterOf <- MCRouterOf
    Workers = {w1, w2, w3}
    LoopOf <- MCLoopOf
    ServerOf <- MCServerOf
    Broadcasts = {b1, b2, b3}
    Kinds <- MCKinds
    Origin <- MCOrigin
    Sender <- MCSender
    Nobody = Nobody
SPECIFICATION FairSpec
INVARIANTS
    TypeOK
    WorkerLeft
    OriginKept
    NoEcho
PROPERTY SignalReachesAll
CHECK_DEADLOCK FALSE

CONSTANTS
    u1 = u1
    u2 = u2
    req1 = req1
    req2 = req2
    ping1 = ping1
    gat1 = gat1
    misc1 = misc1
    misc2 = misc2
    resp2 = resp2
    Uids = {u1, u2}
    Server = Server
    Workers = {w1, w2, w3}
    NoWorker = NoWorker
    Calls = {req1, resp2, ping1, gat1, misc1, misc2}
    Op <- MCOp
    NoCall = NoCall
    OnMessage = OnMessage
    MaxMuids = 2
    MaxAsks = 1
    Mixes = {{req1, gat1, u1}, {req1, misc1, u1},
        {misc1, misc2, u1, u2}, {req1, ping1}, {resp2}}
SPECIFICATION Spec
SYMMETRY MCSymmetry
INVARIANTS
    TypeOK
    AnswerFound
    SentOnce
    WaiterAlive
    LockReleased
CHECK_DEADLOCK FALSE

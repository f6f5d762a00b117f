CONSTANTS
    u1 = u1
    u2 = u2
    req1 = req1
    req2 = req2
    ping1 = ping1
    gat1 = gat1
    misc1 = misc1
    misc2 = misc2
    resp2 = resp2
    Uids = {u1, u2}
    Server = Server
    Workers = {w1, w2}
    NoWorker = NoWorker
    Calls = {req1}
    Op <- MCOp
    NoCall = NoCall
    OnMessage = OnMessage
    MaxMuids = 1
    MaxAsks = 2
    Mixes = {{req1, u1, u2}}
SPECIFICATION Spec
INVARIANT RequestsKept
CHECK_DEADLOCK FALSE

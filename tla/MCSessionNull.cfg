CONSTANTS
    u1 = u1
    u2 = u2
    req1 = req1
    req2 = req2
    ping1 = ping1
    gat1 = gat1
    misc1 = misc1
    misc2 = misc2
    resp2 = resp2
    Uids = {u1}
    Server = Server
    Workers = {w1, w2}
    NoWorker = NoWorker
    Calls = {req1, req2}
    Op <- MCOp
    NoCall = NoCall
    OnMessage = OnMessage
    MaxMuids = 1
    MaxAsks = 1
    Mixes = {{req1, req2, u1}}
SPECIFICATION Spec
INVARIANT ResponseReturned
CHECK_DEADLOCK FALSE

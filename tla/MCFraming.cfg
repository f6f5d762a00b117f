CONSTANTS
    p1 = p1
    p2 = p2
    p3 = p3
    p4 = p4
    Packets = {p1, p2, p3, p4}
    Payload <- MCPayload
    HeaderSize = 2
    BufferSize = 2
    Room = 6
    MaxNoise = 2
    MaxFailures = 1
SPECIFICATION FairSpec
INVARIANTS
    TypeOK
    StreamKept
    NothingKeptBack
PROPERTIES
    ImplementsFifo
    
CHECK_DEADLOCK FALSE

CONSTANTS
    u1 = u1
    u2 = u2
    Users <- MCUsers
    MaxBlocks <- MCMaxBlocks
    QueueHeadStep = 2
    HashTableSize = 2
    HashFactor = 3
    MaxAddress = 6
    Choices = 1
    Data = {x}
    NoData = NoData
SPECIFICATION Spec
CHECK_DEADLOCK FALSE
INVARIANTS TypeOK TableExact OneHolder SlotsInBounds
PROPERTY ImplementsFifo

SPECIFICATION Spec
CONSTANTS
    Data = {d1, d2}
    NoData = NoData
    WeakMemory = TRUE
    Modulus = 8
    Capacity = 4
    PublishBatch = 2
INVARIANTS
    CursorOrder
    NoDataRace
    SizeInRange
    EmptyIsHonest
    LagBelowBatch
PROPERTY ImplementsFifo

\* A batch larger than the ring: nothing is ever published because it is due.
SPECIFICATION FairSpec
CONSTANTS
    Data = {d1}
    NoData = NoData
    WeakMemory = TRUE
    Modulus = 4
    Capacity = 2
    PublishBatch = 3
PROPERTY Progress

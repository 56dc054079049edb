\* flush() by both threads.
SPECIFICATION FlushSpec
CONSTANTS
    Data = {d1}
    NoData = NoData
    WeakMemory = FALSE
    Modulus = 4
    Capacity = 2
    PublishBatch = 2
    FlusherSets <- OnlyBoth
INVARIANT FlushShowsAll

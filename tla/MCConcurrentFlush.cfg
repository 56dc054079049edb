\* flush() by the producer, and by both threads: with both, items may stay hidden
\* and what is popped may be stale, but no place is skipped or taken twice.
SPECIFICATION FairFlushSpec
CONSTANTS
    Data = {d1, d2}
    NoData = NoData
    WeakMemory = TRUE
    Modulus = 4
    Capacity = 2
    PublishBatch = 2
    FlusherSets <- ProducerOrBoth
INVARIANT ProducersFlushShowsAll
PROPERTIES
    FlushedItemsArePopped
    

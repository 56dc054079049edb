\* enqueue_bulk that may fail half way; the other parts as small as they can be.
SPECIFICATION Spec
CHECK_DEADLOCK FALSE
CONSTANTS
    t1 = t1
    t2 = t2
    f1 = f1
    f2 = f2
    f3 = f3
    c1 = c1
    IndexValues = 16
    BLOCK_SIZE = 2
    Blocks = {1, 2, 3}
    DequeueThreads = {t1, t2}
    SubQueues <- BulksThatFail
    NoElement = NoElement
    NoBlock = NoBlock
    INVALID_BLOCK_BASE = 1
    Nodes = {1}
    FreeListThreads = {f1}
    NoNode = NoNode
    Producers = {1}
    TokenThreads = {t1}
    Consumers = {c1}
    Quota = 1
    OffsetValues = 2
    MaxSize = 1
    Counts = {2}
    Null = Null
    ThreadIds = {t1}
    Hashes <- OneSlot
    InitialHashSize = 4
    HashedProducers = {1}
    NoProducer = NoProducer
    invalid_thread_id = invalid_thread_id
    invalid_thread_id2 = invalid_thread_id2
INVARIANT ElementsAreIndexed

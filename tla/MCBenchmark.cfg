\* A ring one slot larger than a batch.
SPECIFICATION FairBenchSpec
CONSTANTS
    NoData = NoData
    WeakMemory = FALSE
    Width = 4
    Data <- Payloads
    Modulus = 8
    Capacity = 4
    PublishBatch = 3
INVARIANTS
    CountsWhatWasPopped
    LeavesAtMostABatch
PROPERTY Returns

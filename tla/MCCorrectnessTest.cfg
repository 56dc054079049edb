\* Eight items through four slots, three to a batch: two items are left for
\* flush(), and the cursors wrap.
SPECIFICATION FairTestSpec
CONSTANTS
    NoData = NoData
    WeakMemory = TRUE
    N = 8
    Data <- ItemsPushed
    Modulus = 8
    Capacity = 4
    PublishBatch = 3
INVARIANTS
    FlushIsOrdered
    FlushRevealsLessThanBatch
PROPERTY Passes

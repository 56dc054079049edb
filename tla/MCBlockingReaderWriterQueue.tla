-------------------- MODULE MCBlockingReaderWriterQueue --------------------
EXTENDS BlockingReaderWriterQueue

\* One block of 2 slots, then one of 4; a circle of five blocks of 2 slots; and
\* one to three blocks of 2 slots, for a blocking queue and for a plain one.
Calls == {"try_enqueue", "enqueue", "remove", "peek"}
Grows  == [maxBlockSize |-> 4, size |-> 1, blocksLeft |-> 1, serials |-> 3,
           calls |-> Calls, blocking |-> FALSE]
Circle == [maxBlockSize |-> 2, size |-> 4, blocksLeft |-> 0, serials |-> 1,
           calls |-> {"try_enqueue", "remove"}, blocking |-> FALSE]
Plain  == [maxBlockSize |-> 2, size |-> 1, blocksLeft |-> 2, serials |-> 3,
           calls |-> {"enqueue", "remove"}, blocking |-> FALSE]
Waits  == [maxBlockSize |-> 2, size |-> 1, blocksLeft |-> 1, serials |-> 3,
           calls |-> Calls, blocking |-> TRUE]
\* Constructed for no element at all, as fits one that grows: a block of one slot.
Empty == [maxBlockSize |-> 2, size |-> 0, blocksLeft |-> 1, serials |-> 3,
          calls |-> {"enqueue", "remove"}, blocking |-> FALSE]
ConfigsEmpty == {Empty}
ConfigsUsed == {Grows, Circle, Plain, Waits}
=============================================================================

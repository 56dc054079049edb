------------------------------ MODULE SubQueue ------------------------------
(***************************************************************************)
(* The sub-queues of moodycamel::ConcurrentQueue                           *)
(* (includes/concurrentqueue.h): one of either kind, its producer, and the *)
(* threads that dequeue.                                                   *)
(***************************************************************************)
EXTENDS ProducerBase

CONSTANT INVALID_BLOCK_BASE

VARIABLES pr_blockIndexSlotsUsed, pr_blockIndexSize, pr_blockIndexFront, entries

prVars == <<pr_blockIndexSlotsUsed, pr_blockIndexSize, pr_blockIndexFront>>

Explicit == INSTANCE ExplicitProducer
Implicit == INSTANCE ImplicitProducer

subQueueVars == <<sub, counterVars, tailBlock, blockVars, freeBlocks, headers, eq, dq,
                  failedAssert, prVars, entries>>

SubQueueInit ==
    /\ BaseInit
    /\ IF sub.isExplicit
       THEN Explicit!ExplicitInit /\ entries = << >>
       ELSE /\ Implicit!ImplicitInit
            /\ pr_blockIndexSlotsUsed = 0 /\ pr_blockIndexSize = 0 /\ pr_blockIndexFront = 0

SubQueueNext ==
    \/ sub.isExplicit /\ Explicit!ExplicitNext /\ UNCHANGED entries
    \/ ~sub.isExplicit /\ Implicit!ImplicitNext /\ UNCHANGED prVars

SubQueueSpec == SubQueueInit /\ [][SubQueueNext]_subQueueVars

-----------------------------------------------------------------------------
\* No assert() of the code fails: a slot is flagged empty once, no block counts
\* more empty slots than it has, the tail is not behind the head, the entry found
\* in the index is that of the base asked for, and is not empty
\* (concurrentqueue.h:1601, 1608, 1623, 1631, 1873, 2091, 2494, 2658, 2957-2962).
AssertionsHold == ~failedAssert

\* The block that dequeue c moves elements out of.
BlockUsedBy(c) == IF sub.isExplicit THEN Explicit!BlockAt(c) ELSE entries[Implicit!EntryAt(c)].value

\* The block a dequeue was led to, by an index that may be out of date or
\* replaced, holds the elements whose indices it took, until it moves them out
\* (concurrentqueue.h:2008-2017, 2272-2286, 2565-2568, 2806-2813).
FindsItsElements ==
    \A c \in DequeueThreads :
        dq[c].pc = "move" =>
            /\ BlockUsedBy(c) # NoBlock
            /\ \A i \in InBlock(c) : elements[BlockUsedBy(c)][Offset(i)] = i

Remaining == Indices(headIndex, tailIndex)

\* Where the newest block index says the block of i is.
IndexedBlock(i) ==
    IF sub.isExplicit
    THEN LET h == headers[Newest]
         IN  h.entries[SlotOf(BaseOf(i), h.front, h.entries[h.front].base, h.size)].block
    ELSE Implicit!BlockFor(i)

\* Each element there is can be found: the newest index leads from its index to
\* the block that holds it, also after an enqueue_bulk that failed (an
\* undoing that "keep[s] injected blocks", concurrentqueue.h:2095).
ElementsAreIndexed ==
    \A i \in Remaining : IndexedBlock(i) # NoBlock /\ elements[IndexedBlock(i)][Offset(i)] = i

\* The head never passes the tail: no index is taken of an element that is not
\* there.  And with nobody inside, what was claimed, less what was given back, is
\* what was taken: claims by dequeues that ran past the tail leave no trace on the
\* claims after them, across the wrap of all four counters (concurrentqueue.h:1957-1992).
CountsAgree ==
    /\ ~CircularLess(tailIndex, headIndex)
    /\ NobodyIsIn => Index(dequeueOptimisticCount - dequeueOvercommit) = headIndex

Constructed ==
    {slot \in Blocks \X Offsets : elements[slot[1]][slot[2]] # NoElement}
Owned == Blocks \ freeBlocks

\* Whenever the queue may be destroyed, its destructor destroys the elements
\* there are, each once and nothing else, and gives back each block the
\* sub-queue has (concurrentqueue.h:1788-1846, 2431-2484).
DestructorIsExact ==
    NobodyIsIn /\ tailBlock # NoBlock =>
        IF sub.isExplicit
        THEN /\ Explicit!Destroyed = Constructed
             /\ ToSet(ChainFrom(nextBlock[tailBlock])) = Owned
        ELSE /\ Implicit!ImplicitDestroyed = Constructed
             /\ Implicit!ImplicitReturned = Owned

\* Once the sub-queue is drained, its blocks can be used again, but for the tail
\* block while it is part full: an explicit producer finds them empty in its
\* ring, an implicit one has given them back (concurrentqueue.h:1597-1664,
\* 1922-1925, 2599-2607).
DrainedBlocksAreReusable ==
    NobodyIsIn /\ Remaining = {} =>
        \A b \in Owned : (sub.isExplicit /\ IsEmpty(b)) \/ (b = tailBlock /\ Offset(tailIndex) # 0)
=============================================================================

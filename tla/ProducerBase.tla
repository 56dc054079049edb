---------------------------- MODULE ProducerBase ----------------------------
(***************************************************************************)
(* moodycamel::ConcurrentQueue (includes/concurrentqueue.h): what its two  *)
(* kinds of sub-queue share.  A sub-queue has one producer; any thread     *)
(* takes elements from it.  Indices only grow, and wrap at IndexValues;    *)
(* elements lie in blocks of BLOCK_SIZE, found through a block index.      *)
(*                                                                         *)
(* A dequeue first claims a number of elements on dequeueOptimisticCount,  *)
(* gives back on dequeueOvercommit what was not there, and only then       *)
(* takes its indices from headIndex.  dequeue() is dequeue_bulk() of one.  *)
(*                                                                         *)
(* A step makes at most one access to memory threads share, except that    *)
(* the flags of a block are read, and set, at once: they go from false to  *)
(* true only, and what is asked is if all are set.                         *)
(*                                                                         *)
(* The rest of the queue is the set of blocks it has to give.  An element  *)
(* is named by its index.                                                  *)
(***************************************************************************)
EXTENDS Integers, Sequences, SequencesExt, FiniteSetsExt

CONSTANTS
    IndexValues,    \* how many values index_t has
    BLOCK_SIZE,
    Blocks,         \* the blocks there are, numbered
    DequeueThreads, \* the threads that dequeue
    SubQueues,      \* the sub-queues tried, see below
    NoElement,      \* what a slot holds without an element
    NoBlock         \* the null pointer

(***************************************************************************)
(* A sub-queue tried: isExplicit; counter: its blocks count their empty    *)
(* slots, rather than flag them (BLOCK_SIZE above the threshold, or        *)
(* implicit); throws: T's constructor may throw; modes: CanAlloc and       *)
(* CannotAlloc calls are made; fails: malloc may fail, and other producers *)
(* may have the pool's blocks; limit: MAX_SUBQUEUE_SIZE; pool: the blocks  *)
(* allocated with the queue; indexSize: EXPLICIT_INITIAL_INDEX_SIZE or     *)
(* IMPLICIT_INITIAL_INDEX_SIZE; bulks and maxima: the counts that          *)
(* enqueue_bulk and dequeue_bulk are called with, 1 for the single calls.  *)
(* The bounds: atOnce, how many dequeues are under way at a time; last, the *)
(* tail index at which the producer stops, IndexValues if it does not; lag, *)
(* how far ahead of a dequeue it goes, IndexValues if that is any.         *)
(***************************************************************************)
ASSUME ProducerBaseAssumption ==
    /\ BLOCK_SIZE \in Nat \ {0, 1}
    /\ IndexValues \in Nat \ {0} /\ IndexValues % (2 * BLOCK_SIZE) = 0
    /\ IsFiniteSet(DequeueThreads)
    /\ \A s \in SubQueues :
           /\ {s.isExplicit, s.counter, s.throws, s.fails} \subseteq BOOLEAN
           /\ s.modes \subseteq {"CanAlloc", "CannotAlloc"}
           /\ s.bulks \subseteq Nat \ {0} /\ s.maxima \subseteq Nat \ {0}
           /\ s.pool \subseteq Blocks
           /\ s.limit % BLOCK_SIZE = 0 /\ s.limit <= IndexValues

VARIABLES
    sub,                        \* the sub-queue
    tailIndex,
    headIndex,
    dequeueOptimisticCount,
    dequeueOvercommit,
    tailBlock,
    nextBlock,                  \* for each block, next
    elements,                   \* for each block, what its slots hold
    emptyFlags,                 \* for each block, the slots flagged empty
    elementsCompletelyDequeued, \* for each block
    freeBlocks,                 \* the blocks the queue has to give
    headers,                    \* the block indices made, the newest last
    eq,                         \* where the producer is in an enqueue
    dq,                         \* for each thread, where it is in a dequeue
    failedAssert                \* auxiliary: an assert() of the code has failed

counterVars == <<tailIndex, headIndex, dequeueOptimisticCount, dequeueOvercommit>>
blockVars == <<nextBlock, elements, emptyFlags, elementsCompletelyDequeued>>

-----------------------------------------------------------------------------
\* index_t and size_t arithmetic.
Index(i) == i % IndexValues
CircularLess(a, b) == Index(a - b) > IndexValues \div 2
Signed(i) == IF Index(i) < IndexValues \div 2 THEN Index(i) ELSE Index(i) - IndexValues
Offset(i) == i % BLOCK_SIZE
BaseOf(i) == Index(i) - Offset(i)

\* The indices from first up to, not including, stop.
Indices(first, stop) == {Index(first + k) : k \in 0 .. Index(stop - first) - 1}

\* Where a walk through the indices from i to stop leaves i's block.
EndInBlock(i, stop) ==
    IF CircularLess(stop, BaseOf(i) + BLOCK_SIZE) THEN stop ELSE Index(BaseOf(i) + BLOCK_SIZE)

-----------------------------------------------------------------------------
(***************************************************************************)
(* Blocks: is_empty, set_empty and set_many_empty, reset_empty,            *)
(* set_all_empty.                                                          *)
(***************************************************************************)
Offsets == 0 .. BLOCK_SIZE - 1

IsEmpty(b) == IF sub.counter THEN elementsCompletelyDequeued[b] = BLOCK_SIZE
                             ELSE emptyFlags[b] = Offsets

SetManyEmpty(b, indices) ==
    LET slots == {Offset(i) : i \in indices}
    IN  IF sub.counter
        THEN /\ elementsCompletelyDequeued' =
                    [elementsCompletelyDequeued EXCEPT ![b] = @ + Cardinality(slots)]
             /\ failedAssert' = (failedAssert \/ elementsCompletelyDequeued'[b] > BLOCK_SIZE)
             /\ UNCHANGED emptyFlags
        ELSE /\ emptyFlags' = [emptyFlags EXCEPT ![b] = @ \cup slots]
             /\ failedAssert' = (failedAssert \/ slots \cap emptyFlags[b] # {})
             /\ UNCHANGED elementsCompletelyDequeued

MarkAll(bs, empty) ==
    IF sub.counter
    THEN /\ elementsCompletelyDequeued' = [b \in Blocks |->
                IF b \in bs THEN IF empty THEN BLOCK_SIZE ELSE 0
                            ELSE elementsCompletelyDequeued[b]]
         /\ UNCHANGED emptyFlags
    ELSE /\ emptyFlags' = [b \in Blocks |->
                IF b \in bs THEN IF empty THEN Offsets ELSE {} ELSE emptyFlags[b]]
         /\ UNCHANGED elementsCompletelyDequeued
ResetEmpty(bs) == MarkAll(bs, FALSE)
SetAllEmpty(b) == MarkAll({b}, TRUE)

\* requisition_block: from the pool, else from the heap if the call may allocate.
\* If blocks run out where malloc does not fail, the bound on Blocks is reached.
Pooled == freeBlocks \cap sub.pool
Requisition(mode) ==
    LET blocks == IF Pooled # {} THEN Pooled ELSE IF mode = "CanAlloc" THEN freeBlocks ELSE {}
    IN  IF blocks = {} THEN {NoBlock}
        ELSE {Min(blocks)} \cup (IF sub.fails THEN {NoBlock} ELSE {})

\* There is no room for a block at tail index i: the indices might not be told
\* apart any more, or MAX_SUBQUEUE_SIZE would be exceeded.
NoLeeway(i) ==
    \/ ~CircularLess(headIndex, i + BLOCK_SIZE)
    \/ sub.limit # IndexValues
       /\ (sub.limit = 0 \/ sub.limit - BLOCK_SIZE < Index(i - headIndex))

-----------------------------------------------------------------------------
Idle == [pc |-> "idle"]

BaseInit ==
    /\ sub \in SubQueues
    /\ tailIndex = 0
    /\ headIndex = 0
    /\ dequeueOptimisticCount = 0
    /\ dequeueOvercommit = 0
    /\ tailBlock = NoBlock
    /\ nextBlock = [b \in Blocks |-> NoBlock]
    /\ elements = [b \in Blocks |-> [o \in Offsets |-> NoElement]]
    /\ emptyFlags = [b \in Blocks |-> {}]
    /\ elementsCompletelyDequeued = [b \in Blocks |-> 0]
    /\ freeBlocks = Blocks
    /\ eq = Idle
    /\ dq = [c \in DequeueThreads |-> Idle]
    /\ failedAssert = FALSE

-----------------------------------------------------------------------------
(***************************************************************************)
(* dequeue and dequeue_bulk, up to the indices.                            *)
(***************************************************************************)
DqGoto(c, state) == dq' = [dq EXCEPT ![c] = state]

DequeueLoadTail(c, max) ==
    /\ dq[c].pc = "idle"
    /\ Cardinality({d \in DequeueThreads : dq[d].pc # "idle"}) < sub.atOnce
    /\ DqGoto(c, [pc |-> "loadOvercommit", max |-> max, tail |-> tailIndex])
    /\ UNCHANGED counterVars

DequeueLoadOvercommit(c) ==
    /\ dq[c].pc = "loadOvercommit"
    /\ DqGoto(c, [pc |-> "loadOptimistic", max |-> dq[c].max, tail |-> dq[c].tail,
                  overcommit |-> dequeueOvercommit])
    /\ UNCHANGED counterVars

DequeueLoadOptimistic(c) ==
    LET there == Index(dq[c].tail - (dequeueOptimisticCount - dq[c].overcommit))
    IN  /\ dq[c].pc = "loadOptimistic"
        /\ DqGoto(c, IF CircularLess(0, there)
                     THEN [pc |-> "claim", overcommit |-> dq[c].overcommit,
                           desired |-> Min({there, dq[c].max})]
                     ELSE Idle)
        /\ UNCHANGED counterVars

\* Mistake: what was given back still counts as taken.
DequeueClaimLessNothing(c) ==
    /\ dq[c].pc = "claim"
    /\ dequeueOptimisticCount' = Index(dequeueOptimisticCount + dq[c].desired)
    /\ DqGoto(c, [pc |-> "reloadTail", desired |-> dq[c].desired,
                  claimed |-> dequeueOptimisticCount])
    /\ UNCHANGED <<tailIndex, headIndex, dequeueOvercommit>>

DequeueClaim(c) ==
    /\ dq[c].pc = "claim"
    /\ dequeueOptimisticCount' = Index(dequeueOptimisticCount + dq[c].desired)
    /\ DqGoto(c, [pc |-> "reloadTail", desired |-> dq[c].desired,
                  claimed |-> Index(dequeueOptimisticCount - dq[c].overcommit)])
    /\ UNCHANGED <<tailIndex, headIndex, dequeueOvercommit>>

DequeueReloadTail(c) ==
    LET there  == Index(tailIndex - dq[c].claimed)
        actual == IF CircularLess(0, there) THEN Min({there, dq[c].desired}) ELSE 0
    IN  /\ dq[c].pc = "reloadTail"
        /\ DqGoto(c, IF actual = dq[c].desired
                     THEN [pc |-> "take", actual |-> actual]
                     ELSE [pc |-> "giveBack", actual |-> actual,
                           rest |-> dq[c].desired - actual])
        /\ UNCHANGED counterVars

DequeueGiveBack(c) ==
    /\ dq[c].pc = "giveBack"
    /\ dequeueOvercommit' = Index(dequeueOvercommit + dq[c].rest)
    /\ DqGoto(c, IF dq[c].actual = 0 THEN Idle ELSE [pc |-> "take", actual |-> dq[c].actual])
    /\ UNCHANGED <<tailIndex, headIndex, dequeueOptimisticCount>>

DequeueTake(c) ==
    /\ dq[c].pc = "take"
    /\ headIndex' = Index(headIndex + dq[c].actual)
    /\ DqGoto(c, [pc |-> "locate", index |-> headIndex,
                  stop |-> Index(headIndex + dq[c].actual)])
    /\ UNCHANGED <<tailIndex, dequeueOptimisticCount, dequeueOvercommit>>

Dequeue(c) ==
    /\ \/ \E max \in sub.maxima : DequeueLoadTail(c, max)
       \/ DequeueLoadOvercommit(c) \/ DequeueLoadOptimistic(c) \/ DequeueClaim(c)
       \/ DequeueReloadTail(c) \/ DequeueGiveBack(c) \/ DequeueTake(c)
    /\ UNCHANGED <<sub, tailBlock, blockVars, freeBlocks, headers, eq, failedAssert>>

-----------------------------------------------------------------------------
(***************************************************************************)
(* What both kinds do with the blocks they found.                          *)
(***************************************************************************)
ConsumersUnchanged == UNCHANGED <<sub, headIndex, dequeueOptimisticCount, dequeueOvercommit, dq>>
EqGoto(state) == eq' = state
Newest == Len(headers)

\* The blocks from b on, next by next, to the tail block.
ChainFrom(b) ==
    LET chain[k \in 0 .. Cardinality(Blocks)] ==
            IF k = 0 THEN <<b>>
            ELSE IF Last(chain[k - 1]) = tailBlock THEN chain[k - 1]
            ELSE Append(chain[k - 1], nextBlock[Last(chain[k - 1])])
    IN  chain[Cardinality(Blocks)]

\* How many blocks, and from which base, n elements need beyond the tail block.
BlocksNeeded(n) == Index(BaseOf(tailIndex + n - 1) - BaseOf(tailIndex - 1)) \div BLOCK_SIZE
LastBase == BaseOf(tailIndex - 1)

\* Bounds: where the producer stops, and the index of a dequeue it does not leave
\* behind: the tail the dequeue loaded, its claim, or the first index it took.
GoesBy(s) == IF "tail" \in DOMAIN s THEN s.tail
             ELSE IF "claimed" \in DOMAIN s THEN s.claimed
             ELSE IF "index" \in DOMAIN s THEN s.index ELSE tailIndex
MayEnqueue ==
    /\ eq.pc = "idle"
    /\ tailIndex < sub.last
    /\ \A c \in DequeueThreads : Signed(tailIndex - GoesBy(dq[c])) < sub.lag

\* n elements are constructed at the tail, from block first on.
ConstructFrom(first, n) ==
    LET new    == Indices(tailIndex, tailIndex + n)
        blocks == ChainFrom(first)
        BlockOf(i) == blocks[1 + Index(BaseOf(i) - BaseOf(tailIndex)) \div BLOCK_SIZE]
        At(b, o) == {i \in new : BlockOf(i) = b /\ Offset(i) = o}
    IN  elements' = [b \in Blocks |-> [o \in Offsets |->
                        IF At(b, o) # {} THEN Min(At(b, o)) ELSE elements[b][o]]]

\* The part of what dequeue c took that lies in one block, and moving it out.
EndOf(c) == EndInBlock(dq[c].index, dq[c].stop)
InBlock(c) == Indices(dq[c].index, EndOf(c))
MoveOut(c, b) ==
    elements' = [elements EXCEPT ![b] = [o \in Offsets |->
                    IF o \in {Offset(i) : i \in InBlock(c)} THEN NoElement ELSE @[o]]]

\* From slot on, of an index of this size, where the block of base lies, if that
\* of slot has base slotBase.
SlotOf(base, slot, slotBase, size) == (slot + Signed(base - slotBase) \div BLOCK_SIZE) % size

NobodyIsIn == eq.pc = "idle" /\ \A c \in DequeueThreads : dq[c].pc = "idle"
=============================================================================

------------------------- MODULE ReaderWriterQueue -------------------------
(***************************************************************************)
(* moodycamel::ReaderWriterQueue (includes/readerwriterqueue.h): a         *)
(* circular list of blocks, each a ring with one slot kept free.  The      *)
(* producer enqueues at tailBlock and, when that is full, moves on to the  *)
(* next block, unless the consumer is still there, or puts a new one in    *)
(* between.  The consumer dequeues at frontBlock and moves on when that is *)
(* empty and is not tailBlock.  Blocks are never removed.                  *)
(*                                                                         *)
(* Each thread owns some fields and reads the other's; a step makes at     *)
(* most one access to a field the other thread uses.  Loads return the     *)
(* newest store: the fences around the weak_atomics are taken to order     *)
(* what they are there to order.                                           *)
(***************************************************************************)
EXTENDS Naturals, Sequences, FiniteSets, SequencesExt

CONSTANTS
    Configs,        \* the template parameters and constructor arguments tried
    NoData          \* a slot that holds no object

\* What the shifts and ors of ceilToPow2 compute: 1 doubled until it is x or more.
CeilToPow2(x) ==
    LET p[k \in 0 .. x] ==
            IF k = 0 THEN 1 ELSE IF p[k - 1] < x THEN 2 * p[k - 1] ELSE p[k - 1]
    IN  p[x]

ASSUME RWQAssumption ==
    /\ \A c \in Configs : /\ c.maxBlockSize \in Nat /\ c.maxBlockSize >= 2
                           /\ c.maxBlockSize = CeilToPow2(c.maxBlockSize)
                           /\ c.size \in Nat
                           /\ c.blocksLeft \in Nat
                           /\ c.serials \in Nat \ {0}
    /\ NoData \notin Nat

VARIABLES
    config,             \* maxBlockSize, size (of the constructor), blocksLeft
                        \* (how many more blocks malloc can give after it),
                        \* serials (elements are told apart by their number
                        \* modulo serials) and calls (which are made)
    block,              \* the blocks allocated so far: Block
    frontBlock,         \* frontBlock
    tailBlock,          \* tailBlock
    largestBlockSize,   \* largestBlockSize
    enqueuePc,          \* where the producer is inside inner_enqueue
    canAlloc,           \* its template argument
    element,            \* its argument: the number of the next element
    enqueueOk,          \* what it returned last
    dequeuePc,          \* where the consumer is inside try_dequeue, pop or peek
    op,                 \* "peek", or "remove" for try_dequeue and pop
    result,             \* the object they dequeued, destroyed or found
    dequeueOk,          \* what they returned last (for peek: not a nullptr)
    delivered,          \* auxiliary: the object removed last
    lengthSeen          \* auxiliary: the slots taken when the tail block was full

producerVars == <<enqueuePc, canAlloc, element, enqueueOk, lengthSeen>>
consumerVars == <<dequeuePc, op, result, dequeueOk, delivered>>
rwqVars == <<config, block, frontBlock, tailBlock, largestBlockSize,
             producerVars, consumerVars>>

\* (i + 1) & sizeMask.
After(b, i) == (i + 1) % b.size

Block(size, next) ==
    [front |-> 0, localTail |-> 0, tail |-> 0, localFront |-> 0, next |-> next,
     size |-> size, data |-> [i \in 0 .. size - 1 |-> NoData]]

\* Mistake: no spare block for the consumer to be in.
InitialBlockCountNoSpare(c) ==
    IF CeilToPow2(c.size + 1) > c.maxBlockSize * 2
    THEN (c.size + c.maxBlockSize - 2) \div (c.maxBlockSize - 1)
    ELSE 1

InitialBlockCount(c) ==
    IF CeilToPow2(c.size + 1) > c.maxBlockSize * 2
    THEN (c.size + c.maxBlockSize * 2 - 3) \div (c.maxBlockSize - 1)
    ELSE 1

InitialBlockSize(c) ==
    IF CeilToPow2(c.size + 1) > c.maxBlockSize * 2
    THEN c.maxBlockSize
    ELSE CeilToPow2(c.size + 1)

\* The constructor, when malloc gives it all the blocks it asks for.
RWQInit ==
    /\ config \in Configs
    /\ block = [n \in 1 .. InitialBlockCount(config) |->
                   Block(InitialBlockSize(config), 1 + (n % InitialBlockCount(config)))]
    /\ frontBlock = 1
    /\ tailBlock = 1
    /\ largestBlockSize = InitialBlockSize(config)
    /\ enqueuePc = "idle"
    /\ canAlloc = FALSE
    /\ element = 0
    /\ enqueueOk = TRUE
    /\ dequeuePc = "idle"
    /\ op = "remove"
    /\ result = NoData
    /\ dequeueOk = TRUE
    /\ delivered = NoData
    /\ lengthSeen = 0

-----------------------------------------------------------------------------
(***************************************************************************)
(* The items inside: those of the blocks from frontBlock to tailBlock.     *)
(***************************************************************************)
BlockItems(b) ==
    [i \in 1 .. (b.tail + b.size - b.front) % b.size |->
        b.data[(b.front + i - 1) % b.size]]

Contents ==
    LET from[b \in 1 .. Len(block)] ==
            IF b = tailBlock THEN BlockItems(block[b])
            ELSE BlockItems(block[b]) \o from[block[b].next]
    IN  from[frontBlock]

\* An object that was moved out is no longer inside.
Items == IF dequeuePc = "publishFront" THEN Tail(Contents) ELSE Contents

-----------------------------------------------------------------------------
(***************************************************************************)
(* inner_enqueue<canAlloc>(element), by the producer: the tail block has   *)
(* room as far as the producer knows, or after a look at its front.        *)
(***************************************************************************)
TailBlock == block[tailBlock]
NextOfTail == TailBlock.next

EnqueueBegin(mode) ==
    /\ enqueuePc = "idle"
    /\ canAlloc' = mode
    /\ enqueuePc' = IF After(TailBlock, TailBlock.tail) # TailBlock.localFront
                    THEN "construct" ELSE "loadFront"
    /\ UNCHANGED <<config, block, frontBlock, tailBlock, largestBlockSize,
                   element, enqueueOk, lengthSeen, consumerVars>>

EnqueueLoadFront ==
    /\ enqueuePc = "loadFront"
    /\ block' = [block EXCEPT ![tailBlock].localFront = TailBlock.front]
    /\ enqueuePc' = IF After(TailBlock, TailBlock.tail) # TailBlock.front
                    THEN "construct" ELSE "checkNext"
    /\ lengthSeen' = Len(Contents)
    /\ UNCHANGED <<config, frontBlock, tailBlock, largestBlockSize,
                   canAlloc, element, enqueueOk, consumerVars>>

EnqueueConstruct ==
    /\ enqueuePc = "construct"
    /\ block' = [block EXCEPT ![tailBlock].data[TailBlock.tail] = element]
    /\ enqueuePc' = "publishTail"
    /\ UNCHANGED <<config, frontBlock, tailBlock, largestBlockSize,
                   canAlloc, element, enqueueOk, lengthSeen, consumerVars>>

EnqueuePublishTail ==
    /\ enqueuePc = "publishTail"
    /\ block' = [block EXCEPT ![tailBlock].tail = After(TailBlock, @)]
    /\ enqueuePc' = "idle"
    /\ enqueueOk' = TRUE
    /\ UNCHANGED <<config, frontBlock, tailBlock, largestBlockSize,
                   canAlloc, element, lengthSeen, consumerVars>>

(***************************************************************************)
(* The tail block is full.                                                 *)
(***************************************************************************)
\* Mistake: move on into the block the consumer is in.
EnqueueIntoFrontBlock ==
    /\ enqueuePc = "checkNext"
    /\ enqueuePc' = IF Len(block) > 1 THEN "loadNextFront" ELSE "allocate"
    /\ UNCHANGED <<config, block, frontBlock, tailBlock, largestBlockSize,
                   canAlloc, element, enqueueOk, lengthSeen, consumerVars>>

EnqueueCheckNext ==
    /\ enqueuePc = "checkNext"
    /\ \/ NextOfTail # frontBlock /\ enqueuePc' = "loadNextFront" /\ UNCHANGED enqueueOk
       \/ NextOfTail = frontBlock /\ canAlloc /\ enqueuePc' = "allocate" /\ UNCHANGED enqueueOk
       \/ NextOfTail = frontBlock /\ ~canAlloc /\ enqueuePc' = "idle" /\ enqueueOk' = FALSE
    /\ lengthSeen' = Max({lengthSeen, Len(Contents)})
    /\ UNCHANGED <<config, block, frontBlock, tailBlock, largestBlockSize,
                   canAlloc, element, consumerVars>>

EnqueueLoadNextFront ==
    /\ enqueuePc = "loadNextFront"
    /\ block' = [block EXCEPT ![NextOfTail].localFront = block[NextOfTail].front]
    /\ enqueuePc' = "constructNext"
    /\ UNCHANGED <<config, frontBlock, tailBlock, largestBlockSize,
                   canAlloc, element, enqueueOk, lengthSeen, consumerVars>>

EnqueueConstructNext ==
    /\ enqueuePc = "constructNext"
    /\ block' = [block EXCEPT ![NextOfTail].data[block[NextOfTail].tail] = element]
    /\ enqueuePc' = "publishNextTail"
    /\ UNCHANGED <<config, frontBlock, tailBlock, largestBlockSize,
                   canAlloc, element, enqueueOk, lengthSeen, consumerVars>>

EnqueuePublishNextTail ==
    /\ enqueuePc = "publishNextTail"
    /\ block' = [block EXCEPT ![NextOfTail].tail = After(block[NextOfTail], @)]
    /\ enqueuePc' = "publishTailBlock"
    /\ UNCHANGED <<config, frontBlock, tailBlock, largestBlockSize,
                   canAlloc, element, enqueueOk, lengthSeen, consumerVars>>

\* make_block, and the new block filled before anyone can see it; or malloc fails.
EnqueueAllocate ==
    LET size == IF largestBlockSize >= config.maxBlockSize
                THEN largestBlockSize ELSE largestBlockSize * 2
        new  == [Block(size, NextOfTail) EXCEPT !.data[0] = element,
                                                !.tail = 1, !.localTail = 1]
    IN  /\ enqueuePc = "allocate"
        /\ \/ /\ Len(block) < InitialBlockCount(config) + config.blocksLeft
              /\ block' = Append(block, new)
              /\ largestBlockSize' = size
              /\ enqueuePc' = "link"
              /\ UNCHANGED enqueueOk
           \/ /\ enqueuePc' = "idle"
              /\ enqueueOk' = FALSE
              /\ UNCHANGED <<block, largestBlockSize>>
        /\ UNCHANGED <<config, frontBlock, tailBlock, canAlloc, element,
                       lengthSeen, consumerVars>>

EnqueueLink ==
    /\ enqueuePc = "link"
    /\ block' = [block EXCEPT ![tailBlock].next = Len(block)]
    /\ enqueuePc' = "publishTailBlock"
    /\ UNCHANGED <<config, frontBlock, tailBlock, largestBlockSize,
                   canAlloc, element, enqueueOk, lengthSeen, consumerVars>>

EnqueuePublishTailBlock ==
    /\ enqueuePc = "publishTailBlock"
    /\ tailBlock' = NextOfTail
    /\ enqueuePc' = "idle"
    /\ enqueueOk' = TRUE
    /\ UNCHANGED <<config, block, frontBlock, largestBlockSize,
                   canAlloc, element, lengthSeen, consumerVars>>

-----------------------------------------------------------------------------
(***************************************************************************)
(* try_dequeue(result), pop() and peek(), by the consumer: the same search *)
(* for the block with the next object.                                     *)
(***************************************************************************)
FrontBlock == block[frontBlock]
NextOfFront == FrontBlock.next

DequeueBegin(o) ==
    /\ dequeuePc = "idle"
    /\ op' = o
    /\ dequeuePc' = IF FrontBlock.front # FrontBlock.localTail
                    THEN "read" ELSE "loadTail"
    /\ UNCHANGED <<config, block, frontBlock, tailBlock, largestBlockSize,
                   producerVars, result, dequeueOk, delivered>>

DequeueLoadTail ==
    /\ dequeuePc = "loadTail"
    /\ block' = [block EXCEPT ![frontBlock].localTail = FrontBlock.tail]
    /\ dequeuePc' = IF FrontBlock.front # FrontBlock.tail
                    THEN "read" ELSE "loadTailBlock"
    /\ UNCHANGED <<config, frontBlock, tailBlock, largestBlockSize,
                   producerVars, op, result, dequeueOk, delivered>>

\* Mistake: the front block is not looked at again after the tail block was.
DequeueLoadTailBlockOnce ==
    /\ dequeuePc = "loadTailBlock"
    /\ \/ frontBlock # tailBlock /\ dequeuePc' = "loadNext" /\ UNCHANGED dequeueOk
       \/ frontBlock = tailBlock /\ dequeuePc' = "idle" /\ dequeueOk' = FALSE
    /\ UNCHANGED <<config, block, frontBlock, tailBlock, largestBlockSize,
                   producerVars, op, result, delivered>>

DequeueLoadTailBlock ==
    /\ dequeuePc = "loadTailBlock"
    /\ \/ frontBlock # tailBlock /\ dequeuePc' = "recheck" /\ UNCHANGED dequeueOk
       \/ frontBlock = tailBlock /\ dequeuePc' = "idle" /\ dequeueOk' = FALSE
    /\ UNCHANGED <<config, block, frontBlock, tailBlock, largestBlockSize,
                   producerVars, op, result, delivered>>

\* The producer may have filled the front block and moved on since its tail was
\* read.
DequeueRecheck ==
    /\ dequeuePc = "recheck"
    /\ block' = [block EXCEPT ![frontBlock].localTail = FrontBlock.tail]
    /\ dequeuePc' = IF FrontBlock.front # FrontBlock.tail
                    THEN "read" ELSE "loadNext"
    /\ UNCHANGED <<config, frontBlock, tailBlock, largestBlockSize,
                   producerVars, op, result, dequeueOk, delivered>>

\* The next block's indices; peek returns its front object and stays here.
DequeueLoadNext ==
    /\ dequeuePc = "loadNext"
    /\ IF op = "peek"
       THEN /\ result' = block[NextOfFront].data[block[NextOfFront].front]
            /\ dequeuePc' = "idle"
            /\ dequeueOk' = TRUE
            /\ UNCHANGED block
       ELSE /\ block' = [block EXCEPT ![NextOfFront].localTail = block[NextOfFront].tail]
            /\ dequeuePc' = "advance"
            /\ UNCHANGED <<result, dequeueOk>>
    /\ UNCHANGED <<config, frontBlock, tailBlock, largestBlockSize,
                   producerVars, op, delivered>>

DequeueAdvance ==
    /\ dequeuePc = "advance"
    /\ frontBlock' = NextOfFront
    /\ dequeuePc' = "read"
    /\ UNCHANGED <<config, block, tailBlock, largestBlockSize,
                   producerVars, op, result, dequeueOk, delivered>>

\* The object is moved out (by pop: thrown away) and destroyed; peek only points
\* at it.
DequeueRead ==
    /\ dequeuePc = "read"
    /\ result' = FrontBlock.data[FrontBlock.front]
    /\ IF op = "peek"
       THEN /\ dequeuePc' = "idle"
            /\ dequeueOk' = TRUE
            /\ UNCHANGED <<block, delivered>>
       ELSE /\ block' = [block EXCEPT ![frontBlock].data[FrontBlock.front] = NoData]
            /\ delivered' = result'
            /\ dequeuePc' = "publishFront"
            /\ UNCHANGED dequeueOk
    /\ UNCHANGED <<config, frontBlock, tailBlock, largestBlockSize, producerVars, op>>

DequeuePublishFront ==
    /\ dequeuePc = "publishFront"
    /\ block' = [block EXCEPT ![frontBlock].front = After(FrontBlock, @)]
    /\ dequeuePc' = "idle"
    /\ dequeueOk' = TRUE
    /\ UNCHANGED <<config, frontBlock, tailBlock, largestBlockSize,
                   producerVars, op, result, delivered>>

-----------------------------------------------------------------------------
\* A call has returned: its arguments, its locals and what it returned are gone.
EnqueueReturned ==
    /\ enqueuePc = "idle"
    /\ canAlloc' = FALSE
    /\ element' = IF enqueueOk THEN (element + 1) % config.serials ELSE element
    /\ enqueueOk' = TRUE
    /\ lengthSeen' = 0
    /\ UNCHANGED <<config, block, frontBlock, tailBlock, largestBlockSize,
                   enqueuePc, consumerVars>>

DequeueReturned ==
    /\ dequeuePc = "idle"
    /\ op' = "remove"
    /\ result' = NoData
    /\ dequeueOk' = TRUE
    /\ UNCHANGED <<config, block, frontBlock, tailBlock, largestBlockSize,
                   producerVars, dequeuePc, delivered>>

EnqueueSteps ==
    \/ EnqueueLoadFront \/ EnqueueConstruct \/ EnqueuePublishTail
    \/ EnqueueCheckNext \/ EnqueueLoadNextFront \/ EnqueueConstructNext
    \/ EnqueuePublishNextTail \/ EnqueueAllocate \/ EnqueueLink
    \/ EnqueuePublishTailBlock

DequeueSteps ==
    \/ DequeueLoadTail \/ DequeueLoadTailBlock \/ DequeueRecheck
    \/ DequeueLoadNext \/ DequeueAdvance \/ DequeueRead \/ DequeuePublishFront

-----------------------------------------------------------------------------
\* The assertions in inner_enqueue, try_dequeue, pop and peek: the block the
\* producer moves on to is empty, the one the consumer moves on to is not, a new
\* block is filled from 0; and every object read is one that was constructed
\* (readerwriterqueue.h:351, 416, 467, 588, 618).
AssertionsHold ==
    /\ enqueuePc = "constructNext" =>
           block[NextOfTail].localFront = block[NextOfTail].tail
    /\ enqueuePc = "link" => block[Len(block)].front = 0
    /\ dequeuePc = "loadNext" => block[NextOfFront].front # block[NextOfFront].tail
    /\ dequeuePc = "read" => FrontBlock.data[FrontBlock.front] # NoData
    /\ dequeuePc = "idle" /\ op = "peek" /\ dequeueOk => result = Head(Items)

\* The queue "can hold at least size elements without further allocations": an
\* enqueue that fails, or has to allocate, saw that many slots taken, however far
\* the consumer had got in its block (readerwriterqueue.h:101-104, 116-123).
RoomForSize ==
    enqueuePc = "allocate" \/ (enqueuePc = "idle" /\ ~enqueueOk) =>
        lengthSeen >= config.size

\* One object is removed at a time, in the order of the enqueues, none twice and
\* none skipped when producer and consumer change blocks (readerwriterqueue.h:
\* 298-306, 572-631).
CapacityLimit ==
    LET first == InitialBlockSize(config)
    IN  InitialBlockCount(config) * (first - 1)
            + config.blocksLeft * (Max({first, config.maxBlockSize}) - 1)
Fifo == INSTANCE BoundedFifo WITH items <- Items, out <- delivered,
                                  Data <- UNION {0 .. c.serials : c \in Configs},
                                  capacity <- CapacityLimit
RWQImplementsFifo == Fifo!Spec
=============================================================================

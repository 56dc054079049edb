-------------------------- MODULE ExplicitProducer --------------------------
(***************************************************************************)
(* ConcurrentQueue::ExplicitProducer (includes/concurrentqueue.h): the     *)
(* sub-queue behind a ProducerToken.  Its blocks form a ring and stay in   *)
(* it; the block ahead of the tail is used again once it is empty.  The    *)
(* block index is a circular array of [base, block] whose newest entry is  *)
(* front; when it is full a larger copy takes its place, and dequeues that *)
(* have the old one go on with it.                                         *)
(***************************************************************************)
EXTENDS ProducerBase

VARIABLES
    pr_blockIndexSlotsUsed,
    pr_blockIndexSize,
    pr_blockIndexFront

prVars == <<pr_blockIndexSlotsUsed, pr_blockIndexSize, pr_blockIndexFront>>

NoEntry == [base |-> 0, block |-> NoBlock]

\* Mistake: the entries are copied from slot 0 on.
GrownFromSlotZero(slotsToExpose) ==
    LET size == 2 * pr_blockIndexSize
    IN  [size    |-> size,
         used    |-> pr_blockIndexSlotsUsed,
         front   |-> (slotsToExpose - 1) % size,
         entries |-> [k \in 0 .. size - 1 |->
                         IF k < pr_blockIndexSlotsUsed THEN headers[Len(headers)].entries[k] ELSE NoEntry]]

\* new_block_index: the entries in use are copied, oldest first, to an index of
\* twice the size.
Grown(slotsToExpose) ==
    LET old  == headers[Len(headers)]
        \* the loop from the oldest entry ends when it meets pr_blockIndexFront
        used == IF pr_blockIndexSlotsUsed = 0 THEN 0
                ELSE LET gap == pr_blockIndexSlotsUsed % pr_blockIndexSize
                     IN  IF gap = 0 THEN pr_blockIndexSize ELSE gap
        size == 2 * pr_blockIndexSize
    IN  [size    |-> size,
         used    |-> used,
         front   |-> (slotsToExpose - 1) % size,
         entries |-> [k \in 0 .. size - 1 |->
                         IF k < used
                         THEN old.entries[(pr_blockIndexFront + pr_blockIndexSize - used + k)
                                              % pr_blockIndexSize]
                         ELSE NoEntry]]

NewBlockIndex(slotsToExpose) ==
    LET g == Grown(slotsToExpose)
    IN  /\ headers' = Append(headers, [size |-> g.size, front |-> g.front, entries |-> g.entries])
        /\ pr_blockIndexSize' = g.size
        /\ pr_blockIndexFront' = g.used

\* The constructor makes the first block index, if malloc lets it.
ExplicitInit ==
    /\ pr_blockIndexSlotsUsed = 0
    /\ pr_blockIndexFront = 0
    /\ \/ /\ pr_blockIndexSize = sub.indexSize
          /\ headers = << [size |-> sub.indexSize, front |-> sub.indexSize - 1,
                           entries |-> [k \in 0 .. sub.indexSize - 1 |-> NoEntry]] >>
       \/ /\ sub.fails
          /\ pr_blockIndexSize = sub.indexSize \div 2
          /\ headers = << >>

NextFront == (pr_blockIndexFront + 1) % pr_blockIndexSize

\* An entry of the newest index is written, at pr_blockIndexFront.
WriteEntry(base, b) ==
    headers' = [headers EXCEPT ![Newest].entries[pr_blockIndexFront] = [base |-> base, block |-> b]]
PublishFront(front) == headers' = [headers EXCEPT ![Newest].front = front]

\* A block is linked into the ring behind the tail.
Link(b) ==
    /\ nextBlock' = IF tailBlock = NoBlock THEN [nextBlock EXCEPT ![b] = b]
                    ELSE [nextBlock EXCEPT ![b] = nextBlock[tailBlock], ![tailBlock] = b]
    /\ tailBlock' = b

-----------------------------------------------------------------------------
(***************************************************************************)
(* enqueue.                                                                *)
(***************************************************************************)
EnqueueBegin(mode) ==
    /\ MayEnqueue
    /\ EqGoto([pc    |-> IF Offset(tailIndex) = 0 THEN "reuse" ELSE "construct",
               mode  |-> mode,
               start |-> tailBlock,
               slots |-> pr_blockIndexSlotsUsed])
    /\ ConsumersUnchanged
    /\ UNCHANGED <<tailIndex, tailBlock, blockVars, freeBlocks, failedAssert, headers, prVars>>

EnqueueReuse ==
    /\ eq.pc = "reuse"
    /\ IF tailBlock # NoBlock /\ IsEmpty(nextBlock[tailBlock])
       THEN /\ tailBlock' = nextBlock[tailBlock]
            /\ ResetEmpty({tailBlock'})
            /\ EqGoto([eq EXCEPT !.pc = "construct"])
       ELSE /\ EqGoto([eq EXCEPT !.pc = "loadHead"])
            /\ UNCHANGED <<tailBlock, emptyFlags, elementsCompletelyDequeued>>
    /\ ConsumersUnchanged
    /\ UNCHANGED <<tailIndex, nextBlock, elements, freeBlocks, failedAssert, headers, prVars>>

IndexIsFull == headers = << >> \/ pr_blockIndexSlotsUsed = pr_blockIndexSize

EnqueueLoadHead ==
    /\ eq.pc = "loadHead"
    /\ EqGoto(IF NoLeeway(tailIndex) THEN Idle
              ELSE IF ~IndexIsFull THEN [eq EXCEPT !.pc = "requisition"]
              ELSE IF eq.mode = "CanAlloc" THEN [eq EXCEPT !.pc = "grow"]
              ELSE Idle)
    /\ failedAssert' = (failedAssert \/ CircularLess(tailIndex, headIndex))
    /\ ConsumersUnchanged
    /\ UNCHANGED <<tailIndex, tailBlock, blockVars, freeBlocks, headers, prVars>>

EnqueueGrow ==
    /\ eq.pc = "grow"
    /\ \/ /\ NewBlockIndex(pr_blockIndexSlotsUsed)
          /\ EqGoto([eq EXCEPT !.pc = "requisition"])
       \/ /\ sub.fails
          /\ EqGoto(Idle)
          /\ UNCHANGED <<headers, pr_blockIndexSize, pr_blockIndexFront>>
    /\ ConsumersUnchanged
    /\ UNCHANGED <<tailIndex, tailBlock, blockVars, freeBlocks, failedAssert,
                   pr_blockIndexSlotsUsed>>

EnqueueRequisition ==
    /\ eq.pc = "requisition"
    /\ \E b \in Requisition(eq.mode) :
           IF b = NoBlock
           THEN /\ EqGoto(Idle)
                /\ UNCHANGED <<tailBlock, nextBlock, emptyFlags, elementsCompletelyDequeued,
                               freeBlocks, pr_blockIndexSlotsUsed>>
           ELSE /\ freeBlocks' = freeBlocks \ {b}
                /\ ResetEmpty({b})
                /\ Link(b)
                /\ pr_blockIndexSlotsUsed' = pr_blockIndexSlotsUsed + 1
                /\ EqGoto([eq EXCEPT !.pc = "construct"])
    /\ ConsumersUnchanged
    /\ UNCHANGED <<tailIndex, elements, failedAssert, headers,
                   pr_blockIndexSize, pr_blockIndexFront>>

\* The element is constructed and, at a boundary, the block put on the index; or
\* the constructor throws and the block is taken back.
EnqueueConstruct ==
    /\ eq.pc = "construct"
    /\ \/ /\ elements' = [elements EXCEPT ![tailBlock][Offset(tailIndex)] = tailIndex]
          /\ IF Offset(tailIndex) = 0
             THEN WriteEntry(tailIndex, tailBlock) /\ EqGoto([pc |-> "publishFront"])
             ELSE UNCHANGED headers /\ EqGoto([pc |-> "publishTail"])
          /\ UNCHANGED <<tailBlock, pr_blockIndexSlotsUsed>>
       \/ /\ sub.throws
          /\ IF Offset(tailIndex) = 0
             THEN /\ pr_blockIndexSlotsUsed' = eq.slots
                  /\ tailBlock' = IF eq.start = NoBlock THEN tailBlock ELSE eq.start
             ELSE UNCHANGED <<tailBlock, pr_blockIndexSlotsUsed>>
          /\ EqGoto(Idle)
          /\ UNCHANGED <<elements, headers>>
    /\ ConsumersUnchanged
    /\ UNCHANGED <<tailIndex, nextBlock, emptyFlags, elementsCompletelyDequeued, freeBlocks,
                   failedAssert, pr_blockIndexSize, pr_blockIndexFront>>

EnqueuePublishFront ==
    /\ eq.pc = "publishFront"
    /\ PublishFront(pr_blockIndexFront)
    /\ pr_blockIndexFront' = NextFront
    /\ EqGoto([pc |-> "publishTail"])
    /\ ConsumersUnchanged
    /\ UNCHANGED <<tailIndex, tailBlock, blockVars, freeBlocks, failedAssert,
                   pr_blockIndexSlotsUsed, pr_blockIndexSize>>

EnqueuePublishTail ==
    /\ eq.pc = "publishTail"
    /\ tailIndex' = Index(tailIndex + 1)
    /\ EqGoto(Idle)
    /\ ConsumersUnchanged
    /\ UNCHANGED <<tailBlock, blockVars, freeBlocks, failedAssert, headers, prVars>>

-----------------------------------------------------------------------------
(***************************************************************************)
(* enqueue_bulk: the blocks first, then the elements, then the tail.       *)
(***************************************************************************)
\* Bound: where malloc does not fail, no call is made that Blocks are too few for.
EmptyAhead ==
    IF tailBlock = NoBlock THEN 0
    ELSE LET ahead == ChainFrom(nextBlock[tailBlock])
         IN  Max({k \in 0 .. Len(ahead) : \A j \in 1 .. k : IsEmpty(ahead[j])})
BlocksSuffice(n) == sub.fails \/ BlocksNeeded(n) <= EmptyAhead + Cardinality(freeBlocks)

BulkBegin(n, mode) ==
    /\ MayEnqueue
    /\ BlocksSuffice(n)
    /\ EqGoto([pc    |-> IF BlocksNeeded(n) = 0 THEN "bulkConstruct" ELSE "bulkReuse",
               n     |-> n,
               mode  |-> mode,
               need  |-> BlocksNeeded(n),
               base  |-> LastBase,
               start |-> tailBlock,
               first |-> NoBlock,
               front |-> pr_blockIndexFront,
               slots |-> pr_blockIndexSlotsUsed])
    /\ ConsumersUnchanged
    /\ UNCHANGED <<tailIndex, tailBlock, blockVars, freeBlocks, failedAssert, headers, prVars>>

\* The block b, now the tail block, is for the indices from base on; pc is next.
BulkTakes(b, base, pc) ==
    /\ WriteEntry(base, b)
    /\ pr_blockIndexFront' = NextFront
    /\ EqGoto([eq EXCEPT !.pc    = IF eq.need = 1 THEN "bulkReset" ELSE pc,
                         !.need  = @ - 1,
                         !.base  = base,
                         !.first = IF @ = NoBlock THEN b ELSE @])

\* One of the blocks ahead, as long as they are empty, and not come round.
BulkReuse ==
    /\ eq.pc = "bulkReuse"
    /\ IF /\ tailBlock # NoBlock
          /\ nextBlock[tailBlock] # eq.first
          /\ IsEmpty(nextBlock[tailBlock])
       THEN /\ tailBlock' = nextBlock[tailBlock]
            /\ BulkTakes(tailBlock', Index(eq.base + BLOCK_SIZE), "bulkReuse")
       ELSE /\ EqGoto([eq EXCEPT !.pc = "bulkLoadHead"])
            /\ UNCHANGED <<tailBlock, headers, pr_blockIndexFront>>
    /\ ConsumersUnchanged
    /\ UNCHANGED <<tailIndex, blockVars, freeBlocks, failedAssert,
                   pr_blockIndexSlotsUsed, pr_blockIndexSize>>

\* What a failed call undoes; the blocks stay in the ring.
BulkUndo ==
    /\ pr_blockIndexFront' = eq.front
    /\ pr_blockIndexSlotsUsed' = eq.slots
    /\ tailBlock' = IF eq.start = NoBlock THEN eq.first ELSE eq.start
    /\ EqGoto(Idle)

BulkLoadHead ==
    LET base == Index(eq.base + BLOCK_SIZE)
    IN  /\ eq.pc = "bulkLoadHead"
        /\ \/ /\ NoLeeway(base) \/ (IndexIsFull /\ eq.mode = "CannotAlloc")
              /\ BulkUndo
           \/ /\ ~NoLeeway(base)
              /\ IndexIsFull => eq.mode = "CanAlloc"
              /\ EqGoto([eq EXCEPT !.pc = IF IndexIsFull THEN "bulkGrow" ELSE "bulkRequisition"])
              /\ UNCHANGED <<pr_blockIndexFront, pr_blockIndexSlotsUsed, tailBlock>>
        /\ failedAssert' = (failedAssert \/ CircularLess(base, headIndex))
        /\ ConsumersUnchanged
        /\ UNCHANGED <<tailIndex, blockVars, freeBlocks, headers, pr_blockIndexSize>>

BulkGrow ==
    /\ eq.pc = "bulkGrow"
    /\ \/ /\ NewBlockIndex(eq.slots)
          /\ EqGoto([eq EXCEPT !.pc = "bulkRequisition", !.front = eq.slots])
          /\ UNCHANGED <<tailBlock, pr_blockIndexSlotsUsed>>
       \/ /\ sub.fails
          /\ BulkUndo
          /\ UNCHANGED <<headers, pr_blockIndexSize>>
    /\ ConsumersUnchanged
    /\ UNCHANGED <<tailIndex, blockVars, freeBlocks, failedAssert>>

BulkRequisition ==
    /\ eq.pc = "bulkRequisition"
    /\ \E b \in Requisition(eq.mode) :
           IF b = NoBlock
           THEN /\ BulkUndo
                /\ UNCHANGED <<headers, nextBlock, emptyFlags, elementsCompletelyDequeued, freeBlocks>>
           ELSE /\ freeBlocks' = freeBlocks \ {b}
                /\ SetAllEmpty(b)
                /\ Link(b)
                /\ pr_blockIndexSlotsUsed' = pr_blockIndexSlotsUsed + 1
                /\ BulkTakes(b, Index(eq.base + BLOCK_SIZE), "bulkLoadHead")
    /\ ConsumersUnchanged
    /\ UNCHANGED <<tailIndex, elements, failedAssert, pr_blockIndexSize>>

BulkPublishFront == PublishFront((pr_blockIndexFront - 1) % pr_blockIndexSize)

\* All blocks are there; if no constructor can throw, the index is published now.
BulkReset ==
    /\ eq.pc = "bulkReset"
    /\ ResetEmpty(ToSet(ChainFrom(eq.first)))
    /\ IF sub.throws THEN UNCHANGED headers ELSE BulkPublishFront
    /\ EqGoto([eq EXCEPT !.pc = "bulkConstruct"])
    /\ ConsumersUnchanged
    /\ UNCHANGED <<tailIndex, tailBlock, nextBlock, elements, freeBlocks, failedAssert, prVars>>

\* The blocks the elements go to; the elements before a throw are destroyed.
BulkConstruct ==
    /\ eq.pc = "bulkConstruct"
    /\ \/ /\ ConstructFrom(IF Offset(tailIndex) = 0 THEN eq.first ELSE eq.start, eq.n)
          /\ EqGoto([eq EXCEPT !.pc = IF sub.throws /\ eq.first # NoBlock
                                      THEN "bulkPublishFront" ELSE "bulkPublishTail"])
          /\ UNCHANGED <<tailBlock, pr_blockIndexFront, pr_blockIndexSlotsUsed>>
       \/ /\ sub.throws
          /\ BulkUndo
          /\ UNCHANGED elements
    /\ ConsumersUnchanged
    /\ UNCHANGED <<tailIndex, nextBlock, emptyFlags, elementsCompletelyDequeued, freeBlocks,
                   failedAssert, headers, pr_blockIndexSize>>

BulkPublishFrontLast ==
    /\ eq.pc = "bulkPublishFront"
    /\ BulkPublishFront
    /\ EqGoto([eq EXCEPT !.pc = "bulkPublishTail"])
    /\ ConsumersUnchanged
    /\ UNCHANGED <<tailIndex, tailBlock, blockVars, freeBlocks, failedAssert, prVars>>

BulkPublishTail ==
    /\ eq.pc = "bulkPublishTail"
    /\ tailIndex' = Index(tailIndex + eq.n)
    /\ EqGoto(Idle)
    /\ ConsumersUnchanged
    /\ UNCHANGED <<tailBlock, blockVars, freeBlocks, failedAssert, headers, prVars>>

-----------------------------------------------------------------------------
(***************************************************************************)
(* dequeue and dequeue_bulk, from the first index on: its block is found   *)
(* through the index, the elements are moved out block by block, and the   *)
(* slots flagged empty.                                                    *)
(***************************************************************************)
DequeueLoadIndex(c) ==
    /\ dq[c].pc = "locate"
    /\ DqGoto(c, [pc |-> "loadFront", index |-> dq[c].index, stop |-> dq[c].stop, header |-> Newest])
    /\ UNCHANGED <<elements, emptyFlags, elementsCompletelyDequeued, failedAssert>>

DequeueLoadFront(c) ==
    /\ dq[c].pc = "loadFront"
    /\ DqGoto(c, [pc |-> "offset", index |-> dq[c].index, stop |-> dq[c].stop,
                  header |-> dq[c].header, slot |-> headers[dq[c].header].front])
    /\ UNCHANGED <<elements, emptyFlags, elementsCompletelyDequeued, failedAssert>>

DequeueOffset(c) ==
    LET h == headers[dq[c].header]
    IN  /\ dq[c].pc = "offset"
        /\ DqGoto(c, [dq[c] EXCEPT !.pc = "move",
                       !.slot = SlotOf(BaseOf(dq[c].index), @, h.entries[@].base, h.size)])
        /\ UNCHANGED <<elements, emptyFlags, elementsCompletelyDequeued, failedAssert>>

BlockAt(c) == headers[dq[c].header].entries[dq[c].slot].block
DequeueMove(c) ==
    /\ dq[c].pc = "move"
    /\ BlockAt(c) # NoBlock
    /\ MoveOut(c, BlockAt(c))
    /\ DqGoto(c, [pc |-> "setEmpty", index |-> dq[c].index, stop |-> dq[c].stop,
                  header |-> dq[c].header, slot |-> dq[c].slot, block |-> BlockAt(c)])
    /\ UNCHANGED <<emptyFlags, elementsCompletelyDequeued, failedAssert>>

DequeueSetEmpty(c) ==
    /\ dq[c].pc = "setEmpty"
    /\ SetManyEmpty(dq[c].block, InBlock(c))
    /\ DqGoto(c, IF EndOf(c) = dq[c].stop THEN Idle
                 ELSE [pc |-> "move", index |-> EndOf(c), stop |-> dq[c].stop,
                       header |-> dq[c].header,
                       slot |-> (dq[c].slot + 1) % headers[dq[c].header].size])
    /\ UNCHANGED elements

ExplicitDequeue(c) ==
    /\ \/ DequeueLoadIndex(c) \/ DequeueLoadFront(c) \/ DequeueOffset(c)
       \/ DequeueMove(c) \/ DequeueSetEmpty(c)
    /\ UNCHANGED <<sub, counterVars, tailBlock, nextBlock, freeBlocks, headers, eq>>

-----------------------------------------------------------------------------
Enqueue ==
    \/ \E mode \in sub.modes : EnqueueBegin(mode)
    \/ EnqueueReuse \/ EnqueueLoadHead \/ EnqueueGrow \/ EnqueueRequisition
    \/ EnqueueConstruct \/ EnqueuePublishFront \/ EnqueuePublishTail

EnqueueBulk ==
    \/ \E n \in sub.bulks, mode \in sub.modes : BulkBegin(n, mode)
    \/ BulkReuse \/ BulkLoadHead \/ BulkGrow \/ BulkRequisition \/ BulkReset
    \/ BulkConstruct \/ BulkPublishFrontLast \/ BulkPublishTail

ExplicitNext ==
    \/ Enqueue
    \/ EnqueueBulk
    \/ \E c \in DequeueThreads :
           (Dequeue(c) \/ ExplicitDequeue(c)) /\ UNCHANGED prVars

-----------------------------------------------------------------------------
(***************************************************************************)
(* ~ExplicitProducer: which slots it destroys the elements of.  It may run *)
(* when no call is under way.                                              *)
(***************************************************************************)
\* Mistake: the oldest block of the index is taken for it.
HalfDequeuedOldest ==
    headers[Newest].entries[(pr_blockIndexFront - pr_blockIndexSlotsUsed) % pr_blockIndexSize].block

HalfDequeued ==
    LET entries == headers[Newest].entries
        Slot(k) == (pr_blockIndexFront - pr_blockIndexSlotsUsed + k) % pr_blockIndexSize
        behind  == {k \in 0 .. pr_blockIndexSize - 1 :
                        \A j \in 0 .. k : CircularLess(entries[Slot(j)].base + BLOCK_SIZE, headIndex)}
    IN  entries[Slot(Cardinality(behind))].block

Destroyed ==
    UNION {LET from == IF Offset(headIndex) # 0 /\ b = HalfDequeued THEN Offset(headIndex) ELSE 0
               upto == IF b = tailBlock /\ Offset(tailIndex) # 0 THEN Offset(tailIndex) ELSE BLOCK_SIZE
           IN  IF IsEmpty(b) THEN {} ELSE {<<b, o>> : o \in from .. upto - 1}
           : b \in ToSet(ChainFrom(nextBlock[tailBlock]))}
=============================================================================

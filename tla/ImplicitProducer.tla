-------------------------- MODULE ImplicitProducer --------------------------
(***************************************************************************)
(* ConcurrentQueue::ImplicitProducer (includes/concurrentqueue.h): the     *)
(* sub-queue of a thread that enqueues without a token.  A block goes back *)
(* to the queue when its last element is taken.  The block index points to *)
(* entries [key, value]: the base of a block, and the block, or null when  *)
(* there is none.  When it is full a larger one takes its place, which     *)
(* points to the same entries, oldest first, and to as many new ones.      *)
(*                                                                         *)
(* enqueue is, but for its constructor and for what it undoes, the         *)
(* enqueue_bulk of one element: eq.single tells them apart.                *)
(***************************************************************************)
EXTENDS ProducerBase

CONSTANT INVALID_BLOCK_BASE

VARIABLE entries        \* all the entries there are

\* new_block_index; IMPLICIT_INITIAL_INDEX_SIZE entries at first.
GrownIndex ==
    IF headers = << >> THEN [k \in 0 .. sub.indexSize - 1 |-> k + 1]
    ELSE LET old == headers[Newest]
         IN  [k \in 0 .. 2 * old.capacity - 1 |->
                 IF k < old.capacity THEN old.index[(old.tail + 1 + k) % old.capacity]
                 ELSE Len(entries) + k - old.capacity + 1]
GrownCapacity == IF headers = << >> THEN sub.indexSize ELSE 2 * headers[Newest].capacity
GrownTail == IF headers = << >> THEN sub.indexSize - 1 ELSE headers[Newest].capacity - 1

NewEntries(n) == [k \in 1 .. n |-> [key |-> INVALID_BLOCK_BASE, value |-> NoBlock]]

ImplicitInit ==
    \/ /\ headers = <<[capacity |-> sub.indexSize, tail |-> sub.indexSize - 1,
                       index |-> [k \in 0 .. sub.indexSize - 1 |-> k + 1]]>>
       /\ entries = NewEntries(sub.indexSize)
    \/ sub.fails /\ headers = << >> /\ entries = << >>

\* The entry in a slot of index h, and the one after the newest index's tail.
EntryIn(h, slot) == headers[h].index[slot]
NextSlot == (headers[Newest].tail + 1) % headers[Newest].capacity
PrevSlot == (headers[Newest].tail - 1) % headers[Newest].capacity
SetIndexTail(slot) == headers' = [headers EXCEPT ![Newest].tail = slot]

\* get_block_index_index_for_index, with index h.
SlotFor(base, h, tail) == SlotOf(base, tail, entries[EntryIn(h, tail)].key, headers[h].capacity)
IsEntryOf(base, e) == entries[e].key = base /\ entries[e].value # NoBlock
EntryFor(base) == EntryIn(Newest, SlotFor(base, Newest, headers[Newest].tail))

-----------------------------------------------------------------------------
(***************************************************************************)
(* enqueue and enqueue_bulk.                                               *)
(***************************************************************************)
ImplicitBegin(n, mode, single) ==
    /\ MayEnqueue
    /\ EqGoto([pc     |-> IF BlocksNeeded(n) = 0 THEN "construct" ELSE "loadHead",
               single |-> single,
               n      |-> n,
               mode   |-> mode,
               need   |-> BlocksNeeded(n),
               base   |-> LastBase,
               start  |-> tailBlock,
               first  |-> NoBlock,
               block  |-> NoBlock])
    /\ ConsumersUnchanged
    /\ UNCHANGED <<tailIndex, tailBlock, blockVars, freeBlocks, failedAssert, headers, entries>>

\* A call fails: what enqueue_bulk did so far it reverts, block by block.
GiveUp ==
    IF eq.first = NoBlock
    THEN EqGoto(Idle) /\ tailBlock' = eq.start
    ELSE EqGoto([eq EXCEPT !.pc = "revertEntry", !.base = LastBase, !.block = eq.first])
         /\ UNCHANGED tailBlock

ImplicitLoadHead ==
    LET base == Index(eq.base + BLOCK_SIZE)
    IN  /\ eq.pc = "loadHead"
        /\ IF NoLeeway(base) THEN GiveUp
           ELSE /\ EqGoto([eq EXCEPT !.pc = "insert", !.need = @ - 1, !.base = base])
                /\ UNCHANGED tailBlock
        /\ failedAssert' = (failedAssert \/ CircularLess(base, headIndex))
        /\ ConsumersUnchanged
        /\ UNCHANGED <<tailIndex, blockVars, freeBlocks, headers, entries>>

\* insert_block_index_entry
HasFreeEntry ==
    /\ headers # << >>
    /\ LET e == entries[EntryIn(Newest, NextSlot)]
       IN  e.key = INVALID_BLOCK_BASE \/ e.value = NoBlock

InsertKey ==
    /\ eq.pc = "insert"
    /\ \/ /\ HasFreeEntry
          /\ entries' = [entries EXCEPT ![EntryIn(Newest, NextSlot)].key = eq.base]
          /\ EqGoto([eq EXCEPT !.pc = "insertTail"])
          /\ UNCHANGED tailBlock
       \/ /\ ~HasFreeEntry
          /\ headers # << >> /\ eq.mode = "CanAlloc"
          /\ EqGoto([eq EXCEPT !.pc = "grow"])
          /\ UNCHANGED <<entries, tailBlock>>
       \/ /\ ~HasFreeEntry
          /\ headers = << >> \/ eq.mode = "CannotAlloc"
          /\ GiveUp
          /\ UNCHANGED entries
    /\ ConsumersUnchanged
    /\ UNCHANGED <<tailIndex, blockVars, freeBlocks, failedAssert, headers>>

InsertGrow ==
    /\ eq.pc = "grow"
    /\ \/ /\ headers' = Append(headers, [capacity |-> GrownCapacity, tail |-> GrownTail,
                                         index |-> GrownIndex])
          /\ LET new == NewEntries(headers[Newest].capacity)
             IN  entries' = entries \o [new EXCEPT ![1].key = eq.base]
          /\ EqGoto([eq EXCEPT !.pc = "insertTail"])
          /\ UNCHANGED tailBlock
       \/ sub.fails /\ GiveUp /\ UNCHANGED <<headers, entries>>
    /\ ConsumersUnchanged
    /\ UNCHANGED <<tailIndex, blockVars, freeBlocks, failedAssert>>

InsertTail ==
    /\ eq.pc = "insertTail"
    /\ SetIndexTail(NextSlot)
    /\ EqGoto([eq EXCEPT !.pc = "requisition"])
    /\ ConsumersUnchanged
    /\ UNCHANGED <<tailIndex, tailBlock, blockVars, freeBlocks, failedAssert, entries>>

ImplicitRequisition ==
    /\ eq.pc = "requisition"
    /\ \E b \in Requisition(eq.mode) :
           IF b = NoBlock
           THEN /\ EqGoto([eq EXCEPT !.pc = "rewind", !.block = NoBlock])
                /\ UNCHANGED <<nextBlock, emptyFlags, elementsCompletelyDequeued, freeBlocks>>
           ELSE /\ freeBlocks' = freeBlocks \ {b}
                /\ ResetEmpty({b})
                /\ nextBlock' = IF eq.single THEN nextBlock ELSE [nextBlock EXCEPT ![b] = NoBlock]
                /\ EqGoto([eq EXCEPT !.pc = IF eq.single /\ sub.throws THEN "tryConstruct"
                                            ELSE "setValue",
                                     !.block = b])
    /\ ConsumersUnchanged
    /\ UNCHANGED <<tailIndex, tailBlock, elements, failedAssert, headers, entries>>

\* enqueue: the constructor may throw before the block is in the index.
TryConstruct ==
    /\ eq.pc = "tryConstruct"
    /\ \E next \in {"setValue", "rewind"} : EqGoto([eq EXCEPT !.pc = next])
    /\ ConsumersUnchanged
    /\ UNCHANGED <<tailIndex, tailBlock, blockVars, freeBlocks, failedAssert, headers, entries>>

\* The block is put in the index and, by enqueue_bulk, on the chain.
SetValue ==
    LET b == eq.block
    IN  /\ eq.pc = "setValue"
        /\ entries' = [entries EXCEPT ![EntryIn(Newest, headers[Newest].tail)].value = b]
        /\ tailBlock' = b
        /\ nextBlock' = IF ~eq.single /\ (Offset(tailIndex) # 0 \/ eq.first # NoBlock)
                        THEN [nextBlock EXCEPT ![tailBlock] = b] ELSE nextBlock
        /\ EqGoto([eq EXCEPT !.pc = IF eq.need = 0 THEN "construct" ELSE "loadHead",
                             !.first = IF @ = NoBlock THEN b ELSE @])
        /\ ConsumersUnchanged
        /\ UNCHANGED <<tailIndex, elements, emptyFlags, elementsCompletelyDequeued, freeBlocks,
                       failedAssert, headers>>

\* The elements are constructed; if that throws, enqueue_bulk reverts.
Construct ==
    /\ eq.pc = "construct"
    /\ \/ /\ ConstructFrom(IF Offset(tailIndex) = 0 THEN eq.first ELSE eq.start, eq.n)
          /\ EqGoto([eq EXCEPT !.pc = "publishTail"])
          /\ UNCHANGED tailBlock
       \/ /\ sub.throws
          /\ eq.single => eq.first = NoBlock
          /\ GiveUp
          /\ UNCHANGED elements
    /\ ConsumersUnchanged
    /\ UNCHANGED <<tailIndex, nextBlock, emptyFlags, elementsCompletelyDequeued, freeBlocks,
                   failedAssert, headers, entries>>

PublishTail ==
    /\ eq.pc = "publishTail"
    /\ tailIndex' = Index(tailIndex + eq.n)
    /\ EqGoto(Idle)
    /\ ConsumersUnchanged
    /\ UNCHANGED <<tailBlock, blockVars, freeBlocks, failedAssert, headers, entries>>

-----------------------------------------------------------------------------
(***************************************************************************)
(* What a call that fails undoes: rewind_block_index_tail and the value of *)
(* the entry it was inserting; then, for each block of enqueue_bulk, its   *)
(* entry; and the blocks go back.                                          *)
(***************************************************************************)
\* Mistake: the tail stays at the slot of a block that was not to be had.
RewindNot ==
    /\ eq.pc = "rewind"
    /\ EqGoto([eq EXCEPT !.pc = "clearValue"])
    /\ ConsumersUnchanged
    /\ UNCHANGED <<tailIndex, tailBlock, blockVars, freeBlocks, failedAssert, entries, headers>>

Rewind ==
    /\ eq.pc = "rewind"
    /\ SetIndexTail(PrevSlot)
    /\ EqGoto([eq EXCEPT !.pc = "clearValue"])
    /\ ConsumersUnchanged
    /\ UNCHANGED <<tailIndex, tailBlock, blockVars, freeBlocks, failedAssert, entries>>

ClearValue ==
    /\ eq.pc = "clearValue"
    /\ entries' = [entries EXCEPT ![EntryIn(Newest, NextSlot)].value = NoBlock]
    /\ IF eq.block = NoBlock THEN GiveUp
       ELSE EqGoto([eq EXCEPT !.pc = "returnBlock"]) /\ UNCHANGED tailBlock
    /\ ConsumersUnchanged
    /\ UNCHANGED <<tailIndex, blockVars, freeBlocks, failedAssert, headers>>

\* enqueue, when the constructor has thrown: add_block_to_free_list.
ReturnBlock ==
    /\ eq.pc = "returnBlock"
    /\ freeBlocks' = freeBlocks \cup {eq.block}
    /\ EqGoto(Idle)
    /\ ConsumersUnchanged
    /\ UNCHANGED <<tailIndex, tailBlock, blockVars, failedAssert, headers, entries>>

RevertEntry ==
    LET base == Index(eq.base + BLOCK_SIZE)
    IN  /\ eq.pc = "revertEntry"
        /\ entries' = [entries EXCEPT ![EntryFor(base)].value = NoBlock]
        /\ failedAssert' = (failedAssert \/ ~IsEntryOf(base, EntryFor(base)))
        /\ EqGoto([eq EXCEPT !.pc = "revertTail", !.base = base])
        /\ ConsumersUnchanged
        /\ UNCHANGED <<tailIndex, tailBlock, blockVars, freeBlocks, headers>>

RevertTail ==
    /\ eq.pc = "revertTail"
    /\ SetIndexTail(PrevSlot)
    /\ EqGoto([eq EXCEPT !.pc = IF nextBlock[eq.block] = NoBlock THEN "release" ELSE "revertEntry",
                         !.block = nextBlock[eq.block]])
    /\ ConsumersUnchanged
    /\ UNCHANGED <<tailIndex, tailBlock, blockVars, freeBlocks, failedAssert, entries>>

Release ==
    /\ eq.pc = "release"
    /\ freeBlocks' = freeBlocks \cup ToSet(ChainFrom(eq.first))
    /\ tailBlock' = eq.start
    /\ EqGoto(Idle)
    /\ ConsumersUnchanged
    /\ UNCHANGED <<tailIndex, blockVars, failedAssert, headers, entries>>

-----------------------------------------------------------------------------
(***************************************************************************)
(* dequeue and dequeue_bulk, from the first index on.  Who flags the last  *)
(* slot of a block as empty takes it off the index and gives it back.      *)
(***************************************************************************)
LocateLoadIndex(c) ==
    /\ dq[c].pc = "locate"
    /\ DqGoto(c, [pc |-> "loadTail", index |-> dq[c].index, stop |-> dq[c].stop, header |-> Newest])
    /\ UNCHANGED <<elements, elementsCompletelyDequeued, emptyFlags, entries, freeBlocks, failedAssert>>

LocateLoadTail(c) ==
    /\ dq[c].pc = "loadTail"
    /\ DqGoto(c, [pc |-> "offset", index |-> dq[c].index, stop |-> dq[c].stop,
                  header |-> dq[c].header, slot |-> headers[dq[c].header].tail])
    /\ UNCHANGED <<elements, elementsCompletelyDequeued, emptyFlags, entries, freeBlocks, failedAssert>>

LocateOffset(c) ==
    LET base == BaseOf(dq[c].index)
        slot == SlotFor(base, dq[c].header, dq[c].slot)
    IN  /\ dq[c].pc = "offset"
        /\ DqGoto(c, [dq[c] EXCEPT !.pc = "move", !.slot = slot])
        /\ failedAssert' = (\/ failedAssert
                            \/ entries[EntryIn(dq[c].header, dq[c].slot)].key = INVALID_BLOCK_BASE
                            \/ ~IsEntryOf(base, EntryIn(dq[c].header, slot)))
        /\ UNCHANGED <<elements, elementsCompletelyDequeued, emptyFlags, entries, freeBlocks>>

EntryAt(c) == EntryIn(dq[c].header, dq[c].slot)

Move(c) ==
    LET b == entries[EntryAt(c)].value
    IN  /\ dq[c].pc = "move"
        /\ b # NoBlock
        /\ MoveOut(c, b)
        /\ DqGoto(c, [pc |-> "setEmpty", index |-> dq[c].index, stop |-> dq[c].stop,
                      header |-> dq[c].header, slot |-> dq[c].slot, block |-> b])
        /\ UNCHANGED <<elementsCompletelyDequeued, emptyFlags, entries, freeBlocks, failedAssert>>

\* Done with a block: on to the next, or to return.
NextBlockOf(c) ==
    IF EndOf(c) = dq[c].stop THEN Idle
    ELSE [pc |-> "move", index |-> EndOf(c), stop |-> dq[c].stop, header |-> dq[c].header,
          slot |-> (dq[c].slot + 1) % headers[dq[c].header].capacity]

\* Mistake: that the block is empty goes unnoticed.
SetEmptyUnnoticed(c) ==
    /\ dq[c].pc = "setEmpty"
    /\ SetManyEmpty(dq[c].block, InBlock(c))
    /\ DqGoto(c, NextBlockOf(c))
    /\ UNCHANGED <<elements, entries, freeBlocks>>

SetEmpty(c) ==
    LET b == dq[c].block
    IN  /\ dq[c].pc = "setEmpty"
        /\ SetManyEmpty(b, InBlock(c))
        /\ DqGoto(c, IF elementsCompletelyDequeued'[b] = BLOCK_SIZE
                     THEN [dq[c] EXCEPT !.pc = "takeOff"] ELSE NextBlockOf(c))
        /\ UNCHANGED <<elements, entries, freeBlocks>>

TakeOffIndex(c) ==
    /\ dq[c].pc = "takeOff"
    /\ entries' = [entries EXCEPT ![EntryAt(c)].value = NoBlock]
    /\ DqGoto(c, [dq[c] EXCEPT !.pc = "free"])
    /\ UNCHANGED <<elements, elementsCompletelyDequeued, emptyFlags, freeBlocks, failedAssert>>

FreeBlock(c) ==
    /\ dq[c].pc = "free"
    /\ freeBlocks' = freeBlocks \cup {dq[c].block}
    /\ DqGoto(c, NextBlockOf(c))
    /\ UNCHANGED <<elements, elementsCompletelyDequeued, emptyFlags, entries, failedAssert>>

ImplicitDequeue(c) ==
    /\ \/ LocateLoadIndex(c) \/ LocateLoadTail(c) \/ LocateOffset(c) \/ Move(c)
       \/ SetEmpty(c) \/ TakeOffIndex(c) \/ FreeBlock(c)
    /\ UNCHANGED <<sub, counterVars, tailBlock, nextBlock, headers, eq>>

-----------------------------------------------------------------------------
ImplicitEnqueue ==
    \/ \E mode \in sub.modes :
          \/ ImplicitBegin(1, mode, TRUE)
          \/ \E n \in sub.bulks : ImplicitBegin(n, mode, FALSE)
    \/ ImplicitLoadHead \/ InsertKey \/ InsertGrow \/ InsertTail \/ ImplicitRequisition
    \/ TryConstruct \/ SetValue \/ Construct \/ PublishTail
    \/ Rewind \/ ClearValue \/ ReturnBlock \/ RevertEntry \/ RevertTail \/ Release

ImplicitNext ==
    \/ ImplicitEnqueue
    \/ \E c \in DequeueThreads : (Dequeue(c) /\ UNCHANGED entries) \/ ImplicitDequeue(c)

-----------------------------------------------------------------------------
(***************************************************************************)
(* ~ImplicitProducer: the slots it destroys the elements of, and the       *)
(* blocks it gives back.                                                   *)
(***************************************************************************)
BlockFor(i) == entries[EntryFor(BaseOf(i))].value
Remaining == Indices(headIndex, tailIndex)

ImplicitDestroyed == {<<BlockFor(i), Offset(i)>> : i \in Remaining}

ImplicitReturned ==
    \* the walk returns each block when it goes on to the next
    {BlockFor(i) : i \in {j \in Remaining : BaseOf(j) # BaseOf(tailIndex - 1)}}
    \cup IF tailBlock # NoBlock /\ (Remaining # {} \/ Offset(tailIndex) # 0)
         THEN {tailBlock} ELSE {}
=====================================================================================================================================================

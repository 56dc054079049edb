----------------------------- MODULE SPSCQueue -----------------------------
(***************************************************************************)
(* rigtorp::SPSCQueue (includes/SPSCQueue.h): a ring with a slack slot.    *)
(* Each thread keeps a copy of the other's index and looks at the index    *)
(* itself only when the copy says full, or empty.  A step makes at most    *)
(* one access to memory that both threads use.                             *)
(*                                                                         *)
(* An acquire load may return any index stored since the one the thread    *)
(* knows.  The consumer calls pop() only when front() has returned a slot. *)
(***************************************************************************)
EXTENDS Naturals, Sequences

CONSTANTS
    Capacities,     \* the constructor arguments tried
    SpscData,       \* the values of T
    NoObject        \* a slot without an object

ASSUME SPSCQueueAssumption == Capacities \subseteq Nat /\ NoObject \notin SpscData

VARIABLES
    capacity_,      \* the slots, the slack one included
    slots_,
    writeIdx_,
    readIdx_,
    readIdxCache_,
    writeIdxCache_,
    emplacePc,      \* where the producer is inside emplace or try_emplace
    emplaceBlocks,  \* it is in emplace
    emplaceValue,   \* its argument
    popPc,          \* where the consumer is inside front or pop
    atFront,        \* the object front() returned a pointer to, until it is popped
    spscOut         \* auxiliary: the object popped last

emplaceVars == <<emplacePc, emplaceBlocks, emplaceValue>>
popVars == <<popPc, atFront, spscOut>>
spscVars == <<capacity_, slots_, writeIdx_, readIdx_, readIdxCache_,
              writeIdxCache_, emplaceVars, popVars>>

\* The constructor: at least one element, and a slack slot.
SlotsFor(capacity) == (IF capacity < 1 THEN 1 ELSE capacity) + 1

SpscInit ==
    /\ capacity_ \in {SlotsFor(c) : c \in Capacities}
    /\ slots_ = [i \in 0 .. capacity_ - 1 |-> NoObject]
    /\ writeIdx_ = 0
    /\ readIdx_ = 0
    /\ readIdxCache_ = 0
    /\ writeIdxCache_ = 0
    /\ emplacePc = "idle"
    /\ emplaceBlocks = FALSE
    /\ emplaceValue = NoObject
    /\ popPc = "idle"
    /\ atFront = NoObject
    /\ spscOut = NoObject

NextIdx(i) == IF i + 1 = capacity_ THEN 0 ELSE i + 1

\* The slots from index i up to, not including, index j.
Distance(i, j) == (j + capacity_ - i) % capacity_

\* What a load may return: the indices from the one known to the newest.
Loads(known, newest) == {(known + k) % capacity_ : k \in 0 .. Distance(known, newest)}

-----------------------------------------------------------------------------
(***************************************************************************)
(* emplace() and try_emplace(), by the producer.                           *)
(***************************************************************************)
EmplaceBegin(d, blocks) ==
    /\ emplacePc = "idle"
    /\ emplaceValue' = d
    /\ emplaceBlocks' = blocks
    /\ emplacePc' = IF NextIdx(writeIdx_) = readIdxCache_ THEN "load" ELSE "construct"
    /\ UNCHANGED <<capacity_, slots_, writeIdx_, readIdx_, readIdxCache_,
                   writeIdxCache_, popVars>>

EmplaceLoad(i) ==
    /\ emplacePc = "load"
    /\ i \in Loads(readIdxCache_, readIdx_)
    /\ readIdxCache_' = i
    /\ emplacePc' = IF NextIdx(writeIdx_) # i THEN "construct"
                    ELSE IF emplaceBlocks THEN "load" ELSE "idle"
    /\ UNCHANGED <<capacity_, slots_, writeIdx_, readIdx_, writeIdxCache_,
                   emplaceBlocks, emplaceValue, popVars>>

EmplaceConstruct ==
    /\ emplacePc = "construct"
    /\ slots_' = [slots_ EXCEPT ![writeIdx_] = emplaceValue]
    /\ emplacePc' = "store"
    /\ UNCHANGED <<capacity_, writeIdx_, readIdx_, readIdxCache_,
                   writeIdxCache_, emplaceBlocks, emplaceValue, popVars>>

EmplaceStore ==
    /\ emplacePc = "store"
    /\ writeIdx_' = NextIdx(writeIdx_)
    /\ emplacePc' = "idle"
    /\ UNCHANGED <<capacity_, slots_, readIdx_, readIdxCache_,
                   writeIdxCache_, emplaceBlocks, emplaceValue, popVars>>

-----------------------------------------------------------------------------
(***************************************************************************)
(* front() and pop(), by the consumer.                                     *)
(***************************************************************************)
\* front(), when the copy says the ring is not empty ...
FrontCached ==
    /\ popPc = "idle"
    /\ readIdx_ # writeIdxCache_
    /\ atFront' = slots_[readIdx_]
    /\ UNCHANGED <<capacity_, slots_, writeIdx_, readIdx_, readIdxCache_,
                   writeIdxCache_, emplaceVars, popPc, spscOut>>

\* ... and when it has to look.
FrontLoad(i) ==
    /\ popPc = "idle"
    /\ readIdx_ = writeIdxCache_
    /\ i \in Loads(writeIdxCache_, writeIdx_)
    /\ writeIdxCache_' = i
    /\ atFront' = IF i = readIdx_ THEN NoObject ELSE slots_[readIdx_]
    /\ UNCHANGED <<capacity_, slots_, writeIdx_, readIdx_, readIdxCache_,
                   emplaceVars, popPc, spscOut>>

\* Mistake: the index is advanced before the object is destroyed.
PopDestroyLate ==
    /\ popPc = "idle"
    /\ atFront # NoObject
    /\ readIdx_' = NextIdx(readIdx_)
    /\ spscOut' = slots_[readIdx_]
    /\ popPc' = "store"
    /\ UNCHANGED <<capacity_, slots_, writeIdx_, readIdxCache_,
                   writeIdxCache_, emplaceVars, atFront>>

PopDestroy ==
    /\ popPc = "idle"
    /\ atFront # NoObject
    /\ slots_' = [slots_ EXCEPT ![readIdx_] = NoObject]
    /\ spscOut' = slots_[readIdx_]
    /\ atFront' = NoObject
    /\ popPc' = "store"
    /\ UNCHANGED <<capacity_, writeIdx_, readIdx_, readIdxCache_,
                   writeIdxCache_, emplaceVars>>

PopStore ==
    /\ popPc = "store"
    /\ readIdx_' = NextIdx(readIdx_)
    /\ popPc' = "idle"
    /\ UNCHANGED <<capacity_, slots_, writeIdx_, readIdxCache_,
                   writeIdxCache_, emplaceVars, atFront, spscOut>>

-----------------------------------------------------------------------------
Indices == 0 .. capacity_ - 1

EmplaceSteps == (\E i \in Indices : EmplaceLoad(i)) \/ EmplaceConstruct \/ EmplaceStore

SpscNext ==
    \/ \E d \in SpscData, blocks \in BOOLEAN : EmplaceBegin(d, blocks)
    \/ EmplaceSteps
    \/ FrontCached
    \/ \E i \in Indices : FrontLoad(i)
    \/ PopDestroy
    \/ PopStore

-----------------------------------------------------------------------------
SpscItems ==
    LET first == IF popPc = "store" THEN NextIdx(readIdx_) ELSE readIdx_
    IN  [k \in 1 .. Distance(first, writeIdx_) |-> slots_[(first + k - 1) % capacity_]]

\* Objects are popped in the order they were emplaced, each once, and as many fit
\* as the constructor was asked for, but at least one (SPSCQueue.h:58-66, 104-191).
\* So no slot inside is written to, the one front() points to included.
SpscFifo == INSTANCE BoundedFifo WITH items <- SpscItems, out <- spscOut,
                                  capacity <- capacity_ - 1,
                                  Data <- SpscData, NoData <- NoObject
SpscImplementsFifo == SpscFifo!Spec

\* emplace() on a full queue goes on once an object was popped
\* (SPSCQueue.h:114-116).
EmplaceReturns ==
    (emplacePc # "idle" /\ Len(SpscItems) < capacity_ - 1) ~> emplacePc = "idle"
=============================================================================

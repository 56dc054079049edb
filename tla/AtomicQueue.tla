---------------------------- MODULE AtomicQueue ----------------------------
(***************************************************************************)
(* atomic_queue (includes/atomic_queue/atomic_queue.h): AtomicQueueCommon  *)
(* and the two kinds of slot below it.  A call takes a ticket from head_   *)
(* or tail_ and then waits at the ticket's slot: a producer until it is    *)
(* empty, a consumer until it is full.  Nothing ties a slot to the lap of  *)
(* a ticket, so only single-producer single-consumer use is a FIFO.        *)
(*                                                                         *)
(* aqConfig says which queue: any (do_push_any and do_pop_any: a state     *)
(* byte beside the element, AtomicQueue2 and B2) or not (do_push_atomic    *)
(* and do_pop_atomic: the element is its own state, AtomicQueue and B);    *)
(* spsc (the template argument SPSC); size_; and how it is used: threads   *)
(* in onlyTries call try_push and try_pop alone, as the consumer of        *)
(* benchmark_spsc.cpp:249-256 does.  Counters are unsigned of Modulus      *)
(* values and wrap for real.  Loads return the newest store.               *)
(***************************************************************************)
EXTENDS Integers, Sequences, FiniteSets

CONSTANTS
    AqConfigs,      \* the queues tried: [any, spsc, size, pushers, poppers, onlyTries]
    Modulus,        \* how many values unsigned has
    Nil             \* the element of an empty slot: NIL, or none

ASSUME AtomicQueueAssumption ==
    /\ Modulus \in Nat \ {0}
    /\ \A c \in AqConfigs :
           /\ c.any \in BOOLEAN
           /\ c.size \in Nat \ {0}
           /\ IsFiniteSet(c.pushers) /\ IsFiniteSet(c.poppers)
           /\ c.pushers \cap c.poppers = {} /\ Nil \notin c.pushers \X {0, 1}
           /\ c.spsc => Cardinality(c.pushers) <= 1 /\ Cardinality(c.poppers) <= 1
           /\ Modulus % c.size = 0
           /\ c.size + Cardinality(c.pushers) < Modulus \div 2
           /\ Cardinality(c.poppers) <= Modulus \div 2

VARIABLES
    aqConfig,
    aqHead,         \* head_
    aqTail,         \* tail_
    states_,        \* for each slot: EMPTY, STORING, STORED, LOADING
    elements_,      \* for each slot, its element
    aqPc,           \* for each thread, where it is inside its call
    aqTicket,       \* for each thread, its head or tail
    serial,         \* for each producer, which of its elements is next
    taken           \* auxiliary: the element popped last

aqVars == <<aqConfig, aqHead, aqTail, states_, elements_, aqPc, aqTicket, serial, taken>>

Pushers == aqConfig.pushers
Poppers == aqConfig.poppers
Users == Pushers \cup Poppers
size_ == aqConfig.size
Element(p) == <<p, serial[p]>>

\* Two elements tell a FIFO from another order; a pool needs only one.
NextSerial(n) == IF aqConfig.spsc THEN 1 - n ELSE n

\* unsigned arithmetic, and static_cast<int>.
Plus1(n) == (n + 1) % Modulus
AsInt(n) == IF n % Modulus < Modulus \div 2 THEN n % Modulus ELSE (n % Modulus) - Modulus

\* The slot of a ticket; remap_index only permutes the slots.
SlotOf(ticket) == ticket % size_

AqInit ==
    /\ aqConfig \in AqConfigs
    /\ aqHead = 0
    /\ aqTail = 0
    /\ states_ = [s \in 0 .. size_ - 1 |-> "EMPTY"]
    /\ elements_ = [s \in 0 .. size_ - 1 |-> Nil]
    /\ aqPc = [t \in Users |-> "idle"]
    /\ aqTicket = [t \in Users |-> 0]
    /\ serial = [p \in Pushers |-> 0]
    /\ taken = Nil

AqGoto(t, label) == aqPc' = [aqPc EXCEPT ![t] = label]

\* The call returns; its locals are gone.
AqReturn(t) == AqGoto(t, "idle") /\ aqTicket' = [aqTicket EXCEPT ![t] = 0]

\* The thread has a ticket, from a push or pop, or from a try_push or try_pop.
HasTicket(t) == aqPc[t] \in {"wait", "tryWait"}

\* The threads of the same kind, and the counter they take their tickets from.
Side(t) == IF t \in Pushers THEN Pushers ELSE Poppers
AqCounter(t) == IF t \in Pushers THEN aqHead ELSE aqTail

\* Bound: between its load of a counter and its compare_exchange a thread is not
\* overtaken by half the range of unsigned (two thousand million calls).
Overtakes(t) ==
    \E u \in Side(t) :
        /\ aqPc[u] \in {"compare", "advance"}
        /\ AsInt(AqCounter(t) - aqTicket[u]) = Modulus \div 2 - 1

AqAdvance(t) ==
    /\ ~Overtakes(t)
    /\ IF t \in Pushers THEN aqHead' = Plus1(aqHead) /\ UNCHANGED aqTail
                        ELSE aqTail' = Plus1(aqTail) /\ UNCHANGED aqHead

-----------------------------------------------------------------------------
(***************************************************************************)
(* push() and pop() take a ticket whatever the size: with one store of a   *)
(* thread's own counter (spsc), or with fetch_add.                         *)
(***************************************************************************)
TakeTicket(t) ==
    /\ aqPc[t] = "idle"
    /\ t \notin aqConfig.onlyTries
    /\ aqTicket' = [aqTicket EXCEPT ![t] = AqCounter(t)]
    /\ AqAdvance(t)
    /\ AqGoto(t, "wait")
    /\ UNCHANGED <<aqConfig, states_, elements_, serial, taken>>

(***************************************************************************)
(* try_push() and try_pop(): the counter is loaded, compared with the      *)
(* other one and advanced: with a store (spsc) or a compare_exchange_weak, *)
(* which loads it again when it fails and may fail for no reason.          *)
(***************************************************************************)
TryLoadCounter(t) ==
    /\ aqPc[t] = "idle"
    /\ aqTicket' = [aqTicket EXCEPT ![t] = AqCounter(t)]
    /\ AqGoto(t, "compare")
    /\ UNCHANGED <<aqConfig, aqHead, aqTail, states_, elements_, serial, taken>>

Compare(t) ==
    /\ aqPc[t] = "compare"
    /\ LET refused == IF t \in Pushers THEN AsInt(aqTicket[t] - aqTail) >= size_
                                       ELSE AsInt(aqHead - aqTicket[t]) <= 0
       IN  IF refused THEN AqReturn(t) ELSE AqGoto(t, "advance") /\ UNCHANGED aqTicket
    /\ UNCHANGED <<aqConfig, aqHead, aqTail, states_, elements_, serial, taken>>

\* Mistake: a compare_exchange that failed is tried again at once.
AdvanceCounterUnchecked(t) ==
    /\ aqPc[t] = "advance"
    /\ \/ /\ aqTicket[t] = AqCounter(t)
          /\ AqAdvance(t)
          /\ AqGoto(t, "tryWait")
          /\ UNCHANGED aqTicket
       \/ /\ ~aqConfig.spsc
          /\ aqTicket' = [aqTicket EXCEPT ![t] = AqCounter(t)]
          /\ UNCHANGED aqPc
          /\ UNCHANGED <<aqHead, aqTail>>
    /\ UNCHANGED <<aqConfig, states_, elements_, serial, taken>>

AdvanceCounter(t) ==
    /\ aqPc[t] = "advance"
    /\ \/ /\ aqTicket[t] = AqCounter(t)
          /\ AqAdvance(t)
          /\ AqGoto(t, "tryWait")
          /\ UNCHANGED aqTicket
       \/ /\ ~aqConfig.spsc
          /\ aqTicket' = [aqTicket EXCEPT ![t] = AqCounter(t)]
          /\ AqGoto(t, "compare")
          /\ UNCHANGED <<aqHead, aqTail>>
    /\ UNCHANGED <<aqConfig, states_, elements_, serial, taken>>

-----------------------------------------------------------------------------
(***************************************************************************)
(* do_push_atomic and do_pop_atomic: the element is exchanged with NIL in  *)
(* one access (spsc: a load, then a store nobody else can come before).    *)
(***************************************************************************)
PushAtomic(t) ==
    /\ HasTicket(t)
    /\ ~aqConfig.any
    /\ t \in Pushers
    /\ elements_[SlotOf(aqTicket[t])] = Nil
    /\ elements_' = [elements_ EXCEPT ![SlotOf(aqTicket[t])] = Element(t)]
    /\ serial' = [serial EXCEPT ![t] = NextSerial(@)]
    /\ AqReturn(t)
    /\ UNCHANGED <<aqConfig, aqHead, aqTail, states_, taken>>

PopAtomic(t) ==
    /\ HasTicket(t)
    /\ ~aqConfig.any
    /\ t \in Poppers
    /\ elements_[SlotOf(aqTicket[t])] # Nil
    /\ taken' = elements_[SlotOf(aqTicket[t])]
    /\ elements_' = [elements_ EXCEPT ![SlotOf(aqTicket[t])] = Nil]
    /\ AqReturn(t)
    /\ UNCHANGED <<aqConfig, aqHead, aqTail, states_, serial>>

(***************************************************************************)
(* do_push_any and do_pop_any: a compare_exchange_weak of the state keeps  *)
(* the other threads out (spsc: a load is enough), the element is moved,   *)
(* the state is stored.                                                    *)
(***************************************************************************)
\* Mistake: the slot is not claimed by the compare_exchange.
ClaimSlotByLoad(t) ==
    /\ HasTicket(t)
    /\ aqConfig.any
    /\ states_[SlotOf(aqTicket[t])] = (IF t \in Pushers THEN "EMPTY" ELSE "STORED")
    /\ AqGoto(t, "move")
    /\ UNCHANGED <<aqConfig, aqHead, aqTail, states_, elements_, aqTicket, serial, taken>>

ClaimSlot(t) ==
    /\ HasTicket(t)
    /\ aqConfig.any
    /\ states_[SlotOf(aqTicket[t])] = (IF t \in Pushers THEN "EMPTY" ELSE "STORED")
    /\ IF aqConfig.spsc
       THEN UNCHANGED states_
       ELSE states_' = [states_ EXCEPT ![SlotOf(aqTicket[t])] =
                           IF t \in Pushers THEN "STORING" ELSE "LOADING"]
    /\ AqGoto(t, "move")
    /\ UNCHANGED <<aqConfig, aqHead, aqTail, elements_, aqTicket, serial, taken>>

\* Moved-from, an element is as good as none.
MoveElement(t) ==
    /\ aqPc[t] = "move"
    /\ IF t \in Pushers
       THEN /\ elements_' = [elements_ EXCEPT ![SlotOf(aqTicket[t])] = Element(t)]
            /\ serial' = [serial EXCEPT ![t] = NextSerial(@)]
            /\ UNCHANGED taken
       ELSE /\ taken' = elements_[SlotOf(aqTicket[t])]
            /\ elements_' = [elements_ EXCEPT ![SlotOf(aqTicket[t])] = Nil]
            /\ UNCHANGED serial
    /\ AqGoto(t, "release")
    /\ UNCHANGED <<aqConfig, aqHead, aqTail, states_, aqTicket>>

ReleaseSlot(t) ==
    /\ aqPc[t] = "release"
    /\ states_' = [states_ EXCEPT ![SlotOf(aqTicket[t])] =
                      IF t \in Pushers THEN "STORED" ELSE "EMPTY"]
    /\ AqReturn(t)
    /\ UNCHANGED <<aqConfig, aqHead, aqTail, elements_, serial, taken>>

-----------------------------------------------------------------------------
SlotSteps(t) ==
    \/ PushAtomic(t) \/ PopAtomic(t)
    \/ ClaimSlot(t) \/ MoveElement(t) \/ ReleaseSlot(t)

AqNext ==
    \E t \in Users :
        TakeTicket(t) \/ TryLoadCounter(t) \/ Compare(t) \/ AdvanceCounter(t) \/ SlotSteps(t)

-----------------------------------------------------------------------------
\* The elements inside: as a bag, and for one producer and one consumer in the
\* order of their tickets; a ticket whose element is not moved yet does not count.
Present == {s \in 0 .. size_ - 1 : elements_[s] # Nil}
AqBag == [e \in {elements_[s] : s \in Present} |->
             Cardinality({s \in Present : elements_[s] = e})]
TicketPending(t) == HasTicket(t) \/ aqPc[t] = "move"
PushedCount ==
    (IF \E p \in Pushers : TicketPending(p) THEN aqHead + Modulus - 1 ELSE aqHead) % Modulus
PoppedCount ==
    (IF \E c \in Poppers : TicketPending(c) THEN aqTail + Modulus - 1 ELSE aqTail) % Modulus
AqItems ==
    IF aqConfig.spsc
    THEN [k \in 1 .. (PushedCount + Modulus - PoppedCount) % Modulus |->
              elements_[SlotOf(PoppedCount + k - 1)]]
    ELSE <<>>

AllElements == (UNION {c.pushers : c \in AqConfigs}) \X {0, 1}

\* Whatever the laps of the threads that wait at one slot: each element that was
\* pushed is popped once, and none is overwritten (atomic_queue.h:178-273).
AqPool == INSTANCE Pool WITH items <- AqBag, out <- taken, Data <- AllElements
AqImplementsPool == AqPool!Spec

\* With one producer and one consumer the queue is a FIFO, over any number of
\* wraps of the counters (atomic_queue.h:180-190, 207-212, 226-233, 252-258).
AqFifo == INSTANCE BoundedFifo WITH items <- AqItems,
                                    out <- IF aqConfig.spsc THEN taken ELSE Nil,
                                    capacity <- size_,
                                    Data <- AllElements, NoData <- Nil
AqSpscImplementsFifo == AqFifo!Spec

\* What a thread inside a call has yet to do does not depend on others: it is in its
\* slot, or has a ticket and finds the slot as it needs it.
SlotFits(t) ==
    LET s == SlotOf(aqTicket[t])
    IN  IF aqConfig.any THEN states_[s] = (IF t \in Pushers THEN "EMPTY" ELSE "STORED")
                        ELSE elements_[s] = Nil <=> t \in Pushers
CanGoOn(t) == aqPc[t] \in {"move", "release"} \/ (HasTicket(t) /\ SlotFits(t))

\* Where all producers use try_push (or all consumers try_pop), whatever the other
\* side calls, a try that has its ticket needs no later call: as long as it waits, a
\* call that has its ticket too goes on at the same slot, though the counters move
\* between the comparison and the ticket, pops that wait take tail_ beyond head_, and
\* threads of any laps meet at the slot (atomic_queue.h:178-312).  Beside a push() of
\* another producer it does not hold: the push takes a ticket without looking, may
\* come to the slot first, and the try then waits for a later pop.
TriesNeedNoLaterCall ==
    \A t \in Users :
        HasTicket(t) /\ Side(t) \subseteq aqConfig.onlyTries =>
            \E u \in Users : SlotOf(aqTicket[u]) = SlotOf(aqTicket[t]) /\ CanGoOn(u)

\* With one producer and one consumer a try returns, whatever either calls: there is
\* no other ticket of its side to come to the slot first (atomic_queue.h:277-312).
AqSpscTriesReturn ==
    \A t \in UNION {c.pushers \cup c.poppers : c \in {d \in AqConfigs : d.spsc}} :
        (aqConfig.spsc /\ aqPc[t] = "tryWait") ~> aqPc[t] = "idle"
=============================================================================

-------------------------- MODULE AtomicQueueMutex --------------------------
(***************************************************************************)
(* AtomicQueueMutexT (includes/atomic_queue/atomic_queue_mutex.h): a ring  *)
(* of size slots under a lock, and the locks of spinlock.h it can have:    *)
(* Spinlock and std::mutex ("system": external, they let one thread in),   *)
(* and TicketSpinlock, released by its LockGuard ("ticket") or by unlock() *)
(* without an argument, as std::lock_guard would ("ticket, no argument").  *)
(*                                                                         *)
(* Each access to shared memory is a step.  head_, tail_ and the tickets   *)
(* are unsigned of Lap values and wrap for real.                           *)
(***************************************************************************)
EXTENDS Naturals, Sequences, FiniteSets

CONSTANTS
    Locks,          \* the kinds of lock tried
    RingSize,       \* size_
    Lap,            \* how many values unsigned has
    RingPushers,    \* the threads that call try_push
    RingPoppers,    \* the threads that call try_pop
    RingData,       \* the values of T
    Blank           \* no value; nobody

RingThreads == RingPushers \cup RingPoppers

ASSUME AtomicQueueMutexAssumption ==
    /\ Locks \subseteq {"system", "ticket", "ticket, no argument"}
    /\ RingSize \in Nat \ {0}
    /\ Lap \in Nat \ {0} /\ Lap % RingSize = 0 /\ RingSize < Lap
    /\ IsFiniteSet(RingThreads) /\ Cardinality(RingThreads) < Lap
    /\ RingPushers \cap RingPoppers = {}
    /\ Blank \notin RingData \cup RingThreads

VARIABLES
    lockKind,       \* Mutex
    owner,          \* who holds a system lock
    ticket_,        \* TicketSpinlock::ticket_
    next_,          \* TicketSpinlock::next_
    ringHead,       \* head_
    ringTail,       \* tail_
    q_,
    ringPc,         \* where each thread is
    myTicket,       \* what lock() returned to it
    ringOut         \* auxiliary: the element popped last

lockVars == <<owner, ticket_, next_>>
ringVars == <<lockKind, lockVars, ringHead, ringTail, q_, ringPc, myTicket, ringOut>>

RingInit ==
    /\ lockKind \in Locks
    /\ owner = Blank
    /\ ticket_ = 0
    /\ next_ = 0
    /\ ringHead = 0
    /\ ringTail = 0
    /\ q_ = [i \in 0 .. RingSize - 1 |-> Blank]
    /\ ringPc = [t \in RingThreads |-> "idle"]
    /\ myTicket = [t \in RingThreads |-> 0]
    /\ ringOut = Blank

RingGoto(t, label) == ringPc' = [ringPc EXCEPT ![t] = label]

-----------------------------------------------------------------------------
(***************************************************************************)
(* The locks.                                                              *)
(***************************************************************************)
LockBegin(t) ==
    /\ ringPc[t] = "idle"
    /\ RingGoto(t, IF lockKind = "system" THEN "lock" ELSE "fetchTicket")
    /\ UNCHANGED <<lockKind, lockVars, ringHead, ringTail, q_, myTicket, ringOut>>

SystemLock(t) ==
    /\ ringPc[t] = "lock"
    /\ owner = Blank
    /\ owner' = t
    /\ RingGoto(t, "check")
    /\ UNCHANGED <<lockKind, ticket_, next_, ringHead, ringTail, q_, myTicket, ringOut>>

\* ticket_.fetch_add(1).
FetchTicket(t) ==
    /\ ringPc[t] = "fetchTicket"
    /\ myTicket' = [myTicket EXCEPT ![t] = ticket_]
    /\ ticket_' = (ticket_ + 1) % Lap
    /\ RingGoto(t, "spin")
    /\ UNCHANGED <<lockKind, owner, next_, ringHead, ringTail, q_, ringOut>>

\* The last look at next_: the ticket is the one being served.
SpinUntilNext(t) ==
    /\ ringPc[t] = "spin"
    /\ (myTicket[t] + Lap - next_) % Lap = 0
    /\ RingGoto(t, "check")
    /\ UNCHANGED <<lockKind, lockVars, ringHead, ringTail, q_, myTicket, ringOut>>

\* What unlock(ticket) is called with.
UnlockArgument(t) == IF lockKind = "ticket" THEN myTicket[t] ELSE (next_ + 1) % Lap

\* The lock guard goes out of scope.
RingUnlock(t) ==
    /\ ringPc[t] = "unlock"
    /\ IF lockKind = "system"
       THEN owner' = Blank /\ UNCHANGED <<ticket_, next_>>
       ELSE next_' = (UnlockArgument(t) + 1) % Lap /\ UNCHANGED <<owner, ticket_>>
    /\ RingGoto(t, "idle")
    /\ myTicket' = [myTicket EXCEPT ![t] = 0]
    /\ UNCHANGED <<lockKind, ringHead, ringTail, q_, ringOut>>

-----------------------------------------------------------------------------
(***************************************************************************)
(* try_push and try_pop, inside the lock.  Which element a try_push brings *)
(* is looked at only when it is moved in.                                  *)
(***************************************************************************)
Room == (ringHead + Lap - ringTail) % Lap < RingSize

RingCheck(t) ==
    /\ ringPc[t] = "check"
    /\ RingGoto(t, IF IF t \in RingPushers THEN Room ELSE ringHead # ringTail
                   THEN "move" ELSE "unlock")
    /\ UNCHANGED <<lockKind, lockVars, ringHead, ringTail, q_, myTicket, ringOut>>

RingMove(t) ==
    /\ ringPc[t] = "move"
    /\ IF t \in RingPushers
       THEN /\ \E d \in RingData : q_' = [q_ EXCEPT ![ringHead % RingSize] = d]
            /\ UNCHANGED ringOut
       ELSE /\ ringOut' = q_[ringTail % RingSize]
            /\ UNCHANGED q_
    /\ RingGoto(t, "count")
    /\ UNCHANGED <<lockKind, lockVars, ringHead, ringTail, myTicket>>

RingCount(t) ==
    /\ ringPc[t] = "count"
    /\ IF t \in RingPushers THEN ringHead' = (ringHead + 1) % Lap /\ UNCHANGED ringTail
                            ELSE ringTail' = (ringTail + 1) % Lap /\ UNCHANGED ringHead
    /\ RingGoto(t, "unlock")
    /\ UNCHANGED <<lockKind, lockVars, q_, myTicket, ringOut>>

-----------------------------------------------------------------------------
RingSteps(t) ==
    \/ SystemLock(t) \/ FetchTicket(t) \/ SpinUntilNext(t) \/ RingUnlock(t)
    \/ RingCheck(t) \/ RingMove(t) \/ RingCount(t)

RingNext == \E t \in RingThreads : LockBegin(t) \/ RingSteps(t)

-----------------------------------------------------------------------------
\* An element a pop has copied out but not yet counted is no longer inside.
RingItems ==
    LET gone  == IF \E t \in RingPoppers : ringPc[t] = "count" THEN 1 ELSE 0
        first == (ringTail + gone) % Lap
    IN  [k \in 1 .. (ringHead + Lap - first) % Lap |-> q_[(first + k - 1) % RingSize]]

\* With any of the locks the ring is a FIFO of size_ elements (atomic_queue_mutex.h:
\* 47-66).
RingFifo == INSTANCE BoundedFifo WITH items <- RingItems, out <- ringOut,
                                      capacity <- RingSize, Data <- RingData,
                                      NoData <- Blank
RingImplementsFifo == RingFifo!Spec

\* The ticket lock lets its threads in in the order they came, so each in the end,
\* which a system lock need not (spinlock.h:80-91).
EveryTicketIsServed ==
    \A t \in RingThreads :
        (lockKind # "system" /\ ringPc[t] = "spin") ~> ringPc[t] = "check"
=============================================================================

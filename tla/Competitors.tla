---------------------------- MODULE Competitors ----------------------------
(***************************************************************************)
(* The queues of one file each beside fastq::SPSC in includes/, one at a   *)
(* time, as benchmark_spsc.cpp runs the ones it includes: each behaviour   *)
(* is of the queue chosen at the start, the others stay as they were       *)
(* constructed.                                                            *)
(***************************************************************************)
EXTENDS SPSCQueue, MPMCQueue, AtomicQueue, AtomicQueueMutex, MutexQueue,
        FiniteSetsExt

VARIABLE queue      \* the queue that runs

Queues == {"SPSCQueue", "MPMCQueue", "AtomicQueue", "AtomicQueueMutex", "MutexQueue"}

vars == <<queue, spscVars, mpmcVars, aqVars, ringVars, mutexVars>>

\* The queue chosen is constructed in any of the ways tried, the others in one.
Init ==
    /\ queue \in Queues
    /\ SpscInit /\ (queue # "SPSCQueue" => capacity_ = SlotsFor(Min(Capacities)))
    /\ MpmcInit /\ (queue # "MPMCQueue" => team = CHOOSE t \in Teams : TRUE)
    /\ AqInit /\ (queue # "AtomicQueue" => aqConfig = CHOOSE c \in AqConfigs : TRUE)
    /\ RingInit /\ (queue # "AtomicQueueMutex" => lockKind = CHOOSE l \in Locks : TRUE)
    /\ MutexInit

OnlySpsc ==
    queue = "SPSCQueue" /\ UNCHANGED <<queue, mpmcVars, aqVars, ringVars, mutexVars>>
OnlyMpmc ==
    queue = "MPMCQueue" /\ UNCHANGED <<queue, spscVars, aqVars, ringVars, mutexVars>>
OnlyAq ==
    queue = "AtomicQueue" /\ UNCHANGED <<queue, spscVars, mpmcVars, ringVars, mutexVars>>
OnlyRing ==
    queue = "AtomicQueueMutex" /\ UNCHANGED <<queue, spscVars, mpmcVars, aqVars, mutexVars>>
OnlyMutex ==
    queue = "MutexQueue" /\ UNCHANGED <<queue, spscVars, mpmcVars, aqVars, ringVars>>

Next ==
    \/ OnlySpsc /\ SpscNext
    \/ OnlyMpmc /\ MpmcNext
    \/ OnlyAq /\ AqNext
    \/ OnlyRing /\ RingNext
    \/ OnlyMutex /\ MutexNext

Spec == Init /\ [][Next]_vars

\* What thread t does inside a call.
GoesOn(t) ==
    \/ OnlyMpmc /\ t \in Threads /\ Steps(t)
    \/ OnlyAq /\ t \in Users /\ SlotSteps(t)
    \/ OnlyRing /\ t \in RingThreads /\ RingSteps(t)

\* A thread inside a call runs on, a store is seen in finite time, and a weak
\* compare_exchange on a slot that is free does not fail for ever.  Nothing is
\* asked about when the threads call.
Fairness ==
    /\ WF_vars(OnlySpsc /\ (EmplaceLoad(readIdx_) \/ EmplaceConstruct \/ EmplaceStore))
    /\ WF_vars(OnlySpsc /\ PopStore)
    /\ \A t \in Threads \cup RingThreads : WF_vars(GoesOn(t))

FairSpec == Spec /\ Fairness

-----------------------------------------------------------------------------
\* A queue between one producer and one consumer, and one under a lock, is a FIFO:
\* each element leaves once, unaltered, in the order it came, and there are never
\* more inside than there are slots (SPSCQueue.h:104-191, atomic_queue.h:180-258,
\* atomic_queue_mutex.h:47-66).  So what front() returned is not written to before
\* its pop().
RingsImplementFifo ==
    /\ SpscImplementsFifo
    /\ AqSpscImplementsFifo
    /\ RingImplementsFifo

\* A call that waits returns once what it waits for has happened, and no earlier
\* thread inside its call keeps it from that: emplace() of SPSCQueue (SPSCQueue.h:
\* 114-116), push and pop of MPMCQueue (MPMCQueue.h:171-172, 228-229), between one
\* producer and one consumer a try of atomic_queue that has its ticket
\* (atomic_queue.h:277-312), and lock() of the ticket lock (spinlock.h:80-91).
WaitsEnd ==
    /\ EmplaceReturns
    /\ CallsReturn
    /\ AqSpscTriesReturn
    /\ EveryTicketIsServed
=============================================================================

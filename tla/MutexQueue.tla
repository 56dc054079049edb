----------------------------- MODULE MutexQueue -----------------------------
(***************************************************************************)
(* MutexQueue (includes/mutex_queue.hpp), the locked baseline of the       *)
(* benchmark, and MutexDeque (includes/mutex_deque.hpp), whose write and   *)
(* read take the same steps on another container: a std::lock_guard around *)
(* write, and around read's three accesses to the container, empty(),      *)
(* front() and pop().  Any number of threads may call.                     *)
(*                                                                         *)
(* The container grows without bound in the code; MaxLength bounds it here *)
(* by letting a write begin only when there is room.                       *)
(***************************************************************************)
EXTENDS Naturals, Sequences

CONSTANTS
    Writers,        \* the threads that call write
    Readers,        \* the threads that call read
    NoThread,       \* the mutex is free
    MutexData,      \* the values of T
    NothingRead,    \* an output parameter nobody assigned
    MaxLength       \* bound on the length of the container

ASSUME MutexQueueAssumption ==
    /\ Writers \cap Readers = {}
    /\ NoThread \notin Writers \cup Readers
    /\ NothingRead \notin MutexData
    /\ MaxLength \in Nat

VARIABLES
    q,              \* q (dq)
    m,              \* the thread that holds m, or NoThread
    mutexPc,        \* where each thread is
    data,           \* each thread's parameter: what it writes, what it read
    ok,             \* what each thread's last call returned
    delivered       \* auxiliary: the value a read assigned last

mutexVars == <<q, m, mutexPc, data, ok, delivered>>

Callers == Writers \cup Readers

MutexInit ==
    /\ q = <<>>
    /\ m = NoThread
    /\ mutexPc = [t \in Callers |-> "idle"]
    /\ data = [t \in Callers |-> NothingRead]
    /\ ok = [t \in Callers |-> TRUE]
    /\ delivered = NothingRead

\* std::mutex: lock() returns to one thread at a time.
Acquire(t) == m = NoThread /\ m' = t

-----------------------------------------------------------------------------
(***************************************************************************)
(* write(T data).                                                          *)
(***************************************************************************)
WriteLock(t, d) ==
    /\ mutexPc[t] = "idle"
    /\ Len(q) < MaxLength
    /\ Acquire(t)
    /\ data' = [data EXCEPT ![t] = d]
    /\ mutexPc' = [mutexPc EXCEPT ![t] = "push"]
    /\ UNCHANGED <<q, ok, delivered>>

WritePush(t) ==
    /\ mutexPc[t] = "push"
    /\ q' = Append(q, data[t])
    /\ ok' = [ok EXCEPT ![t] = TRUE]
    /\ mutexPc' = [mutexPc EXCEPT ![t] = "unlock"]
    /\ UNCHANGED <<m, data, delivered>>

(***************************************************************************)
(* bool read(T& data).                                                     *)
(***************************************************************************)
ReadLock(t) ==
    /\ mutexPc[t] = "idle"
    /\ Acquire(t)
    /\ mutexPc' = [mutexPc EXCEPT ![t] = "empty"]
    /\ UNCHANGED <<q, data, ok, delivered>>

ReadEmpty(t) ==
    /\ mutexPc[t] = "empty"
    /\ IF q = <<>>
       THEN /\ ok' = [ok EXCEPT ![t] = FALSE]
            /\ mutexPc' = [mutexPc EXCEPT ![t] = "unlock"]
       ELSE /\ mutexPc' = [mutexPc EXCEPT ![t] = "front"]
            /\ UNCHANGED ok
    /\ UNCHANGED <<q, m, data, delivered>>

\* Mistake: the item written last is read.
ReadBack(t) ==
    /\ mutexPc[t] = "front"
    /\ data' = [data EXCEPT ![t] = q[Len(q)]]
    /\ delivered' = q[Len(q)]
    /\ mutexPc' = [mutexPc EXCEPT ![t] = "pop"]
    /\ UNCHANGED <<q, m, ok>>

ReadFront(t) ==
    /\ mutexPc[t] = "front"
    /\ data' = [data EXCEPT ![t] = Head(q)]
    /\ delivered' = Head(q)
    /\ mutexPc' = [mutexPc EXCEPT ![t] = "pop"]
    /\ UNCHANGED <<q, m, ok>>

ReadPop(t) ==
    /\ mutexPc[t] = "pop"
    /\ q' = Tail(q)
    /\ ok' = [ok EXCEPT ![t] = TRUE]
    /\ mutexPc' = [mutexPc EXCEPT ![t] = "unlock"]
    /\ UNCHANGED <<m, data, delivered>>

\* The lock_guard goes out of scope, on every return.
Unlock(t) ==
    /\ mutexPc[t] = "unlock"
    /\ m' = NoThread
    /\ mutexPc' = [mutexPc EXCEPT ![t] = "idle"]
    /\ UNCHANGED <<q, data, ok, delivered>>

-----------------------------------------------------------------------------
MutexNext ==
    \/ \E t \in Writers : (\E d \in MutexData : WriteLock(t, d)) \/ WritePush(t)
    \/ \E t \in Readers : ReadLock(t) \/ ReadEmpty(t) \/ ReadFront(t) \/ ReadPop(t)
    \/ \E t \in Callers : Unlock(t)

MutexSpec == MutexInit /\ [][MutexNext]_mutexVars

-----------------------------------------------------------------------------
WriterPcs == {"idle", "push", "unlock"}
ReaderPcs == {"idle", "empty", "front", "pop", "unlock"}

MutexTypeOK ==
    /\ q \in Seq(MutexData) /\ Len(q) <= MaxLength
    /\ m \in Callers \cup {NoThread}
    /\ mutexPc \in [Callers -> WriterPcs \cup ReaderPcs]
    /\ \A t \in Writers : mutexPc[t] \in WriterPcs
    /\ \A t \in Readers : mutexPc[t] \in ReaderPcs
    /\ data \in [Callers -> MutexData \cup {NothingRead}]
    /\ ok \in [Callers -> BOOLEAN]
    /\ delivered \in MutexData \cup {NothingRead}

\* What a thread found out under the lock stays true until it acts on it: room
\* for the write, an item for front() after empty() was false, that same item
\* for pop() after front() (mutex_queue.hpp:14-15, 21-28).  The inductive
\* invariant of the refinement.
Inside ==
    /\ \A t \in Callers : mutexPc[t] # "idle" <=> m = t
    /\ \A t \in Callers :
           mutexPc[t] = "push" => Len(q) < MaxLength /\ data[t] \in MutexData
    /\ \A t \in Callers : mutexPc[t] \in {"front", "pop"} => q # <<>>
    /\ \A t \in Callers : mutexPc[t] = "pop" => data[t] = Head(q)

\* The items a read has copied out but not yet popped are no longer inside.
MutexItems == IF \E t \in Callers : mutexPc[t] = "pop" THEN Tail(q) ELSE q

\* However the threads' calls interleave, the queue is a FIFO: each item is read
\* once, in the order written (mutex_queue.hpp:13-31, mutex_deque.hpp:13-29).
MutexFifo == INSTANCE BoundedFifo WITH items <- MutexItems, out <- delivered,
                                        capacity <- MaxLength, Data <- MutexData,
                                        NoData <- NothingRead
MutexImplementsFifo == MutexFifo!Spec
=============================================================================

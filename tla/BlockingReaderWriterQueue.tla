--------------------- MODULE BlockingReaderWriterQueue ---------------------
(***************************************************************************)
(* moodycamel::BlockingReaderWriterQueue (includes/readerwriterqueue.h): a *)
(* ReaderWriterQueue and a LightweightSemaphore that counts its items.     *)
(* The producer enqueues and then signals; the consumer waits for a unit   *)
(* and then dequeues, which must not fail.  With config.blocking FALSE the *)
(* queue is used on its own, as benchmark_spsc.cpp does.                   *)
(***************************************************************************)
EXTENDS ReaderWriterQueue, LightweightSemaphore

VARIABLES
    producerCall,   \* the producer: "idle", "enqueue", "signal"
    consumerCall    \* the consumer: "idle", "wait" (for a unit), "dequeue"

allVars == <<rwqVars, semaVars, producerCall, consumerCall>>

BlockingInit ==
    /\ RWQInit
    /\ SemaInit
    /\ producerCall = "idle"
    /\ consumerCall = "idle"

-----------------------------------------------------------------------------
(***************************************************************************)
(* try_enqueue, enqueue and their like.                                    *)
(***************************************************************************)
ProducerEnqueues(mode) ==
    /\ producerCall = "idle"
    /\ EnqueueBegin(mode)
    /\ producerCall' = "enqueue"
    /\ UNCHANGED <<semaVars, consumerCall>>

\* Mistake: an enqueue that failed is signalled too.
ProducerSignalsAlways ==
    /\ producerCall = "enqueue"
    /\ EnqueueReturned
    /\ IF config.blocking
       THEN SignalBegin /\ producerCall' = "signal"
       ELSE producerCall' = "idle" /\ UNCHANGED semaVars
    /\ UNCHANGED consumerCall

\* The enqueue has returned; if it was successful the semaphore is signalled.
ProducerEnqueued ==
    /\ producerCall = "enqueue"
    /\ EnqueueReturned
    /\ IF config.blocking /\ enqueueOk
       THEN SignalBegin /\ producerCall' = "signal"
       ELSE producerCall' = "idle" /\ UNCHANGED semaVars
    /\ UNCHANGED consumerCall

ProducerSignalled ==
    /\ producerCall = "signal"
    /\ signalPc = "idle"
    /\ producerCall' = "idle"
    /\ UNCHANGED <<rwqVars, semaVars, consumerCall>>

(***************************************************************************)
(* try_dequeue, pop, wait_dequeue, wait_dequeue_timed; peek.               *)
(***************************************************************************)
\* peek, and every call on a queue without a semaphore, goes to the queue.
ConsumerDequeues(o) ==
    /\ consumerCall = "idle"
    /\ o = "peek" \/ ~config.blocking
    /\ DequeueBegin(o)
    /\ consumerCall' = "dequeue"
    /\ UNCHANGED <<semaVars, producerCall>>

\* try_dequeue and pop call tryWait; wait_dequeue and wait_dequeue_timed wait.
ConsumerWaits(t) ==
    /\ consumerCall = "idle"
    /\ config.blocking
    /\ WaitBegin(t)
    /\ consumerCall' = "wait"
    /\ UNCHANGED <<rwqVars, producerCall>>

\* wait_dequeue would repeat a wait that failed: with no timeout none does.
ConsumerWaited ==
    /\ consumerCall = "wait"
    /\ waitPc = "idle"
    /\ IF waitOk
       THEN DequeueBegin(op) /\ consumerCall' = "dequeue"
       ELSE consumerCall' = "idle" /\ DequeueReturned
    /\ WaitReturned
    /\ UNCHANGED producerCall

ConsumerDequeued ==
    /\ consumerCall = "dequeue"
    /\ DequeueReturned
    /\ consumerCall' = "idle"
    /\ UNCHANGED <<semaVars, producerCall>>

-----------------------------------------------------------------------------
ProducerSteps ==
    \/ EnqueueSteps /\ UNCHANGED <<semaVars, producerCall, consumerCall>>
    \/ SignalSteps /\ UNCHANGED <<rwqVars, producerCall, consumerCall>>
    \/ ProducerEnqueued
    \/ ProducerSignalled

ConsumerSteps ==
    \/ DequeueSteps /\ UNCHANGED <<semaVars, producerCall, consumerCall>>
    \/ WaitSteps /\ UNCHANGED <<rwqVars, producerCall, consumerCall>>
    \/ ConsumerWaited
    \/ ConsumerDequeued

BlockingNext ==
    \/ \E call \in config.calls \cap {"try_enqueue", "enqueue"} :
           ProducerEnqueues(call = "enqueue")
    \/ ProducerSteps
    \/ \E o \in config.calls \cap {"remove", "peek"} : ConsumerDequeues(o)
    \/ \E t \in Timeouts : ConsumerWaits(t)
    \/ ConsumerSteps

BlockingSpec == BlockingInit /\ [][BlockingNext]_allVars

\* A call that has begun goes on: no thread stops inside the library.  Nothing
\* is asked about when the threads call.
FairBlockingSpec ==
    /\ BlockingSpec
    /\ WF_allVars(ProducerSteps)
    /\ WF_allVars(ConsumerSteps)

-----------------------------------------------------------------------------
Unsignalled == producerCall = "enqueue" /\ enqueuePc = "idle" /\ enqueueOk
Claimed == consumerCall = "wait" /\ waitPc = "idle" /\ waitOk
Dequeuing == consumerCall = "dequeue" /\ op # "peek" /\ dequeuePc \notin {"idle", "publishFront"}
One(b) == IF b THEN 1 ELSE 0

\* The semaphore counts the items: all but the one whose signal is still to come
\* and the one the consumer has a unit for.  So a dequeue that follows a unit
\* finds its item, as the code asserts (readerwriterqueue.h:865, 881, 900, 938); and
\* size_approx() of an idle queue is exact.
CountsItems ==
    config.blocking =>
        /\ count + One(Unsignalled \/ signalPc = "add")
                 + One(Claimed \/ Dequeuing \/ Committed) = Len(Items)
        /\ consumerCall = "dequeue" /\ op # "peek" /\ dequeuePc = "idle" => dequeueOk
        /\ producerCall = "idle" /\ consumerCall = "idle" =>
               AvailableApprox = Len(Items)

\* No wake-up is lost: a consumer asleep in wait_dequeue while an item is inside
\* gets one (atomicops.h:678-719, 747-756).
SleeperIsWoken == (waitPc = "sleep" /\ Items # <<>>) ~> (waitPc = "idle" /\ waitOk)
=============================================================================

--------------------------- MODULE ConcurrentQueue ---------------------------
(***************************************************************************)
(* moodycamel::ConcurrentQueue (includes/concurrentqueue.h), part by part. *)
(* Each part takes from the next no more than its module says: a sub-queue *)
(* a set of free blocks, which the free list keeps; a dequeue of the queue *)
(* sub-queues that have a number of elements; and the thread that enqueues *)
(* without a token producers which the list of producers hands out.  Each  *)
(* behaviour is of the part chosen at the start; the others stay as they   *)
(* were constructed.                                                       *)
(***************************************************************************)
EXTENDS SubQueue, FreeList, ProducerList, ImplicitProducerHash

VARIABLE part       \* the part that runs

Parts == {"SubQueue", "FreeList", "ProducerList", "ImplicitProducerHash"}

vars == <<part, subQueueVars, freeListVars, producerListVars, hashVars>>

\* The part chosen starts in any of the ways tried, the others in one.
Init ==
    /\ part \in Parts
    /\ SubQueueInit /\ (part # "SubQueue" =>
           sub = (CHOOSE s \in SubQueues : TRUE) /\ headers # << >>)
    /\ FreeListInit /\ (part # "FreeList" =>
           held = [t \in FreeListThreads |-> IF t = CHOOSE u \in FreeListThreads : TRUE
                                             THEN Nodes ELSE {}])
    /\ ListInit /\ (part # "ProducerList" =>
           \A c \in Consumers : token[c].initialOffset < Cardinality(Consumers))
    /\ HashInit /\ (part # "ImplicitProducerHash" => hash_thread_id = CHOOSE f \in Hashes : TRUE)

Next ==
    \/ /\ part = "SubQueue" /\ SubQueueNext
       /\ UNCHANGED <<part, freeListVars, producerListVars, hashVars>>
    \/ /\ part = "FreeList" /\ FreeListNextStep
       /\ UNCHANGED <<part, subQueueVars, producerListVars, hashVars>>
    \/ /\ part = "ProducerList" /\ ListNext
       /\ UNCHANGED <<part, subQueueVars, freeListVars, hashVars>>
    \/ /\ part = "ImplicitProducerHash" /\ HashNext
       /\ UNCHANGED <<part, subQueueVars, freeListVars, producerListVars>>

Spec == Init /\ [][Next]_vars
=============================================================================

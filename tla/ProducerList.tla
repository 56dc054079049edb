---------------------------- MODULE ProducerList ----------------------------
(***************************************************************************)
(* ConcurrentQueue (includes/concurrentqueue.h): the list of producers,    *)
(* that grows at its tail and never shrinks, the tokens that own producers *)
(* and give them back, and the dequeues that walk the list: without a      *)
(* token, by the size the sub-queues seem to have, and with a ConsumerToken, *)
(* from the producer the rotation gives it.                                *)
(*                                                                         *)
(* What a sub-queue holds is a number of elements; a dequeue from it is a  *)
(* step, and fails if there are none.  (ProducerBase has its steps.)  All  *)
(* producers are of one kind.  A step makes one access to memory threads   *)
(* share, or one call of a sub-queue.                                      *)
(***************************************************************************)
EXTENDS Integers, FiniteSetsExt, Links

CONSTANTS
    Producers,      \* the producers there can be, numbered
    TokenThreads,   \* the threads that have a ProducerToken, at times
    Consumers,      \* the threads that dequeue
    Quota,          \* EXPLICIT_CONSUMER_CONSUMPTION_QUOTA_BEFORE_ROTATE
    OffsetValues,   \* how many values an uint32_t offset has
    MaxSize,        \* bound: the elements of a sub-queue
    Counts,         \* how many elements the bulk calls ask for
    Null            \* the null pointer

ASSUME ProducerListAssumption ==
    /\ Producers \subseteq Nat \ {0} /\ Null \notin Producers
    /\ Quota \in Nat /\ OffsetValues \in Nat \ {0} /\ Counts \subseteq Nat

VARIABLES
    producerListTail,
    next,                           \* for each producer
    producerCount,
    inactive,                       \* for each producer
    size,                           \* for each producer, its elements
    tk,                             \* for each token thread, where it is
    globalExplicitConsumerOffset,
    token,                          \* for each consumer, its ConsumerToken
    cs,                             \* for each consumer, where it is
    unseen,                         \* auxiliary: for each consumer, the producers listed at its call
                                    \* that it did not find empty since
    missed                          \* auxiliary: a dequeue fell short with some unseen

listVars == <<producerListTail, next, producerCount, inactive>>
tokenVars == <<globalExplicitConsumerOffset, token, cs, unseen, missed>>
producerListVars == <<listVars, size, tk, tokenVars>>

\* A token's initialOffset is the number of tokens made before it.
NewToken(initialOffset) ==
    [initialOffset |-> initialOffset, lastKnownGlobalOffset |-> OffsetValues - 1, consumed |-> 0,
     current |-> Null, desired |-> Null]

OffList == [pc |-> "out"]

ListInit ==
    /\ producerListTail = Null
    /\ next = [p \in Producers |-> Null]
    /\ producerCount = 0
    /\ inactive = [p \in Producers |-> FALSE]
    /\ size = [p \in Producers |-> 0]
    /\ tk = [t \in TokenThreads |-> [pc |-> "none", producer |-> Null]]
    /\ globalExplicitConsumerOffset = 0
    /\ \E order \in [Consumers -> 0 .. OffsetValues - 1] :
           /\ \A c, d \in Consumers : c # d => order[c] # order[d]
           /\ token = [c \in Consumers |-> NewToken(order[c])]
    /\ cs = [c \in Consumers |-> OffList]
    /\ unseen = [c \in Consumers |-> {}]
    /\ missed = FALSE

-----------------------------------------------------------------------------
(***************************************************************************)
(* recycle_or_create_producer and add_producer, by the constructor of a    *)
(* ProducerToken.                                                          *)
(***************************************************************************)
TkGoto(t, state) == tk' = [tk EXCEPT ![t] = state]

RecycleLoadTail(t) ==
    /\ tk[t].pc = "none"
    /\ TkGoto(t, [pc |-> "recycle", producer |-> Null, ptr |-> producerListTail])
    /\ UNCHANGED <<listVars, size, tokenVars>>

\* The first producer on the list that is inactive is the caller's.
Recycle(t) ==
    LET ptr == tk[t].ptr
    IN  /\ tk[t].pc = "recycle"
        /\ ptr # Null
        /\ IF inactive[ptr]
           THEN TkGoto(t, [pc |-> "catch", producer |-> Null, ptr |-> ptr])
           ELSE TkGoto(t, [tk[t] EXCEPT !.ptr = next[ptr]])
        /\ UNCHANGED <<listVars, size, tokenVars>>

\* Mistake: the producer is taken without a compare_exchange.
RecycleCatchBlindly(t) ==
    /\ tk[t].pc = "catch"
    /\ inactive' = [inactive EXCEPT ![tk[t].ptr] = FALSE]
    /\ TkGoto(t, [pc |-> "has", producer |-> tk[t].ptr])
    /\ UNCHANGED <<producerListTail, next, producerCount, size, tokenVars>>

RecycleCatch(t) ==
    LET ptr == tk[t].ptr
    IN  /\ tk[t].pc = "catch"
        /\ IF inactive[ptr]
           THEN /\ inactive' = [inactive EXCEPT ![ptr] = FALSE]
                /\ TkGoto(t, [pc |-> "has", producer |-> ptr])
           ELSE /\ TkGoto(t, [tk[t] EXCEPT !.pc = "recycle", !.ptr = next[ptr]])
                /\ UNCHANGED inactive
        /\ UNCHANGED <<producerListTail, next, producerCount, size, tokenVars>>

\* None is: one is created, if malloc lets it, and counted before it is listed.
AddCount(t) ==
    /\ tk[t].pc = "recycle"
    /\ tk[t].ptr = Null
    /\ \E p \in Producers :
           /\ p = producerCount + 1
           /\ TkGoto(t, [pc |-> "loadTail", producer |-> Null, ptr |-> p])
           /\ producerCount' = p
    /\ UNCHANGED <<producerListTail, next, inactive, size, tokenVars>>

AddFails(t) ==
    /\ tk[t].pc = "recycle"
    /\ tk[t].ptr = Null
    /\ TkGoto(t, [pc |-> "none", producer |-> Null])
    /\ UNCHANGED <<listVars, size, tokenVars>>

AddLoadTail(t) ==
    /\ tk[t].pc = "loadTail"
    /\ TkGoto(t, [tk[t] EXCEPT !.pc = "cas"])
    /\ next' = [next EXCEPT ![tk[t].ptr] = producerListTail]
    /\ UNCHANGED <<producerListTail, producerCount, inactive, size, tokenVars>>

\* compare_exchange_weak: one that fails tries again with the tail it saw.
AddLink(t) ==
    LET p == tk[t].ptr
    IN  /\ tk[t].pc = "cas"
        /\ IF next[p] = producerListTail
           THEN /\ producerListTail' = p
                /\ TkGoto(t, [pc |-> "has", producer |-> p])
                /\ UNCHANGED next
           ELSE /\ next' = [next EXCEPT ![p] = producerListTail]
                /\ UNCHANGED <<producerListTail, tk>>
        /\ UNCHANGED <<producerCount, inactive, size, tokenVars>>

\* An element is enqueued; the token goes, and its producer is inactive.
EnqueueOne(t) ==
    /\ tk[t].pc = "has"
    /\ size[tk[t].producer] < MaxSize
    /\ size' = [size EXCEPT ![tk[t].producer] = @ + 1]
    /\ UNCHANGED <<listVars, tk, tokenVars>>

DestroyToken(t) ==
    /\ tk[t].pc = "has"
    /\ inactive' = [inactive EXCEPT ![tk[t].producer] = TRUE]
    /\ TkGoto(t, [pc |-> "none", producer |-> Null])
    /\ UNCHANGED <<producerListTail, next, producerCount, size, tokenVars>>

-----------------------------------------------------------------------------
(***************************************************************************)
(* The dequeues: each asks for some number of elements, one or, in bulk,   *)
(* more, and tries sub-queues until it has them.                           *)
(***************************************************************************)
CsGoto(c, state) == cs' = [cs EXCEPT ![c] = state]
ProducersUnchanged == UNCHANGED <<listVars, tk>>

\* The producers from p on.
ListedFrom(p) == LinkedFrom(p, next, Null)

Unseen(c, ps) == unseen' = [unseen EXCEPT ![c] = IF cs'[c].pc = "out" THEN {} ELSE ps]

\* A call starts.
Call(c, state) ==
    /\ cs[c].pc = "out"
    /\ CsGoto(c, state)
    /\ Unseen(c, ListedFrom(producerListTail))
    /\ ProducersUnchanged
    /\ UNCHANGED <<size, token, globalExplicitConsumerOffset, missed>>

\* It ends with less than it asked for.
FallShort(c) ==
    /\ CsGoto(c, OffList)
    /\ missed' = (missed \/ unseen[c] # {})
    /\ Unseen(c, {})
    /\ UNCHANGED size

\* What it gets from p; p is empty if that is less than it asks for.
Got(p, left) == Min({size[p], left})
DequeueFrom(c, p, left, state) ==
    /\ CsGoto(c, state)
    /\ size' = [size EXCEPT ![p] = @ - Got(p, left)]
    /\ Unseen(c, IF Got(p, left) < left THEN unseen[c] \ {p} ELSE unseen[c])
    /\ UNCHANGED missed

-----------------------------------------------------------------------------
(***************************************************************************)
(* Without a token: try_dequeue scores the producers and starts with the   *)
(* best; try_dequeue_non_interleaved and try_dequeue_bulk take them in     *)
(* order.                                                                  *)
(***************************************************************************)
TryDequeue(c) ==
    Call(c, [pc |-> "score", ptr |-> producerListTail, nonEmpty |-> 0, best |-> Null])

TryInOrder(c, max) ==
    Call(c, [pc |-> "try", ptr |-> producerListTail, best |-> Null, left |-> max])

\* best is [producer, size]; an equal size does not displace it.
Score(c) ==
    LET ptr == cs[c].ptr
    IN  /\ cs[c].pc = "score"
        /\ cs[c].nonEmpty < 3 /\ ptr # Null
        /\ IF size[ptr] > 0
           THEN /\ CsGoto(c, [cs[c] EXCEPT
                        !.ptr = next[ptr], !.nonEmpty = @ + 1,
                        !.best = IF @ = Null \/ size[ptr] > @.size
                                 THEN [producer |-> ptr, size |-> size[ptr]] ELSE @])
                /\ UNCHANGED unseen
           ELSE /\ CsGoto(c, [cs[c] EXCEPT !.ptr = next[ptr]])
                /\ Unseen(c, unseen[c] \ {ptr})
        /\ ProducersUnchanged
        /\ UNCHANGED <<size, globalExplicitConsumerOffset, token, missed>>

\* Mistake: the best is tried, and no other.
TryBestOnly(c) ==
    /\ cs[c].pc = "score"
    /\ cs[c].nonEmpty = 3 \/ cs[c].ptr = Null
    /\ IF cs[c].nonEmpty = 0 \/ size[cs[c].best.producer] = 0 THEN FallShort(c)
       ELSE DequeueFrom(c, cs[c].best.producer, 1, OffList)
    /\ ProducersUnchanged
    /\ UNCHANGED <<globalExplicitConsumerOffset, token>>

TryBest(c) ==
    LET best == cs[c].best.producer
    IN  /\ cs[c].pc = "score"
        /\ cs[c].nonEmpty = 3 \/ cs[c].ptr = Null
        /\ IF cs[c].nonEmpty = 0 THEN FallShort(c)
           ELSE DequeueFrom(c, best, 1, IF size[best] > 0 THEN OffList
                                        ELSE [pc |-> "loadTail", best |-> best])
        /\ ProducersUnchanged
        /\ UNCHANGED <<globalExplicitConsumerOffset, token>>

TryLoadTail(c) ==
    /\ cs[c].pc = "loadTail"
    /\ CsGoto(c, [pc |-> "try", ptr |-> producerListTail, best |-> cs[c].best, left |-> 1])
    /\ ProducersUnchanged
    /\ UNCHANGED <<size, globalExplicitConsumerOffset, token, unseen, missed>>

TryNext(c) ==
    LET ptr  == cs[c].ptr
        left == cs[c].left
    IN  /\ cs[c].pc = "try"
        /\ IF ptr = Null THEN FallShort(c)
           ELSE IF ptr = cs[c].best
           THEN CsGoto(c, [cs[c] EXCEPT !.ptr = next[ptr]]) /\ UNCHANGED <<size, unseen, missed>>
           ELSE DequeueFrom(c, ptr, left,
                            IF size[ptr] >= left THEN OffList
                            ELSE [cs[c] EXCEPT !.ptr = next[ptr], !.left = @ - size[ptr]])
        /\ ProducersUnchanged
        /\ UNCHANGED <<globalExplicitConsumerOffset, token>>

-----------------------------------------------------------------------------
(***************************************************************************)
(* With a token: try_dequeue (max is one, single) and try_dequeue_bulk.    *)
(***************************************************************************)
TokenCall(c, max, single) ==
    Call(c, [pc |-> IF \/ token[c].desired = Null
                       \/ token[c].lastKnownGlobalOffset # globalExplicitConsumerOffset
                    THEN "rotate" ELSE "current",
             left |-> max, single |-> single])

\* update_current_producer_after_rotation
RotateLoadTail(c) ==
    /\ cs[c].pc = "rotate"
    /\ IF token[c].desired = Null /\ producerListTail = Null THEN FallShort(c)
       ELSE /\ CsGoto(c, [pc |-> "rotateCount", tail |-> producerListTail,
                          left |-> cs[c].left, single |-> cs[c].single])
            /\ UNCHANGED <<size, unseen, missed>>
    /\ ProducersUnchanged
    /\ UNCHANGED <<globalExplicitConsumerOffset, token>>

\* Mistake: off by one.
RotateLoadCountOfOthers(c) ==
    /\ cs[c].pc = "rotateCount"
    /\ CsGoto(c, [pc |-> "rotateMove", tail |-> cs[c].tail, count |-> producerCount - 1,
                  left |-> cs[c].left, single |-> cs[c].single])
    /\ ProducersUnchanged
    /\ UNCHANGED <<size, globalExplicitConsumerOffset, token, unseen, missed>>

RotateLoadCount(c) ==
    /\ cs[c].pc = "rotateCount"
    /\ CsGoto(c, [pc |-> "rotateMove", tail |-> cs[c].tail, count |-> producerCount,
                  left |-> cs[c].left, single |-> cs[c].single])
    /\ ProducersUnchanged
    /\ UNCHANGED <<size, globalExplicitConsumerOffset, token, unseen, missed>>

\* The producer n places on from p, round the list from tail.
Onwards(p, tail, n) ==
    LET at[k \in 0 .. n] ==
            IF k = 0 THEN p ELSE IF next[at[k - 1]] = Null THEN tail ELSE next[at[k - 1]]
    IN  at[n]

RotateMove(c) ==
    LET offset == globalExplicitConsumerOffset
        count  == cs[c].count
        start  == IF token[c].desired = Null
                  THEN Onwards(cs[c].tail, cs[c].tail, count - 1 - (token[c].initialOffset % count))
                  ELSE token[c].desired
        delta  == (offset - token[c].lastKnownGlobalOffset) % OffsetValues
        place  == Onwards(start, cs[c].tail, delta % count)
    IN  /\ cs[c].pc = "rotateMove"
        /\ token' = [token EXCEPT ![c].lastKnownGlobalOffset = offset, ![c].consumed = 0,
                                  ![c].desired = place, ![c].current = place]
        /\ CsGoto(c, [pc |-> "current", left |-> cs[c].left, single |-> cs[c].single])
        /\ ProducersUnchanged
        /\ UNCHANGED <<size, globalExplicitConsumerOffset, unseen, missed>>

\* All that is asked of a count is how it compares to Quota.
Consume(consumed, n) == Min({consumed + n, Quota + 1})
QuotaIsUp(consumed, single) == IF single THEN consumed = Quota ELSE consumed >= Quota

FromCurrent(c) ==
    LET p        == token[c].current
        left     == cs[c].left
        consumed == Consume(token[c].consumed, Got(p, left))
    IN  /\ cs[c].pc = "current"
        /\ DequeueFrom(c, p, left,
               IF Got(p, left) < left
               THEN [pc |-> "walkTail", left |-> left - Got(p, left), single |-> cs[c].single]
               ELSE IF QuotaIsUp(consumed, cs[c].single) THEN [pc |-> "advance"] ELSE OffList)
        /\ token' = [token EXCEPT ![c].consumed = consumed]
        /\ ProducersUnchanged
        /\ UNCHANGED <<globalExplicitConsumerOffset>>

Advance(c) ==
    /\ cs[c].pc = "advance"
    /\ globalExplicitConsumerOffset' = (globalExplicitConsumerOffset + 1) % OffsetValues
    /\ CsGoto(c, OffList)
    /\ Unseen(c, {})
    /\ ProducersUnchanged
    /\ UNCHANGED <<size, token, missed>>

WalkLoadTail(c) ==
    /\ cs[c].pc = "walkTail"
    /\ CsGoto(c, [pc |-> "walk", tail |-> producerListTail, left |-> cs[c].left, single |-> cs[c].single,
                  ptr |-> Onwards(token[c].current, producerListTail, 1)])
    /\ ProducersUnchanged
    /\ UNCHANGED <<size, globalExplicitConsumerOffset, token, unseen, missed>>

\* Where it gets something is its place now, from which the walk goes round.
Walk(c) ==
    LET ptr  == cs[c].ptr
        left == cs[c].left
    IN  /\ cs[c].pc = "walk"
        /\ IF ptr = token[c].current THEN FallShort(c) /\ UNCHANGED token
           ELSE /\ DequeueFrom(c, ptr, left,
                       IF Got(ptr, left) = left THEN OffList
                       ELSE [cs[c] EXCEPT !.left = @ - Got(ptr, left),
                                          !.ptr = Onwards(ptr, cs[c].tail, 1)])
                /\ token' = IF Got(ptr, left) = 0 THEN token
                            ELSE [token EXCEPT ![c].current = ptr,
                                               ![c].consumed = Consume(0, Got(ptr, left))]
        /\ ProducersUnchanged
        /\ UNCHANGED <<globalExplicitConsumerOffset>>

-----------------------------------------------------------------------------
TokenStep(t) ==
    \/ RecycleLoadTail(t) \/ Recycle(t) \/ RecycleCatch(t) \/ AddCount(t) \/ AddFails(t)
    \/ AddLoadTail(t) \/ AddLink(t) \/ EnqueueOne(t) \/ DestroyToken(t)

ConsumerStep(c) ==
    \/ TryDequeue(c)
    \/ \E max \in Counts \cup {1} : TryInOrder(c, max)
    \/ TokenCall(c, 1, TRUE)
    \/ \E max \in Counts : TokenCall(c, max, FALSE)
    \/ Score(c) \/ TryBest(c) \/ TryLoadTail(c) \/ TryNext(c)
    \/ RotateLoadTail(c) \/ RotateLoadCount(c) \/ RotateMove(c)
    \/ FromCurrent(c) \/ Advance(c) \/ WalkLoadTail(c) \/ Walk(c)

\* Consumers beyond those followed: they take elements, and use their quotas up.
OtherConsumers ==
    /\ \/ /\ \E p \in Producers : size[p] > 0 /\ size' = [size EXCEPT ![p] = @ - 1]
          /\ UNCHANGED globalExplicitConsumerOffset
       \/ /\ globalExplicitConsumerOffset' = (globalExplicitConsumerOffset + 1) % OffsetValues
          /\ UNCHANGED size
    /\ ProducersUnchanged
    /\ UNCHANGED <<token, cs, unseen, missed>>

ListNext ==
    \/ \E t \in TokenThreads : TokenStep(t)
    \/ OtherConsumers
    \/ \E c \in Consumers : ConsumerStep(c)

ListSpec == ListInit /\ [][ListNext]_producerListVars

-----------------------------------------------------------------------------
\* A producer that an inactive token gave back is one token's again, also when
\* several threads find it inactive at once: a sub-queue has one producer thread
\* (concurrentqueue.h:3227-3244).
ProducersHaveOneToken ==
    \A t, u \in TokenThreads :
        t # u /\ tk[t].producer # Null => tk[t].producer # tk[u].producer

\* The count by which a place on the list is found covers the list walked, whose
\* tail is read before it: the walk to that place does not stop short of the end
\* (concurrentqueue.h:1392-1430, 3246-3277).
CountCoversList ==
    \A c \in Consumers :
        cs[c].pc = "rotateMove" => cs[c].count >= Cardinality(ListedFrom(cs[c].tail))

\* A dequeue, of any of the five kinds, returns less than it was asked for only if
\* it has looked at each producer listed when it was called, and found less than
\* it then wanted, whatever producers are added and rotations happen meanwhile
\* (concurrentqueue.h:1125-1289).
FallsShortOnlyIfEmpty == ~missed
=============================================================================

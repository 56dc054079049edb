-------------------------- MODULE ConcurrentFlush --------------------------
(***************************************************************************)
(* flush() (spsc_queue.hpp) called once by a thread while the other thread *)
(* may be anywhere in its own calls, which is how README.md asks for it:   *)
(* "at end of usage to get last items visible for popping".  The producer  *)
(* pushes nothing after its flush(); the consumer, as in README.md's       *)
(* example and in test_spsc_correctness, pops what flush() made visible.   *)
(*                                                                         *)
(* flush() publishes both cursors.  For the cursor of the other thread it  *)
(* reads that thread's plain localReader_ (localWriter_) with no ordering, *)
(* stores it to the atomic the other thread also stores to, and writes the *)
(* other thread's plain lastPublished_.  The unordered read may return any *)
(* value the variable has had since the reading thread was last ordered    *)
(* after its owner; the unordered write may be lost.  Each access is a     *)
(* step.                                                                   *)
(*                                                                         *)
(* With the consumer's flush() a pop may come to a slot whose push nothing *)
(* orders before it: the consumer loads back the localWriter_ it has       *)
(* stored to writer_ itself.  What it copies out then is not determined,   *)
(* and ReadsUnordered returns anything.  That also stands for a consumer   *)
(* that sees ++localWriter_ (line 91) before the slot is filled (line 90): *)
(* to it PushWrite may as well have been done, without the item.           *)
(***************************************************************************)
EXTENDS FastqSPSC

CONSTANT FlusherSets    \* the ways of using flush(): the threads that call it

ASSUME FlushersAssumption == FlusherSets \subseteq SUBSET {"producer", "consumer"}

VARIABLES
    flushers,       \* the threads that call flush(), chosen at the start
    producerFlush,  \* where the producer is inside flush()
    consumerFlush,  \* where the consumer is inside flush()
    producerRead,   \* the localReader_ the producer's flush() has read
    consumerRead    \* the localWriter_ the consumer's flush() has read

flushVars == <<flushers, producerFlush, consumerFlush, producerRead, consumerRead>>
allVars == <<vars, flushVars>>

FlushInit ==
    /\ Init
    /\ flushers \in FlusherSets
    /\ producerFlush = "none"
    /\ consumerFlush = "none"
    /\ producerRead = 0
    /\ consumerRead = 0

\* The values from one position to another, both included.
Arc(from, to) == {Add(from, n) : n \in 0 .. Sub(to, from)}

-----------------------------------------------------------------------------
(***************************************************************************)
(* flush() by the producer: publish_reader on the consumer's state, then   *)
(* publish_writer on its own.                                              *)
(***************************************************************************)
ProducerReadsReader ==
    /\ "producer" \in flushers
    /\ pushPc = "idle"
    /\ producerFlush = "none"
    /\ producerRead' \in Arc(producerSees, consumer.localReader)
    /\ producerFlush' = "read"
    /\ UNCHANGED <<vars, flushers, consumerFlush, consumerRead>>

\* The store to reader_.  It may take reader_ back behind what the consumer has
\* published; from now on the producer itself observes it, or something newer.
ProducerStoresReader ==
    /\ producerFlush = "read"
    /\ reader' = <<[val |-> producerRead, view |-> producerSees]>>
    /\ producerFlush' = "stored"
    /\ UNCHANGED <<buffer, writer, producer, consumer, producerSees, consumerSees,
                   producerVars, consumerVars,
                   flushers, consumerFlush, producerRead, consumerRead>>

ProducerWritesLastPublished ==
    /\ producerFlush = "stored"
    /\ \E v \in Arc(producerSees, consumer.localReader) \cup {consumer.lastPublished} :
           consumer' = [consumer EXCEPT !.lastPublished = v]
    /\ producerFlush' = "reader"
    /\ UNCHANGED <<buffer, writer, reader, producer, producerSees, consumerSees,
                   producerVars, consumerVars,
                   flushers, consumerFlush, producerRead, consumerRead>>

\* Mistake: flush() publishes the consumer's cursor only.
ProducerSkipsWriter ==
    /\ producerFlush = "reader"
    /\ producerFlush' = "returned"
    /\ UNCHANGED <<vars, flushers, consumerFlush, producerRead, consumerRead>>

ProducerPublishesWriter ==
    /\ producerFlush = "reader"
    /\ PublishWriter
    /\ producerFlush' = "returned"
    /\ UNCHANGED <<buffer, reader, consumer, producerSees, consumerSees,
                   producerVars, consumerVars,
                   flushers, consumerFlush, producerRead, consumerRead>>

(***************************************************************************)
(* flush() by the consumer: publish_reader on its own state, then          *)
(* publish_writer on the producer's.                                       *)
(***************************************************************************)
ConsumerPublishesReader ==
    /\ "consumer" \in flushers
    /\ popPc = "idle"
    /\ consumerFlush = "none"
    /\ PublishReader
    /\ consumerFlush' = "reader"
    /\ UNCHANGED <<buffer, writer, producer, producerSees, consumerSees,
                   producerVars, consumerVars,
                   flushers, producerFlush, producerRead, consumerRead>>

ConsumerReadsWriter ==
    /\ consumerFlush = "reader"
    /\ consumerRead' \in Arc(consumerSees, producer.localWriter)
    /\ consumerFlush' = "read"
    /\ UNCHANGED <<vars, flushers, producerFlush, producerRead>>

\* The store to writer_, which may take writer_ back behind what the producer
\* has published.  It orders none of the producer's writes to buffer_.
ConsumerStoresWriter ==
    /\ consumerFlush = "read"
    /\ writer' = <<[val |-> consumerRead, view |-> consumerSees]>>
    /\ consumerFlush' = "stored"
    /\ UNCHANGED <<buffer, reader, producer, consumer, producerSees, consumerSees,
                   producerVars, consumerVars,
                   flushers, producerFlush, producerRead, consumerRead>>

ConsumerWritesLastPublished ==
    /\ consumerFlush = "stored"
    /\ \E v \in Arc(consumerSees, producer.localWriter) \cup {producer.lastPublished} :
           producer' = [producer EXCEPT !.lastPublished = v]
    /\ consumerFlush' = "returned"
    /\ UNCHANGED <<buffer, writer, reader, consumer, producerSees, consumerSees,
                   producerVars, consumerVars,
                   flushers, producerFlush, producerRead, consumerRead>>

-----------------------------------------------------------------------------
(***************************************************************************)
(* The pop of an item whose push is not ordered before it.  The cursors    *)
(* advance as in any pop; what is copied out is an earlier item of the     *)
(* slot, memory nobody assigned, or some of each.                          *)
(***************************************************************************)
PushIsUnordered == Sub(consumerSees, consumer.localReader) \notin 1 .. Capacity

ReadsUnordered ==
    /\ popPc = "read"
    /\ PushIsUnordered
    /\ out' \in Data \cup {NoData}
    /\ consumer' = [consumer EXCEPT !.localReader = Add(consumer.localReader, 1)]
    /\ IF Sub(consumer'.localReader, consumer.lastPublished) >= PublishBatch
       THEN popPc' = "publish" /\ UNCHANGED popOk
       ELSE popPc' = "idle" /\ popOk' = TRUE
    /\ UNCHANGED <<buffer, writer, reader, producer, producerSees,
                   consumerSees, producerVars>>

-----------------------------------------------------------------------------
ProducerPushes == producerFlush = "none" /\ Push /\ UNCHANGED flushVars

ConsumerPops ==
    /\ consumerFlush \in {"none", "returned"}
    /\ Pop \/ ReadsUnordered
    /\ UNCHANGED flushVars

ProducerFlushes ==
    \/ ProducerReadsReader \/ ProducerStoresReader
    \/ ProducerWritesLastPublished \/ ProducerPublishesWriter

ConsumerFlushes ==
    \/ ConsumerPublishesReader \/ ConsumerReadsWriter
    \/ ConsumerStoresWriter \/ ConsumerWritesLastPublished

Propagate == (PropagateWriter \/ PropagateReader) /\ UNCHANGED flushVars

FlushNext ==
    \/ ProducerPushes \/ ConsumerPops \/ Propagate
    \/ ProducerFlushes \/ ConsumerFlushes

FlushSpec == FlushInit /\ [][FlushNext]_allVars

\* The consumer keeps popping and stores become visible; nothing is asked of the
\* producer.
FairFlushSpec ==
    /\ FlushSpec
    /\ WF_allVars(ConsumerPops)
    /\ WF_allVars(PropagateWriter /\ UNCHANGED flushVars)

-----------------------------------------------------------------------------
\* README.md:27: flush() "Must be done at end of usage to get last items visible
\* for popping" (spsc_queue.hpp:121 likewise).  When the producer's flush() has
\* returned, and no other flush() is under way, the newest value of writer_ shows
\* every item pushed.
FlushShowsAll ==
    producerFlush = "returned" /\ consumerFlush \in {"none", "returned"} =>
        Newest(writer).val = producer.localWriter

\* The same for a flush() by the producer alone, wherever the consumer is, and
\* what it shows is not read before it was written (spsc_queue.hpp:122-125).
ProducersFlushShowsAll ==
    flushers = {"producer"} => FlushShowsAll /\ NoDataRace

\* After a flush() by the producer alone the consumer gets to the last item by
\* calling pop alone, also when that flush() has taken reader_ back behind the
\* consumer or its write to the consumer's lastPublished_ was lost or stale
\* (spsc_queue.hpp:122-125).
FlushedItemsArePopped ==
    flushers = {"producer"} /\ producerFlush = "returned" ~>
        consumer.localReader = producer.localWriter

\* A pop that takes the oldest place, whatever comes out of it.
TakesPlace == Items # <<>> /\ Items' = Tail(Items)

\* The bounded FIFO, whatever the producer's flush() does in the middle of the
\* consumer's calls.  Only a consumer that has called flush() itself
\* (spsc_queue.hpp:122-125) may get something else than the item it comes to, and
\* only where nothing orders the push before its pop; it still takes the places one
\* by one, each once, and none that was not filled.
FifoOfPlaces ==
    /\ Fifo!Init
    /\ [][\/ Fifo!Next
          \/ consumerFlush = "returned" /\ PushIsUnordered /\ TakesPlace]_(Fifo!vars)
=============================================================================

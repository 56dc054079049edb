----------------------------- MODULE FastqSPSC -----------------------------
(***************************************************************************)
(* fastq::SPSC (spsc_queue.hpp): a bounded ring shared by one producer     *)
(* thread, which calls push, and one consumer thread, which calls pop.     *)
(* Each thread works on cursors of its own, looks at the other's published *)
(* cursor only when its cached copy says the ring is full (empty), and     *)
(* publishes its own cursor once per PublishBatch operations, or when an   *)
(* operation fails.                                                        *)
(*                                                                         *)
(* Every step makes at most one access to memory the other thread uses.    *)
(* The two std::atomic cursors follow the C++ release/acquire rules:       *)
(*                                                                         *)
(*  - writer (reader) holds the stores to writer_.value_ (reader_.value_)  *)
(*    that the other thread may still observe, oldest first.  Its last     *)
(*    element is the newest store; its first is what a load returns now.   *)
(*    PropagateWriter (PropagateReader) lets the other thread observe a    *)
(*    newer store, so a load may return any store not older than one       *)
(*    already observed.                                                    *)
(*  - each store carries the view its thread had released with it: how far *)
(*    that thread's accesses to buffer_ had got.  An acquire load takes    *)
(*    the view over.  producerSees and consumerSees are the views taken    *)
(*    over so far; an access to buffer_ that the view does not order after *)
(*    the other thread's access to that slot is a data race.               *)
(***************************************************************************)
EXTENDS SizeT, Sequences

CONSTANTS
    PublishBatch,   \* template parameter PublishBatch, any std::size_t
    Data,           \* the values of T
    NoData,         \* an allocated slot, or output parameter, nobody assigned
    WeakMemory      \* FALSE: a load always returns the newest store

ASSUME FastqAssumption ==
    /\ PublishBatch \in Nat
    /\ NoData \notin Data
    /\ WeakMemory \in BOOLEAN

VARIABLES
    buffer,         \* buffer_
    writer,         \* writer_.value_: the stores the consumer may observe
    reader,         \* reader_.value_: the stores the producer may observe
    producer,       \* producer_ : ProducerState
    consumer,       \* consumer_ : ConsumerState
    producerSees,   \* reads of positions before it are ordered before push
    consumerSees,   \* writes of positions before it are ordered before pop
    pushPc,         \* where the producer is inside push
    popPc,          \* where the consumer is inside pop
    item,           \* the argument of the push in progress
    out,            \* the output parameter of pop
    pushOk,         \* what the last push returned
    popOk           \* what the last pop returned

cursors == <<writer, reader, producer, consumer, producerSees, consumerSees>>
producerVars == <<pushPc, item, pushOk>>
consumerVars == <<popPc, out, popOk>>
vars == <<buffer, cursors, producerVars, consumerVars>>

PushPcs == {"idle", "load", "write", "publish", "publishFull"}
PopPcs == {"idle", "load", "read", "publish", "publishEmpty"}

\* A store to an atomic cursor: the value, and how far the storing thread's
\* accesses to buffer_ had got before it (a release store carries them along).
Stores == [val : Position, view : Position]

ProducerState == [localWriter : Position, cachedReader : Position,
                  lastPublished : Position]
ConsumerState == [localReader : Position, cachedWriter : Position,
                  lastPublished : Position]

Newest(location) == location[Len(location)]
Observed(location) == Head(location)

\* Storing again what the newest store already holds gives the other thread
\* nothing new to observe and is not recorded twice.
Store(location, s) ==
    IF Newest(location) = s THEN location
    ELSE IF WeakMemory THEN Append(location, s)
    ELSE <<s>>

\* Mistake: one item too many before the ring counts as full.
FullOneLate(p) == Sub(p.localWriter, p.cachedReader) = Capacity + 1

\* Mistake: the last item counts as none.
EmptyOneEarly(c) == Sub(c.cachedWriter, c.localReader) <= 1

\* The tests of push and pop for a full and for an empty ring, made against the
\* cached copy of the other thread's cursor.
Full(p) == Sub(p.localWriter, p.cachedReader) = Capacity
Empty(c) == c.localReader = c.cachedWriter

-----------------------------------------------------------------------------
Init ==
    /\ buffer = [s \in Slots |-> NoData]
    /\ writer = <<[val |-> 0, view |-> 0]>>
    /\ reader = <<[val |-> 0, view |-> 0]>>
    /\ producer = [localWriter |-> 0, cachedReader |-> 0, lastPublished |-> 0]
    /\ consumer = [localReader |-> 0, cachedWriter |-> 0, lastPublished |-> 0]
    /\ producerSees = 0
    /\ consumerSees = 0
    /\ pushPc = "idle"
    /\ popPc = "idle"
    /\ item = NoData
    /\ out = NoData
    /\ pushOk = TRUE
    /\ popOk = TRUE

-----------------------------------------------------------------------------
(***************************************************************************)
(* publish_writer and publish_reader.                                      *)
(***************************************************************************)
\* Mistake: a relaxed store, which carries no view.
PublishWriterRelaxed ==
    /\ writer' = Store(writer, [val |-> producer.localWriter,
                                view |-> Newest(writer).view])
    /\ producer' = [producer EXCEPT !.lastPublished = producer.localWriter]

PublishWriter ==
    /\ writer' = Store(writer, [val |-> producer.localWriter,
                                view |-> producer.localWriter])
    /\ producer' = [producer EXCEPT !.lastPublished = producer.localWriter]

\* Mistake: publish the cursor up to which pop may read, not the one it reached.
PublishReaderTooFar ==
    /\ reader' = Store(reader, [val |-> consumer.cachedWriter,
                                view |-> consumer.localReader])
    /\ consumer' = [consumer EXCEPT !.lastPublished = consumer.localReader]

PublishReader ==
    /\ reader' = Store(reader, [val |-> consumer.localReader,
                                view |-> consumer.localReader])
    /\ consumer' = [consumer EXCEPT !.lastPublished = consumer.localReader]

(***************************************************************************)
(* bool push(T data), by the producer.                                     *)
(***************************************************************************)
PushBegin(d) ==
    /\ pushPc = "idle"
    /\ item' = d
    /\ pushPc' = IF Full(producer) THEN "load" ELSE "write"
    /\ UNCHANGED <<buffer, cursors, pushOk, consumerVars>>

\* Mistake: a push that fails returns without publish_writer.
PushLoadReaderNoPublish ==
    /\ pushPc = "load"
    /\ producer' = [producer EXCEPT !.cachedReader = Observed(reader).val]
    /\ producerSees' = Observed(reader).view
    /\ IF Full(producer')
       THEN pushPc' = "idle" /\ pushOk' = FALSE
       ELSE pushPc' = "write" /\ UNCHANGED pushOk
    /\ UNCHANGED <<buffer, writer, reader, consumer, consumerSees,
                   item, consumerVars>>

\* The acquire load of reader_, and the second test for a full ring.
PushLoadReader ==
    /\ pushPc = "load"
    /\ producer' = [producer EXCEPT !.cachedReader = Observed(reader).val]
    /\ producerSees' = Observed(reader).view
    /\ pushPc' = IF Full(producer') THEN "publishFull" ELSE "write"
    /\ UNCHANGED <<buffer, writer, reader, consumer, consumerSees,
                   item, pushOk, consumerVars>>

\* Fill the slot and advance; the push returns true here unless a batch is due.
\* One step: before the next publication the consumer looks at neither (flush() by
\* the consumer may: see ConcurrentFlush).
PushWrite ==
    /\ pushPc = "write"
    /\ buffer' = [buffer EXCEPT ![Slot(producer.localWriter)] = item]
    /\ producer' = [producer EXCEPT !.localWriter = Add(producer.localWriter, 1)]
    /\ IF Sub(producer'.localWriter, producer.lastPublished) >= PublishBatch
       THEN pushPc' = "publish" /\ UNCHANGED pushOk
       ELSE pushPc' = "idle" /\ pushOk' = TRUE
    /\ UNCHANGED <<writer, reader, consumer, producerSees, consumerSees,
                   item, consumerVars>>

\* publish_writer, before push returns true (a batch) or false (a full ring).
PushPublish ==
    /\ pushPc \in {"publish", "publishFull"}
    /\ PublishWriter
    /\ pushPc' = "idle"
    /\ pushOk' = (pushPc = "publish")
    /\ UNCHANGED <<buffer, reader, consumer, producerSees, consumerSees,
                   item, consumerVars>>

(***************************************************************************)
(* bool pop(T& data), by the consumer.                                     *)
(***************************************************************************)
PopBegin ==
    /\ popPc = "idle"
    /\ popPc' = IF Empty(consumer) THEN "load" ELSE "read"
    /\ UNCHANGED <<buffer, cursors, producerVars, out, popOk>>

\* Mistake: a pop that fails returns without publish_reader.
PopLoadWriterNoPublish ==
    /\ popPc = "load"
    /\ consumer' = [consumer EXCEPT !.cachedWriter = Observed(writer).val]
    /\ consumerSees' = Observed(writer).view
    /\ IF Empty(consumer')
       THEN popPc' = "idle" /\ popOk' = FALSE
       ELSE popPc' = "read" /\ UNCHANGED popOk
    /\ UNCHANGED <<buffer, writer, reader, producer, producerSees,
                   producerVars, out>>

\* The acquire load of writer_, and the second test for an empty ring.
PopLoadWriter ==
    /\ popPc = "load"
    /\ consumer' = [consumer EXCEPT !.cachedWriter = Observed(writer).val]
    /\ consumerSees' = Observed(writer).view
    /\ popPc' = IF Empty(consumer') THEN "publishEmpty" ELSE "read"
    /\ UNCHANGED <<buffer, writer, reader, producer, producerSees,
                   producerVars, out, popOk>>

\* Mistake: advance before the slot is copied out.
PopReadAdvanceFirst ==
    /\ popPc = "read"
    /\ consumer' = [consumer EXCEPT !.localReader = Add(consumer.localReader, 1)]
    /\ out' = buffer[Slot(consumer'.localReader)]
    /\ IF Sub(consumer'.localReader, consumer.lastPublished) >= PublishBatch
       THEN popPc' = "publish" /\ UNCHANGED popOk
       ELSE popPc' = "idle" /\ popOk' = TRUE
    /\ UNCHANGED <<buffer, writer, reader, producer, producerSees,
                   consumerSees, producerVars>>

\* Copy the slot out and advance; pop returns true here unless a batch is due.
PopRead ==
    /\ popPc = "read"
    /\ out' = buffer[Slot(consumer.localReader)]
    /\ consumer' = [consumer EXCEPT !.localReader = Add(consumer.localReader, 1)]
    /\ IF Sub(consumer'.localReader, consumer.lastPublished) >= PublishBatch
       THEN popPc' = "publish" /\ UNCHANGED popOk
       ELSE popPc' = "idle" /\ popOk' = TRUE
    /\ UNCHANGED <<buffer, writer, reader, producer, producerSees,
                   consumerSees, producerVars>>

\* publish_reader, before pop returns true (a batch) or false (an empty ring).
PopPublish ==
    /\ popPc \in {"publish", "publishEmpty"}
    /\ PublishReader
    /\ popPc' = "idle"
    /\ popOk' = (popPc = "publish")
    /\ UNCHANGED <<buffer, writer, producer, producerSees, consumerSees,
                   producerVars, out>>

(***************************************************************************)
(* void flush(), publish_reader and publish_writer by ONE thread.  It      *)
(* reads and writes the state of both, so its caller must have both        *)
(* threads' calls ordered with its own: the one thread that does all the   *)
(* calls in README.md's example, the consumer that has seen the producer's *)
(* done flag in test_spsc_correctness.  Flush is flush() at such a point,  *)
(* and later calls are ordered after it.  ConcurrentFlush is about         *)
(* flush() anywhere else.                                                  *)
(***************************************************************************)
Flush ==
    /\ pushPc = "idle"
    /\ popPc = "idle"
    /\ writer' = <<[val |-> producer.localWriter, view |-> producer.localWriter]>>
    /\ reader' = <<[val |-> consumer.localReader, view |-> consumer.localReader]>>
    /\ producer' = [producer EXCEPT !.lastPublished = producer.localWriter]
    /\ consumer' = [consumer EXCEPT !.lastPublished = consumer.localReader]
    /\ producerSees' = consumer.localReader
    /\ consumerSees' = producer.localWriter
    /\ UNCHANGED <<buffer, producerVars, consumerVars>>

(***************************************************************************)
(* A store becomes observable to the other thread.                         *)
(***************************************************************************)
PropagateWriter ==
    /\ Len(writer) > 1
    /\ writer' = Tail(writer)
    /\ UNCHANGED <<buffer, reader, producer, consumer, producerSees,
                   consumerSees, producerVars, consumerVars>>

PropagateReader ==
    /\ Len(reader) > 1
    /\ reader' = Tail(reader)
    /\ UNCHANGED <<buffer, writer, producer, consumer, producerSees,
                   consumerSees, producerVars, consumerVars>>

-----------------------------------------------------------------------------
Push ==
    \/ \E d \in Data : PushBegin(d)
    \/ PushLoadReader
    \/ PushWrite
    \/ PushPublish

Pop == PopBegin \/ PopLoadWriter \/ PopRead \/ PopPublish

Next ==
    \/ Push
    \/ Pop
    \/ Flush
    \/ PropagateWriter
    \/ PropagateReader

Spec == Init /\ [][Next]_vars

\* Both threads keep calling (the loops of testing/benchmark_spsc.cpp retry a
\* failed call at once), and a store becomes visible in finite time.
Fairness ==
    /\ WF_vars(Push)
    /\ WF_vars(Pop)
    /\ WF_vars(PropagateWriter)
    /\ WF_vars(PropagateReader)

FairSpec == Spec /\ Fairness

-----------------------------------------------------------------------------
\* Mistake: reader - writer.
ConsumerSizeSwapped == Sub(Newest(reader).val, Observed(writer).val)

(***************************************************************************)
(* size() and empty(), which change nothing, as the value they return when *)
(* called by the producer and by the consumer.  A thread's load of its own *)
(* cursor returns its newest store, so in either order of the two loads    *)
(* only the load of the other's cursor can return an older one.            *)
(***************************************************************************)
ProducerSize == Sub(Newest(writer).val, Observed(reader).val)
ConsumerSize == Sub(Observed(writer).val, Newest(reader).val)
ProducerEmpty == Newest(writer).val = Observed(reader).val
ConsumerEmpty == Observed(writer).val = Newest(reader).val

\* Abstraction: the items pushed and not yet popped, oldest first.
Items ==
    [i \in 1 .. Sub(producer.localWriter, consumer.localReader) |->
        buffer[Slot(Add(consumer.localReader, i - 1))]]

-----------------------------------------------------------------------------
TypeOK ==
    /\ buffer \in [Slots -> Data \cup {NoData}]
    /\ writer \in Seq(Stores) /\ writer # <<>>
    /\ reader \in Seq(Stores) /\ reader # <<>>
    /\ producer \in ProducerState
    /\ consumer \in ConsumerState
    /\ producerSees \in Position
    /\ consumerSees \in Position
    /\ pushPc \in PushPcs
    /\ popPc \in PopPcs
    /\ item \in Data \cup {NoData}
    /\ pushPc # "idle" => item \in Data
    /\ out \in Data \cup {NoData}
    /\ pushOk \in BOOLEAN
    /\ popOk \in BOOLEAN

\* All cursors, cached copies, views and stores in flight lie, in this order, on
\* one arc of the ring no longer than Capacity: the producer's cached reader,
\* the stores to reader_, localReader_, the consumer's cached writer, the stores
\* to writer_, localWriter_.  No stale copy is ever ahead of what it copies and
\* none lags a lap behind, across the wrap of size_t as well.  This is the
\* inductive invariant the proofs rest on (spsc_queue.hpp:80-125).
Ahead(p) == Sub(p, producer.cachedReader)

InOrder(location, base) ==
    \A i, j \in 1 .. Len(location) :
        i <= j => Sub(location[i].val, base) <= Sub(location[j].val, base)

CarriesOwnView(location) ==
    \A i \in 1 .. Len(location) : location[i].view = location[i].val

CursorOrder ==
    /\ InOrder(reader, producer.cachedReader)
    /\ Newest(reader).val = consumer.lastPublished
    /\ Ahead(consumer.lastPublished) <= Ahead(consumer.localReader)
    /\ Ahead(consumer.localReader) <= Ahead(consumer.cachedWriter)
    /\ Ahead(consumer.cachedWriter) <= Ahead(Observed(writer).val)
    /\ InOrder(writer, producer.cachedReader)
    /\ Newest(writer).val = producer.lastPublished
    /\ Ahead(producer.lastPublished) <= Ahead(producer.localWriter)
    /\ Ahead(producer.localWriter) <= Capacity
    /\ CarriesOwnView(reader)
    /\ CarriesOwnView(writer)
    /\ Ahead(producerSees) <= Ahead(consumer.localReader)
    /\ Ahead(consumer.cachedWriter) <= Ahead(consumerSees)
    /\ Ahead(consumerSees) <= Ahead(producer.localWriter)
    /\ pushPc = "write" => Ahead(producer.localWriter) < Capacity
    /\ popPc = "read" => consumer.localReader # consumer.cachedWriter

\* No access to a slot races.  push overwrites a slot only when the pop that
\* emptied it happened before; pop reads a slot only when the push that filled
\* it happened before; and the two are never at one slot together.  This is what
\* the release stores, the acquire loads and both full/empty tests are for
\* (spsc_queue.hpp:81-90 and 102-111).
NoDataRace ==
    /\ pushPc = "write" => Sub(producer.localWriter, producerSees) < Capacity
    /\ popPc = "read" => Sub(consumerSees, consumer.localReader) \in 1 .. Capacity
    /\ pushPc = "write" /\ popPc = "read" =>
           Slot(producer.localWriter) # Slot(consumer.localReader)

\* size() called by either thread, however stale the other's cursor it loads, is
\* a number of items the ring can hold: the wrapping subtraction never goes
\* below zero (spsc_queue.hpp:128-131).
SizeInRange ==
    /\ ProducerSize <= Capacity
    /\ ConsumerSize <= Capacity

\* When empty() answers the producer true, every published item has been popped;
\* when it answers the consumer true, no item the consumer could see is left
\* (spsc_queue.hpp:134-137, the exit test of benchmark_spsc.cpp:171).
EmptyIsHonest ==
    /\ ProducerEmpty => consumer.localReader = Newest(writer).val
    /\ ConsumerEmpty => consumer.localReader = Observed(writer).val

\* How far publication may lag.  Between calls fewer than a batch of items is
\* hidden from the consumer and fewer than a batch of free slots from the
\* producer; after a push that failed, or a pop that failed, none is
\* (spsc_queue.hpp:85, 93, 106, 114).
LagBelowBatch ==
    LET hidden == Sub(producer.localWriter, Newest(writer).val)
        unreported == Sub(consumer.localReader, Newest(reader).val)
    IN  /\ pushPc = "idle" => hidden < PublishBatch \/ hidden = 0
        /\ popPc = "idle" => unreported < PublishBatch \/ unreported = 0
        /\ pushPc = "idle" /\ ~pushOk => hidden = 0
        /\ popPc = "idle" /\ ~popOk => unreported = 0

\* The queue is a bounded FIFO: in order, nothing lost, doubled or altered, at
\* most Capacity inside, whatever the batches hide.
Fifo == INSTANCE BoundedFifo WITH items <- Items, capacity <- Capacity
ImplementsFifo == Fifo!Spec

\* Two threads that keep calling never wait for each other forever: the consumer
\* passes every position again and again, although neither publishes before it
\* has a batch or fails.
Progress == \A p \in Position : []<>(consumer.localReader = p)
=============================================================================

----------------------- MODULE CorrectnessTestProofs -----------------------
(***************************************************************************)
(* Proofs about CorrectnessTest for any number of items, any capacity,     *)
(* batch and word size: the test's flush() races with nothing, and the     *)
(* test never aborts.                                                      *)
(***************************************************************************)
EXTENDS CorrectnessTest, FastqSPSCProofs

-----------------------------------------------------------------------------
(***************************************************************************)
(* The inductive invariant: that of the queue, and what the places of the  *)
(* two threads in their code say of it.                                    *)
(***************************************************************************)
TestTypeOK ==
    /\ i \in 0 .. N
    /\ expected \in Nat
    /\ producerPc \in {"waitStart", "loop", "push", "end"}
    /\ consumerPc \in {"start", "checkDone", "checkEmpty", "call", "pop", "flush",
                       "drain", "drainPop", "checkCount", "pass"}

\* Once done is set the producer takes no further step.
ThreadsAreWhere ==
    /\ pushPc # "idle" => producerPc = "push" /\ item = i
    /\ producerPc = "push" => i < N
    /\ producerPc = "end" => i = N
    /\ done => producerPc = "end"
    /\ popPc # "idle" => consumerPc \in {"pop", "drainPop"}
    /\ consumerPc \in {"checkEmpty", "flush", "drain", "drainPop", "checkCount"} => done

\* What the consumer knows from done, until it loads writer_ again; what it finds
\* when it has looked; and what flush() leaves.
DoneOrders ==
    /\ consumerPc \in {"checkEmpty", "flush"} =>
           consumerSees = producer.localWriter /\ Len(writer) = 1
    /\ consumerPc = "flush" => consumer.localReader = Newest(writer).val

FlushShows ==
    /\ consumerPc \in {"drain", "drainPop"} =>
           Len(writer) = 1 /\ Newest(writer).val = producer.localWriter
    /\ \/ consumerPc = "drainPop" /\ popPc = "publishEmpty"
       \/ consumerPc = "drainPop" /\ popPc = "idle" /\ ~popOk
       \/ consumerPc = "checkCount"
       => consumer.localReader = producer.localWriter

\* The items pushed, the item that has left the queue for the consumer to compare,
\* the items popped: what is inside are the numbers between.
Accepted == pushPc = "publish" \/ (producerPc = "push" /\ pushPc = "idle" /\ pushOk)
Delivered ==
    popPc = "publish" \/ (consumerPc \in {"pop", "drainPop"} /\ popPc = "idle" /\ popOk)
Pushed == IF Accepted THEN i + 1 ELSE i
Popped == IF Delivered THEN expected + 1 ELSE expected

ItemsAreNumbered ==
    /\ Delivered => out = expected
    /\ Popped + Len(Items) = Pushed
    /\ \A k \in 1 .. Len(Items) : Items[k] = Popped + (k - 1)

QueueInv == TypeOK /\ CursorOrder /\ ProducerLag
TestInv ==
    QueueInv /\ TestTypeOK /\ ThreadsAreWhere /\ DoneOrders /\ FlushShows /\ ItemsAreNumbered

-----------------------------------------------------------------------------
(***************************************************************************)
(* The queue under the test: its own steps, and the acquire load of done.  *)
(***************************************************************************)
Acquire ==
    /\ writer' = <<Newest(writer)>>
    /\ consumerSees' = producer.localWriter
    /\ UNCHANGED <<buffer, reader, producer, consumer, producerSees,
                   producerVars, consumerVars>>

LEMMA TestStepKinds ==
    ASSUME TestTypeOK, [TestNext]_allVars
    PROVE  [Next]_vars \/ Acquire
<1>1. CASE ProducerCalls
  <2>1. i \in Data
    BY <1>1, TestAssumption DEF ProducerCalls, TestTypeOK
  <2> QED BY <1>1, <2>1 DEF ProducerCalls, Next, Push
<1>2. CASE ProducerStarts \/ ProducerReturns \/ ProducerDone
  BY <1>2 DEF ProducerStarts, ProducerReturns, ProducerDone
<1>3. CASE PushSteps
  BY <1>3 DEF PushSteps, Next, Push
<1>4. CASE ConsumerChecksDone
  BY <1>4 DEF ConsumerChecksDone, Acquire, vars, cursors
<1>5. CASE ConsumerCalls
  BY <1>5 DEF ConsumerCalls, Next, Pop
<1>6. CASE ConsumerFlushes
  BY <1>6 DEF ConsumerFlushes, Next
<1>7. CASE \/ ConsumerStarts \/ ConsumerChecksEmpty \/ ConsumerReturns
           \/ ConsumerDrains \/ ConsumerChecksCount
  BY <1>7 DEF ConsumerStarts, ConsumerChecksEmpty, ConsumerReturns, ConsumerDrains,
              ConsumerChecksCount
<1>8. CASE PopSteps
  BY <1>8 DEF PopSteps, Next, Pop
<1>9. CASE Propagate
  BY <1>9 DEF Propagate, Next
<1>10. CASE Joined \/ UNCHANGED allVars
  BY <1>10 DEF Joined, allVars
<1> QED BY <1>1, <1>2, <1>3, <1>4, <1>5, <1>6, <1>7, <1>8, <1>9, <1>10
        DEF TestNext, ProducerThread, ConsumerThread

LEMMA AcquireInv ==
    ASSUME QueueInv, Acquire
    PROVE  QueueInv'
<1> DEFINE w == Newest(writer)
<1>1. /\ writer \in Seq(Stores) /\ writer # <<>> /\ producer.localWriter \in Position
      /\ w \in Stores
  BY CursorTypes, LocationEnds DEF QueueInv, TypeOK
<1>2. TypeOK'
  BY <1>1 DEF QueueInv, TypeOK, Acquire, producerVars, consumerVars
<1>3. Len(writer') = 1 /\ writer'[1] = w /\ Observed(writer') = w /\ Newest(writer') = w
  BY DEF Acquire, Newest, Observed
<1>4. \A p \in Position : Ahead(p) \in Nat
  BY AheadTypes DEF QueueInv
<1>5. InOrder(writer, producer.cachedReader)' /\ CarriesOwnView(writer)'
  <2>1. w.view = w.val /\ Sub(w.val, producer.cachedReader) \in Nat
    BY <1>1, <1>4, LocationEnds, StoresFields
       DEF QueueInv, CursorOrder, CarriesOwnView, Newest, Ahead
  <2>2. producer' = producer
    BY DEF Acquire
  <2> QED BY <1>3, <2>1, <2>2 DEF InOrder, CarriesOwnView
<1>6. /\ Ahead(consumer.cachedWriter) <= Ahead(Observed(writer).val)
      /\ Ahead(Observed(writer).val) <= Ahead(w.val)
      /\ Ahead(w.val) <= Ahead(producer.localWriter)
  <2>1. w.val = producer.lastPublished
    BY DEF QueueInv, CursorOrder
  <2> QED BY <2>1, PublishedOrder DEF QueueInv, CursorOrder
<1>7. /\ Ahead(consumer.cachedWriter) <= Ahead(w.val)
      /\ Ahead(consumer.cachedWriter) <= Ahead(producer.localWriter)
      /\ Ahead(producer.localWriter) <= Ahead(producer.localWriter)
  BY <1>1, <1>4, <1>6, CursorTypes, StoresFields DEF QueueInv
<1>8. CursorOrder'
  BY <1>3, <1>5, <1>7
     DEF QueueInv, CursorOrder, Acquire, producerVars, consumerVars, Ahead, InOrder,
         CarriesOwnView, Newest
<1>9. ProducerLag'
  BY DEF QueueInv, ProducerLag, Acquire, producerVars
<1> QED BY <1>2, <1>8, <1>9 DEF QueueInv

LEMMA QueueStepInv ==
    ASSUME QueueInv, TestTypeOK, [TestNext]_allVars
    PROVE  QueueInv'
  BY TestStepKinds, AcquireInv, TypeStep, CursorOrderStep, ProducerLagStep DEF QueueInv

-----------------------------------------------------------------------------
(***************************************************************************)
(* Where the threads are.                                                  *)
(***************************************************************************)
LEMMA PlacesStep ==
    ASSUME QueueInv, TestInv, [TestNext]_allVars
    PROVE  TestTypeOK' /\ ThreadsAreWhere'
<1> USE TestAssumption DEF TestInv, TestTypeOK, ThreadsAreWhere, vars, cursors,
        producerVars, consumerVars, testVars
<1>1. CASE ProducerStarts
  BY <1>1 DEF ProducerStarts
<1>2. CASE ProducerCalls
  BY <1>2 DEF ProducerCalls, PushBegin
<1>3. CASE ProducerReturns
  BY <1>3 DEF ProducerReturns
<1>4. CASE ProducerDone
  BY <1>4 DEF ProducerDone
<1>5. CASE PushSteps
  BY <1>5 DEF PushSteps, PushLoadReader, PushWrite, PushPublish
<1>6. CASE ConsumerStarts
  BY <1>6 DEF ConsumerStarts
<1>7. CASE ConsumerChecksDone
  BY <1>7 DEF ConsumerChecksDone
<1>8. CASE ConsumerChecksEmpty
  BY <1>8 DEF ConsumerChecksEmpty
<1>9. CASE ConsumerCalls
  BY <1>9 DEF ConsumerCalls, PopBegin
<1>10. CASE ConsumerReturns
  <2>1. popOk => out = expected
    BY <1>10 DEF ConsumerReturns, ItemsAreNumbered, Delivered
  <2> QED BY <1>10, <2>1 DEF ConsumerReturns
<1>11. CASE ConsumerFlushes
  BY <1>11 DEF ConsumerFlushes, Flush
<1>12. CASE ConsumerDrains
  <2>1. popOk => out = expected
    BY <1>12 DEF ConsumerDrains, ItemsAreNumbered, Delivered
  <2> QED BY <1>12, <2>1 DEF ConsumerDrains
<1>13. CASE ConsumerChecksCount
  <2>1. consumer.localReader = producer.localWriter /\ producerPc = "end"
    BY <1>13 DEF ConsumerChecksCount, FlushShows
  <2>2. Len(Items) = 0
    <3>1. ItemsShape
      BY ItemsShapeHolds DEF QueueInv
    <3> QED BY <2>1, <3>1, SubZero, CursorTypes DEF ItemsShape, QueueInv
  <2>3. ~Accepted /\ ~Delivered
    BY <1>13, <2>1 DEF ConsumerChecksCount, Accepted, Delivered
  <2>4. expected = N
    BY <2>1, <2>2, <2>3 DEF ItemsAreNumbered, Popped, Pushed
  <2> QED BY <1>13, <2>4 DEF ConsumerChecksCount
<1>14. CASE PopSteps
  BY <1>14 DEF PopSteps, PopLoadWriter, PopRead, PopPublish
<1>15. CASE Propagate
  BY <1>15 DEF Propagate, PropagateWriter, PropagateReader
<1>16. CASE Joined \/ UNCHANGED allVars
  BY <1>16 DEF Joined, allVars
<1> QED BY <1>1, <1>2, <1>3, <1>4, <1>5, <1>6, <1>7, <1>8, <1>9, <1>10, <1>11, <1>12,
           <1>13, <1>14, <1>15, <1>16 DEF TestNext, ProducerThread, ConsumerThread

-----------------------------------------------------------------------------
(***************************************************************************)
(* What the acquire load of done and the flush() show.                     *)
(***************************************************************************)
LEMMA DoneStep ==
    ASSUME TestInv, [TestNext]_allVars
    PROVE  DoneOrders'
<1> USE DEF TestInv, ThreadsAreWhere, DoneOrders, vars, cursors, producerVars,
        consumerVars, testVars
<1>1. CASE ProducerStarts \/ ProducerReturns \/ ProducerDone
  BY <1>1 DEF ProducerStarts, ProducerReturns, ProducerDone
<1>2. CASE ProducerCalls
  BY <1>2 DEF ProducerCalls, PushBegin
<1>3. CASE PushSteps
  BY <1>3 DEF PushSteps, PushLoadReader, PushWrite, PushPublish
<1>4. CASE ConsumerChecksDone
  BY <1>4 DEF ConsumerChecksDone
<1>5. CASE ConsumerChecksEmpty
  <2>1. ConsumerEmpty => consumer.localReader = Observed(writer).val
    BY EmptyIsHonestHolds DEF QueueInv, EmptyIsHonest
  <2>2. Len(writer) = 1 => Observed(writer) = Newest(writer)
    BY LocationEnds DEF QueueInv, TypeOK, Newest
  <2> QED BY <1>5, <2>1, <2>2 DEF ConsumerChecksEmpty
<1>6. CASE ConsumerStarts \/ ConsumerReturns \/ ConsumerDrains \/ ConsumerChecksCount
  BY <1>6 DEF ConsumerStarts, ConsumerReturns, ConsumerDrains, ConsumerChecksCount
<1>7. CASE ConsumerCalls \/ ConsumerFlushes
  BY <1>7 DEF ConsumerCalls, ConsumerFlushes
<1>8. CASE PopSteps
  BY <1>8 DEF PopSteps, PopLoadWriter, PopRead, PopPublish
<1>9. CASE Propagate
  BY <1>9 DEF Propagate, PropagateWriter, PropagateReader
<1>10. CASE Joined \/ UNCHANGED allVars
  BY <1>10 DEF Joined, allVars
<1> QED BY <1>1, <1>2, <1>3, <1>4, <1>5, <1>6, <1>7, <1>8, <1>9, <1>10
        DEF TestNext, ProducerThread, ConsumerThread

LEMMA FlushShowsStep ==
    ASSUME TestInv, [TestNext]_allVars
    PROVE  FlushShows'
<1> USE DEF TestInv, ThreadsAreWhere, FlushShows, vars, cursors, producerVars,
        consumerVars, testVars
<1>1. CASE ProducerStarts \/ ProducerReturns \/ ProducerDone
  BY <1>1 DEF ProducerStarts, ProducerReturns, ProducerDone
<1>2. CASE ProducerCalls
  BY <1>2 DEF ProducerCalls, PushBegin
<1>3. CASE PushSteps
  BY <1>3 DEF PushSteps, PushLoadReader, PushWrite, PushPublish
<1>4. CASE ConsumerChecksDone
  BY <1>4 DEF ConsumerChecksDone
<1>5. CASE ConsumerStarts \/ ConsumerReturns \/ ConsumerChecksEmpty \/ ConsumerChecksCount
  BY <1>5 DEF ConsumerStarts, ConsumerReturns, ConsumerChecksEmpty, ConsumerChecksCount
<1>6. CASE ConsumerDrains
  BY <1>6 DEF ConsumerDrains
<1>7. CASE ConsumerCalls
  BY <1>7 DEF ConsumerCalls, PopBegin
<1>8. CASE ConsumerFlushes
  <2>1. /\ writer' = <<[val |-> producer.localWriter, view |-> producer.localWriter]>>
        /\ producer'.localWriter = producer.localWriter /\ consumerPc' = "drain"
    BY <1>8 DEF ConsumerFlushes, Flush, QueueInv, TypeOK, ProducerState
  <2> QED BY <2>1 DEF Newest
<1>9. CASE PopSteps
  <2>1. CASE PopLoadWriter /\ consumerPc = "drainPop"
    <3>1. Observed(writer).val = producer.localWriter
      BY <2>1, LocationEnds DEF QueueInv, TypeOK, Newest
    <3>2. /\ consumer'.cachedWriter = producer.localWriter
          /\ consumer'.localReader = consumer.localReader
      BY <2>1, <3>1 DEF PopLoadWriter, QueueInv, TypeOK, ConsumerState
    <3> QED BY <1>9, <2>1, <3>2 DEF PopSteps, PopLoadWriter, Empty
  <2>2. CASE PopLoadWriter /\ consumerPc # "drainPop"
    BY <1>9, <2>2 DEF PopSteps, PopLoadWriter
  <2>3. CASE PopRead
    BY <1>9, <2>3 DEF PopSteps, PopRead
  <2>4. CASE PopPublish
    <3>1. consumer'.localReader = consumer.localReader
      BY <2>4 DEF PopPublish, PublishReader, QueueInv, TypeOK, ConsumerState
    <3> QED BY <1>9, <2>4, <3>1 DEF PopSteps, PopPublish
  <2> QED BY <1>9, <2>1, <2>2, <2>3, <2>4 DEF PopSteps
<1>10. CASE Propagate
  <2>1. CASE PropagateWriter
    <3>1. /\ Len(writer) > 1 /\ consumerPc \notin {"drain", "drainPop"}
          /\ UNCHANGED <<producer, consumer, consumerPc>>
      <4>1. consumerPc \in {"drain", "drainPop"} => Len(writer) = 1
        BY DEF FlushShows
      <4>2. Len(writer) > 1
        BY <2>1 DEF PropagateWriter
      <4>3. UNCHANGED <<producer, consumer, consumerPc>>
        BY <1>10, <2>1 DEF Propagate, PropagateWriter
      <4>4. Len(writer) # 1
        <5> DEFINE n == Len(writer)
        <5>1. n \in Nat
          BY LocationEnds DEF QueueInv, TypeOK
        <5>2. n > 1
          BY <4>2
        <5> HIDE DEF n
        <5>3. n # 1
          BY <5>1, <5>2
        <5> QED BY <5>3 DEF n
      <4> QED BY <4>1, <4>2, <4>3, <4>4, Zenon
    <3>2. consumerPc = "checkCount" => consumer.localReader = producer.localWriter
      BY DEF FlushShows
    <3> QED BY <3>1, <3>2 DEF FlushShows
  <2>2. CASE PropagateReader
    BY <1>10, <2>2 DEF Propagate, PropagateReader
  <2> QED BY <1>10, <2>1, <2>2 DEF Propagate
<1>11. CASE Joined \/ UNCHANGED allVars
  BY <1>11 DEF Joined, allVars
<1> QED BY <1>1, <1>2, <1>3, <1>4, <1>5, <1>6, <1>7, <1>8, <1>9, <1>10, <1>11
        DEF TestNext, ProducerThread, ConsumerThread

-----------------------------------------------------------------------------
(***************************************************************************)
(* The numbers inside.                                                     *)
(***************************************************************************)
ItemsStay == Items' = Items /\ out' = out

\* Only a write and a read move items.
LEMMA OthersKeepItems ==
    ASSUME TypeOK, ~PushWrite, ~PopRead, [Next]_vars \/ Acquire
    PROVE  ItemsStay
<1>1. ASSUME UNCHANGED <<buffer, out>>,
             producer'.localWriter = producer.localWriter,
             consumer'.localReader = consumer.localReader
      PROVE  ItemsStay
  BY <1>1 DEF ItemsStay, Items
<1> USE DEF cursors, producerVars, consumerVars
<1>2. ASSUME NEW d \in Data, PushBegin(d) PROVE ItemsStay
  BY <1>1, <1>2 DEF PushBegin
<1>3. CASE PushLoadReader
  BY <1>1, <1>3 DEF PushLoadReader, TypeOK, ProducerState
<1>4. CASE PushPublish
  BY <1>1, <1>4 DEF PushPublish, PublishWriter, TypeOK, ProducerState
<1>5. CASE PopBegin
  BY <1>1, <1>5 DEF PopBegin
<1>6. CASE PopLoadWriter
  BY <1>1, <1>6 DEF PopLoadWriter, TypeOK, ConsumerState
<1>7. CASE PopPublish
  BY <1>1, <1>7 DEF PopPublish, PublishReader, TypeOK, ConsumerState
<1>8. CASE Flush
  BY <1>1, <1>8 DEF Flush, TypeOK, ProducerState, ConsumerState
<1>9. CASE PropagateWriter \/ PropagateReader
  BY <1>1, <1>9 DEF PropagateWriter, PropagateReader
<1>10. CASE UNCHANGED vars \/ Acquire
  BY <1>1, <1>10 DEF vars, Acquire
<1> QED BY <1>2, <1>3, <1>4, <1>5, <1>6, <1>7, <1>8, <1>9, <1>10 DEF Next, Push, Pop

\* A step that moves no item and changes neither count keeps the numbers.
LEMMA SameNumbers ==
    ASSUME ItemsAreNumbered, ItemsStay, Popped' = Popped, Pushed' = Pushed,
           Delivered' => Delivered /\ expected' = expected
    PROVE  ItemsAreNumbered'
  BY DEF ItemsAreNumbered, ItemsStay

LEMMA NumbersStep ==
    ASSUME TestInv, QueueInv', [TestNext]_allVars
    PROVE  ItemsAreNumbered'
<1>0. /\ TypeOK /\ CursorOrder /\ TestTypeOK /\ ItemsAreNumbered /\ ThreadsAreWhere
      /\ TypeOK' /\ CursorOrder'
  BY DEF TestInv, QueueInv
<1>1. ~PushWrite /\ ~PopRead => ItemsStay
  BY <1>0, TestStepKinds, OthersKeepItems
<1> USE DEF ThreadsAreWhere, vars, cursors, producerVars, consumerVars, testVars,
        Accepted, Delivered, Pushed, Popped
<1>2. CASE ProducerStarts \/ ProducerReturns \/ ProducerDone
  BY <1>0, <1>1, <1>2, SameNumbers
     DEF ProducerStarts, ProducerReturns, ProducerDone, PushWrite, PopRead
<1>3. CASE ProducerCalls
  BY <1>0, <1>1, <1>3, SameNumbers DEF ProducerCalls, PushBegin, PushWrite, PopRead
<1>4. CASE PushSteps /\ ~PushWrite
  <2>1. ItemsStay /\ Popped' = Popped /\ expected' = expected /\ (Delivered' => Delivered)
    BY <1>0, <1>1, <1>4 DEF PushSteps, PushLoadReader, PushPublish, PopRead
  <2>2. producerPc = "push" /\ producerPc' = "push" /\ i' = i
    BY <1>0, <1>4 DEF PushSteps, PushLoadReader, PushPublish
  <2>3. CASE PushLoadReader
    BY <1>0, <2>1, <2>2, <2>3, SameNumbers DEF PushLoadReader
  <2>4. CASE PushPublish
    <3>1. (pushPc = "publish") = pushOk' /\ pushPc # "idle" /\ pushPc' = "idle"
      BY <2>4 DEF PushPublish
    <3>2. Accepted = Accepted'
      BY <2>2, <3>1
    <3> QED BY <1>0, <2>1, <2>2, <3>2, SameNumbers
  <2> QED BY <1>4, <2>3, <2>4 DEF PushSteps
<1>5. CASE PushSteps /\ PushWrite
  <2>1. Items' = Append(Items, i) /\ out' = out
    BY <1>0, <1>5, WriteEnqueues DEF Fifo!Enqueue, PushWrite
  <2>2. Pushed = i /\ Pushed' = i + 1
    <3>1. pushPc = "write" /\ producerPc = "push" /\ i' = i /\ producerPc' = producerPc
      BY <1>0, <1>5 DEF PushSteps, PushWrite
    <3>2. pushPc' = "publish" \/ (pushPc' = "idle" /\ pushOk')
      BY <1>5, Zenon DEF PushWrite
    <3>3. ~Accepted /\ Accepted'
      BY <3>1, <3>2
    <3> QED BY <3>1, <3>3, Zenon
  <2>3. Popped' = Popped /\ (Delivered' => Delivered) /\ expected' = expected
    BY <1>5 DEF PushSteps, PushWrite
  <2>4. /\ i \in Nat /\ Popped \in Nat /\ Len(Items) \in Nat /\ Items \in Seq(Values)
        /\ Popped + Len(Items) = i
    BY <1>0, <2>2, ItemsShapeHolds, TestAssumption DEF TestTypeOK, ItemsAreNumbered, ItemsShape
  <2> HIDE DEF Accepted, Delivered, Pushed, Popped
  <2>5. Len(Items') = Len(Items) + 1
    BY <2>1, <2>4
  <2>6. ASSUME NEW k \in 1 .. Len(Items') PROVE Items'[k] = Popped + (k - 1)
    <3>1. CASE k <= Len(Items)
      BY <1>0, <2>1, <2>4, <2>5, <2>6, <3>1 DEF ItemsAreNumbered
    <3>2. CASE k = Len(Items) + 1
      BY <2>1, <2>4, <3>2
    <3> QED BY <2>4, <2>5, <2>6, <3>1, <3>2
  <2> QED BY <1>0, <2>1, <2>2, <2>3, <2>4, <2>5, <2>6 DEF ItemsAreNumbered
<1>6. CASE ConsumerStarts \/ ConsumerChecksDone \/ ConsumerChecksEmpty \/ ConsumerChecksCount
  BY <1>0, <1>1, <1>6, SameNumbers
     DEF ConsumerStarts, ConsumerChecksDone, ConsumerChecksEmpty, ConsumerChecksCount,
         PushWrite, PopRead
<1>7. CASE ConsumerReturns \/ ConsumerDrains
  BY <1>0, <1>1, <1>7, SameNumbers
     DEF ConsumerReturns, ConsumerDrains, PushWrite, PopRead, ItemsAreNumbered
<1>8. CASE ConsumerCalls
  BY <1>0, <1>1, <1>8, SameNumbers DEF ConsumerCalls, PopBegin, PushWrite, PopRead
<1>9. CASE ConsumerFlushes
  BY <1>0, <1>1, <1>9, SameNumbers DEF ConsumerFlushes, Flush, PushWrite, PopRead
<1>10. CASE PopSteps /\ ~PopRead
  <2>1. ItemsStay /\ Pushed' = Pushed /\ expected' = expected
    BY <1>0, <1>1, <1>10 DEF PopSteps, PopLoadWriter, PopPublish, PushWrite
  <2>2. consumerPc \in {"pop", "drainPop"} /\ consumerPc' = consumerPc
    BY <1>0, <1>10 DEF PopSteps, PopLoadWriter, PopPublish
  <2>3. CASE PopLoadWriter
    BY <1>0, <2>1, <2>2, <2>3, SameNumbers DEF PopLoadWriter
  <2>4. CASE PopPublish
    <3>1. (popPc = "publish") = popOk' /\ popPc # "idle" /\ popPc' = "idle"
      BY <2>4 DEF PopPublish
    <3>2. Delivered = Delivered'
      BY <2>2, <3>1
    <3> QED BY <1>0, <2>1, <2>2, <3>2, SameNumbers
  <2> QED BY <1>10, <2>3, <2>4 DEF PopSteps
<1>11. CASE PopSteps /\ PopRead
  <2>1. Items # <<>> /\ out' = Head(Items) /\ Items' = Tail(Items)
    BY <1>0, <1>11, ReadDequeues DEF Fifo!Dequeue
  <2>2. Popped = expected /\ Popped' = expected + 1 /\ expected' = expected
    <3>1. /\ popPc = "read" /\ consumerPc \in {"pop", "drainPop"}
          /\ expected' = expected /\ consumerPc' = consumerPc
      BY <1>0, <1>11 DEF PopSteps, PopRead
    <3>2. popPc' = "publish" \/ (popPc' = "idle" /\ popOk')
      BY <1>11, Zenon DEF PopRead
    <3>3. ~Delivered /\ Delivered'
      BY <3>1, <3>2
    <3> QED BY <3>1, <3>3, Zenon
  <2>3. Pushed' = Pushed
    BY <1>11 DEF PopSteps, PopRead
  <2>4. /\ Popped \in Nat /\ Len(Items) \in Nat /\ Items \in Seq(Values)
        /\ Popped + Len(Items) = Pushed
        /\ \A k \in 1 .. Len(Items) : Items[k] = Popped + (k - 1)
    BY <1>0, <2>2, ItemsShapeHolds DEF TestTypeOK, ItemsAreNumbered, ItemsShape
  <2> HIDE DEF Accepted, Delivered, Pushed, Popped
  <2>5. Len(Items) >= 1 /\ Len(Items') = Len(Items) - 1
    BY <2>1, <2>4
  <2>6. out' = expected'
    BY <2>1, <2>2, <2>4, <2>5
  <2>7. ASSUME NEW k \in 1 .. Len(Items') PROVE Items'[k] = Popped' + (k - 1)
    <3>1. Items'[k] = Items[k + 1]
      BY <2>1, <2>4, <2>5
    <3> QED BY <2>2, <2>4, <2>5, <3>1
  <2>8. Popped' + Len(Items') = Pushed'
    BY <2>2, <2>3, <2>4, <2>5
  <2> QED BY <2>6, <2>7, <2>8 DEF ItemsAreNumbered
<1>12. CASE Propagate
  BY <1>0, <1>1, <1>12, SameNumbers
     DEF Propagate, PropagateWriter, PropagateReader, PushWrite, PopRead
<1>13. CASE Joined \/ UNCHANGED allVars
  <2>1. UNCHANGED allVars
    BY <1>13 DEF Joined
  <2> QED BY <1>0, <2>1 DEF allVars, ItemsAreNumbered, Items
<1> QED BY <1>2, <1>3, <1>4, <1>5, <1>6, <1>7, <1>8, <1>9, <1>10, <1>11, <1>12, <1>13
        DEF TestNext, ProducerThread, ConsumerThread

-----------------------------------------------------------------------------
(***************************************************************************)
(* The theorems.                                                           *)
(***************************************************************************)
LEMMA TestInitInv == TestInit => TestInv
<1> SUFFICES ASSUME TestInit PROVE TestInv
  OBVIOUS
<1>1. QueueInv
  BY InitTypeOK, InitCursorOrder, InitLag DEF TestInit, QueueInv
<1>2. TestTypeOK /\ ThreadsAreWhere /\ DoneOrders /\ FlushShows
  BY TestAssumption DEF TestInit, Init, TestTypeOK, ThreadsAreWhere, DoneOrders, FlushShows
<1>3. ItemsAreNumbered
  <2>1. Len(Items) = 0
    BY <1>1, ItemsShapeHolds, OneIsPosition, SubZero DEF QueueInv, ItemsShape, TestInit, Init
  <2>2. Pushed = 0 /\ Popped = 0 /\ ~Delivered
    BY DEF TestInit, Init, Pushed, Popped, Accepted, Delivered
  <2> QED BY <2>1, <2>2 DEF ItemsAreNumbered
<1> QED BY <1>1, <1>2, <1>3 DEF TestInv

\* The inductive invariant of the test: the queue's own, and what each place in
\* the two lambdas of test_spsc_correctness knows (benchmark_spsc.cpp:153-196).
THEOREM TestInvariant == TestSpec => []TestInv
<1>1. TestInv /\ [TestNext]_allVars => TestInv'
  <2> SUFFICES ASSUME TestInv, [TestNext]_allVars PROVE TestInv'
    OBVIOUS
  <2>1. QueueInv'
    BY QueueStepInv DEF TestInv
  <2> QED BY <2>1, PlacesStep, DoneStep, FlushShowsStep, NumbersStep DEF TestInv
<1> QED BY <1>1, TestInitInv, PTL DEF TestSpec

\* Where the test calls flush() (benchmark_spsc.cpp:181) the producer is past its
\* last push and everything it did is ordered before, so that a flush() which
\* stores to both cursors races with nothing.
THEOREM FlushIsOrderedInvariant == TestSpec => []FlushIsOrdered
<1>1. TestInv => FlushIsOrdered
  BY DEF TestInv, ThreadsAreWhere, DoneOrders, FlushIsOrdered
<1> QED BY <1>1, TestInvariant, PTL

\* What flush() reveals at the end of the test is less than one batch
\* (benchmark_spsc.cpp:171, spsc_queue.hpp:134-137).
THEOREM FlushRevealsLessThanBatchInvariant == TestSpec => []FlushRevealsLessThanBatch
<1>1. TestInv => FlushRevealsLessThanBatch
  <2> SUFFICES ASSUME TestInv, consumerPc = "flush"
               PROVE  LET left == Sub(producer.localWriter, consumer.localReader)
                      IN  left < PublishBatch \/ left = 0
    BY DEF FlushRevealsLessThanBatch
  <2>1. consumer.localReader = producer.lastPublished
    BY DEF TestInv, QueueInv, CursorOrder, DoneOrders
  <2>2. pushPc = "idle"
    BY DEF TestInv, ThreadsAreWhere
  <2> QED BY <2>1, <2>2 DEF TestInv, QueueInv, ProducerLag
<1> QED BY <1>1, TestInvariant, PTL

\* The test never aborts: every item the consumer pops is the next number, and
\* once it has drained what flush() made visible it has got all N
\* (benchmark_spsc.cpp:173, 183, 190).
THEOREM NeverAbortsInvariant == TestSpec => []NeverAborts
<1>1. TestInv => NeverAborts
  BY DEF TestInv, TestTypeOK, NeverAborts
<1> QED BY <1>1, TestInvariant, PTL
=============================================================================

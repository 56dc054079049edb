-------------------------- MODULE BenchmarkProofs --------------------------
(***************************************************************************)
(* Proofs about Benchmark for any payloads, capacity, batch and word size: *)
(* every item is popped in its turn and counted once, and at most a batch  *)
(* is left in the queue.                                                   *)
(***************************************************************************)
EXTENDS Benchmark, FastqSPSCProofs

-----------------------------------------------------------------------------
(***************************************************************************)
(* The inductive invariant: that of the queue, and what the places of the  *)
(* threads in their code say of it.                                        *)
(***************************************************************************)
Payloads == 0 .. Width - 1

BenchTypeOK ==
    /\ stop \in BOOLEAN
    /\ payload \in Payloads /\ localSum \in Payloads /\ localOps \in Payloads
    /\ mainPc \in {"waitReady", "sleep", "join", "return"}
    /\ producerPc \in {"pin", "waitStart", "checkStop", "call", "push", "end"}
    /\ consumerPc \in {"pin", "waitStart", "checkStop", "pop", "drain", "drainPop", "end"}

\* A thread inside a call is where it made the call; the consumer drains only
\* after stop, and main returns only after both threads.
ThreadsAreWhere ==
    /\ pushPc # "idle" => producerPc = "push" /\ item = payload
    /\ popPc # "idle" => consumerPc \in {"pop", "drainPop"}
    /\ consumerPc \in {"drain", "drainPop", "end"} => stop
    /\ mainPc = "return" => producerPc = "end" /\ consumerPc = "end"

\* What the producer has not published at each place inside push.
HiddenInPush ==
    LET hidden == Sub(producer.localWriter, producer.lastPublished)
    IN  IF pushPc = "publish" THEN hidden <= PublishBatch ELSE hidden < PublishBatch

\* The consumer has found the queue empty after stop, and pops no more.
Leaves ==
    \/ consumerPc = "drainPop" /\ popPc = "publishEmpty"
    \/ consumerPc = "drainPop" /\ popPc = "idle" /\ ~popOk
    \/ consumerPc = "end"

\* The producer has a push to finish, whatever stop says.
OwesPush ==
    \/ producerPc = "call"
    \/ producerPc = "push" /\ pushPc \in {"load", "write", "publishFull"}
    \/ producerPc = "push" /\ pushPc = "idle" /\ ~pushOk

LeftBehind ==
    LET left == Sub(producer.localWriter, consumer.localReader)
    IN  Leaves => IF OwesPush THEN left < PublishBatch ELSE left <= PublishBatch

\* The item pushed last, and the item popped last, that the thread has not
\* counted yet.
Accepted ==
    producerPc = "push" /\ (pushPc = "publish" \/ (pushPc = "idle" /\ pushOk))
Delivered ==
    /\ consumerPc \in {"pop", "drainPop"}
    /\ popPc = "publish" \/ (popPc = "idle" /\ popOk)
Pushed == IF Accepted THEN (payload + 1) % Width ELSE payload
Popped == IF Delivered THEN Sub(consumer.localReader, 1) ELSE consumer.localReader

DeliveredIsNumber == Delivered => out \in Nat

\* The sum of 0, 1, ..., k - 1.
Triangle(k) == (k * (k - 1)) \div 2

ItemsAreNumbered ==
    /\ producer.localWriter % Width = Pushed
    /\ \A k \in 1 .. Len(Items) : Items[k] = Add(consumer.localReader, k - 1) % Width
    /\ Delivered => out = Popped % Width

OpsAreCounted ==
    consumerPc \in {"pin", "waitStart", "checkStop", "pop"} => localOps = Popped % Width

\* The sum agrees up to multiples of V.
SumAgrees(V) == localSum % V = Triangle(Popped) % V

QueueInv == TypeOK /\ CursorOrder /\ Len(writer) = 1
BenchInv == QueueInv /\ BenchTypeOK /\ ThreadsAreWhere

-----------------------------------------------------------------------------
(***************************************************************************)
(* The queue under the benchmark, and where the threads are.               *)
(***************************************************************************)
LEMMA BenchStepKinds ==
    ASSUME BenchTypeOK, [BenchNext]_allVars
    PROVE  [Push \/ Pop]_vars
<1>1. CASE Main
  BY <1>1 DEF Main, MainStarts, MainStops, MainJoins
<1>2. CASE ProducerCalls
  <2>1. payload \in Data
    BY BenchmarkAssumption DEF BenchTypeOK, Payloads
  <2> QED BY <1>2, <2>1 DEF ProducerCalls, Push
<1>3. CASE ProducerReady \/ ProducerChecksFlag \/ ProducerReturns
  BY <1>3 DEF ProducerReady, ProducerChecksFlag, ProducerReturns
<1>4. CASE PushSteps
  BY <1>4 DEF PushSteps, Push
<1>5. CASE ConsumerReady \/ ConsumerWaits \/ ConsumerReturns \/ ConsumerDrained
  BY <1>5 DEF ConsumerReady, ConsumerWaits, ConsumerReturns, ConsumerDrained
<1>6. CASE ConsumerChecksStop \/ ConsumerDrains
  BY <1>6 DEF ConsumerChecksStop, ConsumerDrains, Pop
<1>7. CASE PopSteps
  BY <1>7 DEF PopSteps, Pop
<1>8. CASE Returned \/ UNCHANGED allVars
  BY <1>8 DEF Returned, allVars
<1> QED BY <1>1, <1>2, <1>3, <1>4, <1>5, <1>6, <1>7, <1>8
        DEF BenchNext, ProducerThread, ConsumerThread

\* Stores are seen at once: no older one is left to observe.
LEMMA OneStoreStep ==
    ASSUME Len(writer) = 1, [Push \/ Pop]_vars
    PROVE  Len(writer') = 1
<1>1. ASSUME NEW s PROVE Len(Store(writer, s)) = 1
  BY BenchmarkAssumption DEF Store
<1>2. CASE PushPublish
  BY <1>1, <1>2 DEF PushPublish, PublishWriter
<1>3. CASE Push /\ ~PushPublish
  BY <1>3 DEF Push, PushBegin, PushLoadReader, PushWrite, cursors
<1>4. CASE Pop
  BY <1>4 DEF Pop, PopBegin, PopLoadWriter, PopRead, PopPublish, cursors
<1>5. CASE UNCHANGED vars
  BY <1>5 DEF vars, cursors
<1> QED BY <1>2, <1>3, <1>4, <1>5

LEMMA QueueStepInv ==
    ASSUME QueueInv, BenchTypeOK, [BenchNext]_allVars
    PROVE  QueueInv'
<1>1. [Push \/ Pop]_vars
  BY BenchStepKinds
<1>2. [Next]_vars
  BY <1>1 DEF Next
<1> QED BY <1>1, <1>2, OneStoreStep, TypeStep, CursorOrderStep DEF QueueInv

LEMMA BenchTypeStep ==
    ASSUME BenchTypeOK, DeliveredIsNumber, [BenchNext]_allVars
    PROVE  BenchTypeOK'
<1>1. \A n \in Nat : n % Width \in Payloads
  BY BenchmarkAssumption DEF Payloads
<1>2. CASE Main \/ ProducerThread
  <2>1. (payload + 1) % Width \in Payloads
    BY <1>1 DEF BenchTypeOK, Payloads
  <2> QED BY <1>2, <2>1
          DEF BenchTypeOK, Main, MainStarts, MainStops, MainJoins, ProducerThread,
              ProducerReady, ProducerChecksFlag, ProducerCalls, ProducerReturns, PushSteps,
              benchVars
<1>3. CASE ConsumerReturns \/ ConsumerDrained
  <2>1. /\ popOk => localSum' = (localSum + out) % Width
        /\ ~popOk => localSum' = localSum
        /\ localOps' = (localOps + 1) % Width \/ localOps' = localOps
        /\ UNCHANGED <<stop, payload, mainPc, producerPc>>
        /\ consumerPc' \in {"checkStop", "drain", "end"}
    BY <1>3 DEF ConsumerReturns, ConsumerDrained
  <2>2. Delivered \/ ~popOk
    BY <1>3 DEF Delivered, ConsumerReturns, ConsumerDrained
  <2>3. popOk => out \in Nat
    BY <2>2 DEF DeliveredIsNumber
  <2>4. localSum' \in Payloads /\ localOps' \in Payloads
    BY <1>1, <2>1, <2>3 DEF BenchTypeOK, Payloads
  <2> QED BY <2>1, <2>4 DEF BenchTypeOK
<1>4. CASE ConsumerThread /\ ~ConsumerReturns /\ ~ConsumerDrained
  BY <1>4 DEF BenchTypeOK, ConsumerThread, ConsumerReady, ConsumerWaits, ConsumerChecksStop,
              ConsumerDrains, PopSteps, benchVars
<1>5. CASE Returned \/ UNCHANGED allVars
  BY <1>5 DEF BenchTypeOK, Returned, allVars, benchVars
<1> QED BY <1>2, <1>3, <1>4, <1>5 DEF BenchNext

LEMMA PlacesStep ==
    ASSUME BenchTypeOK, ThreadsAreWhere, [BenchNext]_allVars
    PROVE  ThreadsAreWhere'
<1> USE DEF BenchTypeOK, ThreadsAreWhere, vars, cursors, producerVars, consumerVars, benchVars
<1>1. CASE Main
  BY <1>1 DEF Main, MainStarts, MainStops, MainJoins
<1>2. CASE ProducerCalls
  BY <1>2 DEF ProducerCalls, PushBegin
<1>3. CASE ProducerReady \/ ProducerChecksFlag \/ ProducerReturns
  BY <1>3 DEF ProducerReady, ProducerChecksFlag, ProducerReturns
<1>4. CASE PushSteps
  BY <1>4 DEF PushSteps, PushLoadReader, PushWrite, PushPublish
<1>5. CASE ConsumerReady \/ ConsumerWaits \/ ConsumerReturns \/ ConsumerDrained
  BY <1>5 DEF ConsumerReady, ConsumerWaits, ConsumerReturns, ConsumerDrained
<1>6. CASE ConsumerChecksStop
  BY <1>6 DEF ConsumerChecksStop, PopBegin
<1>7. CASE ConsumerDrains
  BY <1>7 DEF ConsumerDrains, PopBegin
<1>8. CASE PopSteps
  BY <1>8 DEF PopSteps, PopLoadWriter, PopRead, PopPublish
<1>9. CASE Returned \/ UNCHANGED allVars
  BY <1>9 DEF Returned, allVars
<1> QED BY <1>1, <1>2, <1>3, <1>4, <1>5, <1>6, <1>7, <1>8, <1>9
        DEF BenchNext, ProducerThread, ConsumerThread

-----------------------------------------------------------------------------
(***************************************************************************)
(* What is left behind.                                                    *)
(***************************************************************************)

\* A write adds one to a distance from a base that the ring still has room for.
LEMMA WriteAddsOne ==
    ASSUME TypeOK, CursorOrder, PushWrite, NEW base \in Position,
           Ahead(base) <= Ahead(producer.localWriter)
    PROVE  Sub(producer'.localWriter, base) = Sub(producer.localWriter, base) + 1
<1>1. /\ pushPc = "write" /\ producer'.localWriter = Add(producer.localWriter, 1)
  BY DEF PushWrite, TypeOK, ProducerState
<1>2. Ahead(producer.localWriter) < Capacity /\ producer.localWriter \in Position
  BY <1>1, CursorTypes DEF CursorOrder
<1>3. /\ Ahead(base) \in Nat /\ Ahead(producer.localWriter) \in Nat
      /\ Sub(producer.localWriter, base) = Ahead(producer.localWriter) - Ahead(base)
  BY <1>2, Distances
<1> QED BY <1>1, <1>2, <1>3, SubIncrement, SizeTAssumption

LEMMA HiddenStep ==
    ASSUME PublishBatch # 0, TypeOK, CursorOrder, HiddenInPush, [Push \/ Pop]_vars
    PROVE  HiddenInPush'
<1> DEFINE hidden == Sub(producer.localWriter, producer.lastPublished)
<1>1. hidden \in Nat /\ PublishBatch \in Nat \ {0}
  BY CursorTypes, SubType, FastqAssumption
<1>2. ASSUME NEW d \in Data, PushBegin(d) PROVE HiddenInPush'
  BY <1>2 DEF HiddenInPush, PushBegin, cursors
<1>3. CASE PushLoadReader
  <2>1. hidden' = hidden
    BY <1>3 DEF PushLoadReader, TypeOK, ProducerState
  <2>2. pushPc = "load" /\ pushPc' # "publish"
    BY <1>3 DEF PushLoadReader
  <2> QED BY <2>1, <2>2 DEF HiddenInPush
<1>4. CASE PushWrite
  <2>1. Ahead(producer.lastPublished) <= Ahead(producer.localWriter)
    BY DEF CursorOrder
  <2>2. producer'.lastPublished = producer.lastPublished
    BY <1>4 DEF PushWrite, TypeOK, ProducerState
  <2>3. hidden' = hidden + 1
    BY <1>4, <2>1, <2>2, WriteAddsOne, CursorTypes
  <2>4. pushPc = "write" /\ (pushPc' = "publish" \/ ~(hidden' >= PublishBatch))
    BY <1>4, <2>2 DEF PushWrite
  <2> HIDE DEF hidden
  <2>5. hidden < PublishBatch
    BY <2>4 DEF HiddenInPush, hidden
  <2>6. IF pushPc' = "publish" THEN hidden' <= PublishBatch ELSE hidden' < PublishBatch
    BY <1>1, <2>3, <2>4, <2>5
  <2> QED BY <2>6 DEF HiddenInPush, hidden
<1>5. CASE PushPublish
  <2>1. hidden' = 0 /\ pushPc' = "idle"
    BY <1>5, CursorTypes, SubZero DEF PushPublish, PublishWriter, TypeOK, ProducerState
  <2> QED BY <1>1, <2>1 DEF HiddenInPush
<1>6. CASE Pop
  BY <1>6 DEF HiddenInPush, Pop, PopBegin, PopLoadWriter, PopRead, PopPublish, cursors,
              producerVars
<1>7. CASE UNCHANGED vars
  BY <1>7 DEF HiddenInPush, vars, cursors, producerVars
<1> QED BY <1>2, <1>3, <1>4, <1>5, <1>6, <1>7 DEF Push

LEMMA HiddenInit == PublishBatch # 0 /\ Init => HiddenInPush
  BY FastqAssumption, OneIsPosition, SubZero DEF Init, HiddenInPush

\* Steps that move neither end of the queue, and after which the consumer still
\* leaves, or the producer still owes a push, only if so before.
LEMMA SameLeft ==
    ASSUME LeftBehind, producer'.localWriter = producer.localWriter,
           consumer'.localReader = consumer.localReader,
           Leaves' => Leaves, Leaves => (OwesPush' <=> OwesPush)
    PROVE  LeftBehind'
  BY DEF LeftBehind

\* The consumer finds the queue empty: what it leaves is what the producer hides.
LEMMA FindsEmpty ==
    ASSUME PublishBatch # 0, BenchInv, HiddenInPush, PopLoadWriter, UNCHANGED benchVars,
           Leaves'
    PROVE  LeftBehind'
<1> DEFINE hidden == Sub(producer.localWriter, producer.lastPublished)
           left == Sub(producer.localWriter, consumer.localReader)
<1>1. /\ TypeOK /\ CursorOrder /\ Len(writer) = 1 /\ ThreadsAreWhere
  BY DEF BenchInv, QueueInv
<1>2. Observed(writer).val = producer.lastPublished
  BY <1>1, LocationEnds DEF TypeOK, CursorOrder, Newest
<1>3. /\ consumer'.cachedWriter = Observed(writer).val
      /\ consumer'.localReader = consumer.localReader
      /\ producer' = producer /\ pushPc' = pushPc /\ pushOk' = pushOk
      /\ popPc = "load" /\ popPc' # "idle"
      /\ popPc' = "publishEmpty" => Empty(consumer')
  BY <1>1 DEF PopLoadWriter, TypeOK, ConsumerState, producerVars
<1>4. consumerPc' = "drainPop" /\ popPc' = "publishEmpty"
  BY <1>1, <1>3 DEF Leaves, ThreadsAreWhere, benchVars
<1>5. consumer.localReader = producer.lastPublished
  BY <1>2, <1>3, <1>4 DEF Empty
<1>6. left' = hidden
  BY <1>3, <1>5
<1>7. OwesPush' => pushPc # "publish"
  BY <1>1, <1>3 DEF OwesPush, ThreadsAreWhere, benchVars
<1>8. hidden \in Nat /\ PublishBatch \in Nat
  BY <1>1, CursorTypes, SubType, FastqAssumption
<1>9. IF OwesPush' THEN hidden < PublishBatch ELSE hidden <= PublishBatch
  <2> HIDE DEF hidden
  <2>1. IF pushPc = "publish" THEN hidden <= PublishBatch ELSE hidden < PublishBatch
    BY DEF HiddenInPush, hidden
  <2> QED BY <1>7, <1>8, <2>1
<1> QED BY <1>6, <1>9 DEF LeftBehind

\* The push the producer owed fills one place.
LEMMA OwedPush ==
    ASSUME PublishBatch # 0, BenchInv, LeftBehind, PushWrite, UNCHANGED benchVars
    PROVE  LeftBehind'
<1> DEFINE left == Sub(producer.localWriter, consumer.localReader)
<1>1. TypeOK /\ CursorOrder /\ ThreadsAreWhere
  BY DEF BenchInv, QueueInv
<1>2. /\ pushPc = "write" /\ consumer' = consumer /\ popPc' = popPc /\ popOk' = popOk
      /\ pushPc' = "publish" \/ (pushPc' = "idle" /\ pushOk' = TRUE)
  BY DEF PushWrite, consumerVars
<1>3. (Leaves' <=> Leaves) /\ OwesPush /\ ~OwesPush'
  BY <1>1, <1>2 DEF Leaves, OwesPush, ThreadsAreWhere, benchVars
<1>4. left' = left + 1
  <2>1. Ahead(consumer.localReader) <= Ahead(producer.localWriter)
    <3>1. /\ Ahead(consumer.localReader) \in Nat /\ Ahead(consumer.cachedWriter) \in Nat
          /\ Ahead(consumerSees) \in Nat /\ Ahead(producer.localWriter) \in Nat
      BY <1>1, AheadTypes, CursorTypes DEF TypeOK
    <3> QED BY <1>1, <3>1 DEF CursorOrder
  <2> QED BY <1>1, <1>2, <2>1, WriteAddsOne, CursorTypes
<1>5. left \in Nat /\ PublishBatch \in Nat
  BY <1>1, CursorTypes, SubType, FastqAssumption
<1>6. Leaves => left + 1 <= PublishBatch
  BY <1>3, <1>5 DEF LeftBehind
<1> QED BY <1>3, <1>4, <1>6 DEF LeftBehind

LEMMA LeftStep ==
    ASSUME PublishBatch # 0, BenchInv, HiddenInPush, LeftBehind, [BenchNext]_allVars
    PROVE  LeftBehind'
<1>0. TypeOK /\ CursorOrder /\ BenchTypeOK /\ ThreadsAreWhere
  BY DEF BenchInv, QueueInv
<1> USE DEF ThreadsAreWhere, BenchTypeOK, vars, cursors, producerVars, consumerVars,
        benchVars, Leaves, OwesPush
<1>1. CASE Main
  BY <1>1, SameLeft DEF Main, MainStarts, MainStops, MainJoins
<1>2. CASE ProducerCalls
  BY <1>2, SameLeft DEF ProducerCalls, PushBegin
<1>3. CASE ProducerReady
  BY <1>3, SameLeft DEF ProducerReady
<1>4. CASE ProducerChecksFlag
  <2>1. Leaves => stop
    BY <1>0
  <2> QED BY <1>4, <2>1, SameLeft DEF ProducerChecksFlag
<1>5. CASE ProducerReturns
  BY <1>5, SameLeft DEF ProducerReturns
<1>6. CASE PushSteps
  <2>1. CASE PushLoadReader
    <3>1. /\ pushPc = "load" /\ pushPc' \in {"publishFull", "write"}
          /\ UNCHANGED <<consumer, popPc, popOk>>
          /\ producer'.localWriter = producer.localWriter
      BY <1>0, <2>1 DEF PushLoadReader, TypeOK, ProducerState
    <3> QED BY <1>0, <1>6, <3>1, SameLeft DEF PushSteps
  <2>2. CASE PushWrite
    BY <1>6, <2>2, OwedPush DEF PushSteps
  <2>3. CASE PushPublish
    <3>1. /\ pushPc \in {"publish", "publishFull"} /\ pushPc' = "idle"
          /\ UNCHANGED <<consumer, popPc, popOk>>
          /\ producer'.localWriter = producer.localWriter
      BY <1>0, <2>3 DEF PushPublish, PublishWriter, TypeOK, ProducerState
    <3>2. pushOk' <=> pushPc = "publish"
      BY <2>3, Zenon DEF PushPublish
    <3>3. OwesPush' <=> OwesPush
      BY <1>0, <1>6, <3>1, <3>2 DEF PushSteps
    <3>4. Leaves' => Leaves
      BY <1>6, <3>1 DEF PushSteps
    <3> QED BY <3>1, <3>3, <3>4, SameLeft
  <2> QED BY <1>6, <2>1, <2>2, <2>3 DEF PushSteps
<1>7. CASE ConsumerReady \/ ConsumerWaits \/ ConsumerReturns \/ ConsumerDrained
  BY <1>7, SameLeft DEF ConsumerReady, ConsumerWaits, ConsumerReturns, ConsumerDrained
<1>8. CASE ConsumerChecksStop
  BY <1>8, SameLeft DEF ConsumerChecksStop, PopBegin
<1>9. CASE ConsumerDrains
  BY <1>9, SameLeft DEF ConsumerDrains, PopBegin
<1>10. CASE PopSteps
  <2>1. CASE PopLoadWriter
    <3>1. CASE Leaves'
      BY <1>10, <2>1, <3>1, FindsEmpty DEF PopSteps
    <3>2. CASE ~Leaves'
      BY <3>2 DEF LeftBehind
    <3> QED BY <3>1, <3>2
  <2>2. CASE PopRead
    <3>1. ~Leaves'
      BY <1>0, <1>10, <2>2 DEF PopSteps, PopRead
    <3> QED BY <3>1 DEF LeftBehind
  <2>3. CASE PopPublish
    <3>1. /\ popPc \in {"publish", "publishEmpty"} /\ popPc' = "idle"
          /\ UNCHANGED <<producer, pushPc, pushOk>>
          /\ consumer'.localReader = consumer.localReader
      BY <1>0, <2>3 DEF PopPublish, PublishReader, TypeOK, ConsumerState
    <3>2. popOk' <=> popPc = "publish"
      BY <2>3, Zenon DEF PopPublish
    <3>3. Leaves' => Leaves
      BY <1>0, <1>10, <3>1, <3>2 DEF PopSteps
    <3>4. OwesPush' <=> OwesPush
      BY <1>10, <3>1 DEF PopSteps
    <3> QED BY <3>1, <3>3, <3>4, SameLeft
  <2> QED BY <1>10, <2>1, <2>2, <2>3 DEF PopSteps
<1>11. CASE Returned \/ UNCHANGED allVars
  BY <1>11, SameLeft DEF Returned, allVars
<1> QED BY <1>1, <1>2, <1>3, <1>4, <1>5, <1>6, <1>7, <1>8, <1>9, <1>10, <1>11
        DEF BenchNext, ProducerThread, ConsumerThread

-----------------------------------------------------------------------------
(***************************************************************************)
(* Remainders, and the sum of the first numbers.                           *)
(***************************************************************************)
LEMMA RemainderIs ==
    ASSUME NEW v \in Nat \ {0}, NEW q \in Int, NEW r \in 0 .. v - 1
    PROVE  (v * q + r) % v = r
  OBVIOUS

LEMMA Parts ==
    ASSUME NEW v \in Nat \ {0}, NEW x \in Int
    PROVE  /\ x = v * (x \div v) + (x % v)
           /\ x \div v \in Int
           /\ x % v \in 0 .. v - 1
  OBVIOUS

LEMMA MultiplesOff ==
    ASSUME NEW v \in Nat \ {0}, NEW x \in Int, NEW l \in Int
    PROVE  (x + v * l) % v = x % v
<1> DEFINE q == x \div v
           r == x % v
<1>1. x = v * q + r /\ q \in Int /\ r \in 0 .. v - 1
  BY Parts
<1> HIDE DEF q, r
<1>2. x + v * l = v * (q + l) + r /\ q + l \in Int
  BY <1>1
<1>3. (v * (q + l) + r) % v = r
  BY <1>1, <1>2, RemainderIs
<1> QED BY <1>2, <1>3 DEF r

\* A wrap at a multiple keeps the remainder.
LEMMA WrapKeepsRemainder ==
    ASSUME NEW v \in Nat \ {0}, NEW w \in Nat \ {0}, w % v = 0, NEW x \in Int
    PROVE  (x % w) % v = x % v
<1> DEFINE a == w \div v
           b == x \div w
           r == x % w
<1>1. w = v * a /\ a \in Int
  <2>1. w = v * a + (w % v) /\ a \in Int
    BY Parts
  <2> QED BY <2>1
<1>2. x = w * b + r /\ b \in Int /\ r \in Int
  BY Parts
<1> HIDE DEF a, b, r
<1>3. w * b = v * (a * b) /\ a * b \in Int
  BY <1>1, <1>2
<1>4. x = r + v * (a * b)
  BY <1>2, <1>3
<1>5. (r + v * (a * b)) % v = r % v
  BY <1>2, <1>3, MultiplesOff
<1> QED BY <1>4, <1>5 DEF r

\* The remainder of a sum is that of the sum of the remainders.
LEMMA SumOfRemainders ==
    ASSUME NEW v \in Nat \ {0}, NEW x \in Int, NEW y \in Int
    PROVE  (x + y) % v = ((x % v) + (y % v)) % v
<1> DEFINE p == x \div v
           q == y \div v
           r == x % v
           s == y % v
<1>1. /\ x = v * p + r /\ p \in Int /\ r \in Int
      /\ y = v * q + s /\ q \in Int /\ s \in Int
  BY Parts
<1> HIDE DEF p, q, r, s
<1>2. x + y = (r + s) + v * (p + q) /\ p + q \in Int /\ r + s \in Int
  BY <1>1
<1>3. ((r + s) + v * (p + q)) % v = (r + s) % v
  BY <1>2, MultiplesOff
<1> QED BY <1>2, <1>3 DEF r, s

LEMMA NextRemainder ==
    ASSUME NEW v \in Nat \ {0}, NEW x \in Int
    PROVE  (x + 1) % v = ((x % v) + 1) % v
<1> DEFINE q == x \div v
           r == x % v
<1>1. x = v * q + r /\ q \in Int /\ r \in Int
  BY Parts
<1> HIDE DEF q, r
<1>2. x + 1 = (r + 1) + v * q /\ r + 1 \in Int
  BY <1>1
<1>3. ((r + 1) + v * q) % v = (r + 1) % v
  BY <1>1, <1>2, MultiplesOff
<1> QED BY <1>2, <1>3 DEF r

\* The increment of a wrapping cursor is an increment up to multiples of V.
LEMMA IncrementRemainder ==
    ASSUME NEW V \in Nat \ {0}, Modulus % V = 0, NEW p \in Position
    PROVE  Add(p, 1) % V = (p + 1) % V
<1> DEFINE x == p + 1
<1>1. x \in Int /\ Modulus \in Nat \ {0}
  BY SizeTAssumption DEF Position
<1> HIDE DEF x
<1>2. (x % Modulus) % V = x % V
  BY <1>1, WrapKeepsRemainder
<1> QED BY <1>2 DEF Add, x

LEMMA TriangleIs ==
    ASSUME NEW k \in Int
    PROVE  Triangle(k) \in Int /\ 2 * Triangle(k) = k * (k - 1)
<1> DEFINE q == k \div 2
<1>1. q \in Int /\ (k = 2 * q \/ k = 2 * q + 1)
  OBVIOUS
<1> HIDE DEF q
<1>2. \E h \in Int : k * (k - 1) = 2 * h
  <2>1. CASE k = 2 * q
    <3>1. q * (k - 1) \in Int /\ k * (k - 1) = 2 * (q * (k - 1))
      BY <1>1, <2>1
    <3> QED BY <3>1
  <2>2. CASE k = 2 * q + 1
    <3>1. k * q \in Int /\ k - 1 = 2 * q
      BY <1>1, <2>2
    <3>2. k * (k - 1) = 2 * (k * q)
      BY <1>1, <3>1
    <3> QED BY <3>1, <3>2
  <2> QED BY <1>1, <2>1, <2>2
<1>3. PICK h \in Int : k * (k - 1) = 2 * h
  BY <1>2
<1>4. (2 * h) \div 2 = h
  OBVIOUS
<1> QED BY <1>3, <1>4 DEF Triangle

LEMMA TriangleNext ==
    ASSUME NEW k \in Int
    PROVE  Triangle(k + 1) = Triangle(k) + k
<1>1. /\ Triangle(k) \in Int /\ 2 * Triangle(k) = k * (k - 1)
      /\ Triangle(k + 1) \in Int /\ 2 * Triangle(k + 1) = (k + 1) * k
  <2>1. k + 1 \in Int /\ (k + 1) - 1 = k
    OBVIOUS
  <2> QED BY <2>1, TriangleIs
<1>2. (k + 1) * k = k * (k - 1) + 2 * k
  OBVIOUS
<1> QED BY <1>1, <1>2

\* The sum goes on across the wrap of the cursor, if the cursor wraps at an even
\* multiple.
LEMMA TriangleWraps ==
    ASSUME NEW V \in Nat \ {0}, Modulus % (2 * V) = 0, NEW p \in Position
    PROVE  Triangle(Add(p, 1)) % V = (Triangle(p) + p) % V
<1>1. Triangle(p + 1) = Triangle(p) + p /\ p \in Int
  BY TriangleNext DEF Position
<1>2. CASE p + 1 < Modulus
  <2>1. Add(p, 1) = p + 1
    BY <1>2, AddCases, OneIsPosition
  <2> QED BY <1>1, <2>1
<1>3. CASE ~(p + 1 < Modulus)
  <2>1. p + 1 = Modulus /\ Add(p, 1) = 0 /\ Modulus \in Nat
    BY <1>3, AddCases, OneIsPosition, SizeTAssumption DEF Position
  <2>2. Triangle(0) = 0
    BY DEF Triangle
  <2> DEFINE c == Modulus \div (2 * V)
  <2>3. Modulus = (2 * V) * c /\ c \in Int
    <3>1. 2 * V \in Nat \ {0} /\ Modulus \in Int
      BY SizeTAssumption
    <3>2. Modulus = (2 * V) * c + (Modulus % (2 * V)) /\ c \in Int
      BY <3>1, Parts
    <3>3. (2 * V) * c \in Int
      BY <3>1, <3>2
    <3> QED BY <3>2, <3>3
  <2> HIDE DEF c
  <2>4. Triangle(Modulus) \in Int /\ 2 * Triangle(Modulus) = Modulus * (Modulus - 1)
    BY <2>1, TriangleIs
  <2> DEFINE d == c * (Modulus - 1)
  <2>5. d \in Int /\ Modulus * (Modulus - 1) = 2 * (V * d)
    BY <2>1, <2>3
  <2> HIDE DEF d
  <2>6. Triangle(Modulus) = V * d
    BY <2>4, <2>5
  <2>7. 0 \in 0 .. V - 1 /\ 0 % V = 0
    OBVIOUS
  <2>8. (V * d + 0) % V = 0
    BY <2>5, <2>7, RemainderIs
  <2>9. V * d \in Int
    BY <2>5
  <2>10. (V * d) % V = 0
    BY <2>8, <2>9
  <2> QED BY <1>1, <2>1, <2>2, <2>6, <2>7, <2>10
<1> QED BY <1>2, <1>3

\* One position back and forth.
LEMMA BackOne ==
    ASSUME NEW p \in Position
    PROVE  /\ Sub(p, 1) \in Position
           /\ Add(Sub(p, 1), 1) = p
           /\ Sub(Add(p, 1), 1) = p
<1>1. Sub(p, 1) \in Position /\ Sub(p, 1) = IF 1 <= p THEN p - 1 ELSE p - 1 + Modulus
  BY SubCases, SubType, OneIsPosition
<1>2. Add(p, 1) \in Position /\ Add(p, 1) = IF p + 1 < Modulus THEN p + 1 ELSE p + 1 - Modulus
  BY AddCases, AddType, OneIsPosition
<1>3. Add(Sub(p, 1), 1) = IF Sub(p, 1) + 1 < Modulus THEN Sub(p, 1) + 1
                          ELSE Sub(p, 1) + 1 - Modulus
  BY <1>1, AddCases, OneIsPosition
<1>4. Sub(Add(p, 1), 1) = IF 1 <= Add(p, 1) THEN Add(p, 1) - 1
                          ELSE Add(p, 1) - 1 + Modulus
  BY <1>2, SubCases, OneIsPosition
<1> QED BY <1>1, <1>2, <1>3, <1>4, SizeTAssumption DEF Position

-----------------------------------------------------------------------------
(***************************************************************************)
(* The numbers inside.                                                     *)
(***************************************************************************)
QueueStays ==
    /\ Items' = Items /\ out' = out
    /\ producer'.localWriter = producer.localWriter
    /\ consumer'.localReader = consumer.localReader

\* Only a write and a read move items.
LEMMA OthersKeepItems ==
    ASSUME TypeOK, ~PushWrite, ~PopRead, [Push \/ Pop]_vars
    PROVE  QueueStays
<1>1. ASSUME UNCHANGED <<buffer, out>>,
             producer'.localWriter = producer.localWriter,
             consumer'.localReader = consumer.localReader
      PROVE  QueueStays
  BY <1>1 DEF QueueStays, Items
<1> USE DEF cursors, producerVars, consumerVars
<1>2. ASSUME NEW d \in Data, PushBegin(d) PROVE QueueStays
  BY <1>1, <1>2 DEF PushBegin
<1>3. CASE PushLoadReader
  BY <1>1, <1>3 DEF PushLoadReader, TypeOK, ProducerState
<1>4. CASE PushPublish
  BY <1>1, <1>4 DEF PushPublish, PublishWriter, TypeOK, ProducerState
<1>5. CASE PopBegin
  BY <1>1, <1>5 DEF PopBegin
<1>6. CASE PopLoadWriter
  BY <1>1, <1>6 DEF PopLoadWriter, TypeOK, ConsumerState
<1>7. CASE PopPublish
  BY <1>1, <1>7 DEF PopPublish, PublishReader, TypeOK, ConsumerState
<1>8. CASE UNCHANGED vars
  BY <1>1, <1>8 DEF vars
<1> QED BY <1>2, <1>3, <1>4, <1>5, <1>6, <1>7, <1>8 DEF Push, Pop

LEMMA SameNumbers ==
    ASSUME ItemsAreNumbered, QueueStays, Pushed' = Pushed, Delivered' => Delivered
    PROVE  ItemsAreNumbered'
  BY DEF ItemsAreNumbered, QueueStays, Popped

\* A write appends the payload under which the producer will count it.
LEMMA WriteNumbers ==
    ASSUME Modulus % Width = 0, BenchInv, ItemsAreNumbered, TypeOK', CursorOrder',
           PushWrite, UNCHANGED benchVars
    PROVE  ItemsAreNumbered'
<1> DEFINE lw == producer.localWriter
           lr == consumer.localReader
           n == Sub(lw, lr)
<1>1. /\ TypeOK /\ CursorOrder /\ BenchTypeOK /\ ThreadsAreWhere
      /\ lw \in Position /\ lr \in Position
  BY CursorTypes DEF BenchInv, QueueInv
<1>2. /\ pushPc = "write" /\ consumer' = consumer /\ popPc' = popPc /\ popOk' = popOk
      /\ pushPc' = "publish" \/ (pushPc' = "idle" /\ pushOk' = TRUE)
      /\ out' = out /\ producer'.localWriter = Add(lw, 1)
  BY <1>1 DEF PushWrite, consumerVars, TypeOK, ProducerState
<1>3. producerPc = "push" /\ item = payload
  BY <1>1, <1>2 DEF ThreadsAreWhere
<1>4. Pushed = payload /\ Pushed' = (payload + 1) % Width
  BY <1>2, <1>3 DEF Pushed, Accepted, benchVars
<1>5. producer'.localWriter % Width = Pushed'
  <2>1. lw % Width = payload
    BY <1>4 DEF ItemsAreNumbered
  <2>2. Add(lw, 1) % Width = (lw + 1) % Width
    BY <1>1, IncrementRemainder, BenchmarkAssumption
  <2>3. (lw + 1) % Width = (payload + 1) % Width
    <3>1. lw \in Int /\ Width \in Nat \ {0}
      BY <1>1, BenchmarkAssumption DEF Position
    <3> QED BY <2>1, <3>1, NextRemainder
  <2> QED BY <1>2, <1>4, <2>2, <2>3
<1>6. /\ Items \in Seq(Values) /\ Len(Items) = n /\ n \in Nat
      /\ Items' = Append(Items, payload)
  <2>1. Items' = Append(Items, item)
    BY <1>1, WriteEnqueues DEF Fifo!Enqueue
  <2> QED BY <1>1, <1>3, <2>1, ItemsShapeHolds, SizeTAssumption DEF ItemsShape
<1>7. ASSUME NEW k \in 1 .. Len(Items') PROVE Items'[k] = Add(consumer'.localReader, k - 1) % Width
  <2>1. k \in 1 .. n + 1
    BY <1>6
  <2>2. CASE k = n + 1
    <3>1. Items'[k] = payload
      BY <1>6, <2>2
    <3>2. Add(lr, k - 1) = lw
      BY <1>1, <1>6, <2>2, AddSub
    <3>3. lw % Width = payload
      BY <1>4 DEF ItemsAreNumbered
    <3> QED BY <1>2, <3>1, <3>2, <3>3
  <2>3. CASE k \in 1 .. n
    <3>1. Items'[k] = Items[k]
      BY <1>6, <2>3
    <3> QED BY <1>2, <1>6, <2>3, <3>1 DEF ItemsAreNumbered
  <2> QED BY <1>6, <2>1, <2>2, <2>3
<1>8. Delivered' => out' = Popped' % Width
  BY <1>2 DEF ItemsAreNumbered, Delivered, Popped, benchVars
<1> QED BY <1>5, <1>7, <1>8 DEF ItemsAreNumbered

\* A read takes the number the consumer has reached.
LEMMA ReadNumbers ==
    ASSUME BenchInv, ItemsAreNumbered, TypeOK', CursorOrder', PopRead, UNCHANGED benchVars
    PROVE  /\ ItemsAreNumbered'
           /\ Popped' = Popped
<1> DEFINE lw == producer.localWriter
           lr == consumer.localReader
           n == Sub(lw, lr)
<1>1. /\ TypeOK /\ CursorOrder /\ BenchTypeOK /\ ThreadsAreWhere
      /\ lw \in Position /\ lr \in Position
  BY CursorTypes DEF BenchInv, QueueInv
<1>2. /\ popPc = "read" /\ producer' = producer /\ pushPc' = pushPc /\ pushOk' = pushOk
      /\ popPc' = "publish" \/ (popPc' = "idle" /\ popOk' = TRUE)
      /\ consumer'.localReader = Add(lr, 1)
  BY <1>1 DEF PopRead, producerVars, TypeOK, ConsumerState
<1>3. consumerPc \in {"pop", "drainPop"}
  BY <1>1, <1>2 DEF ThreadsAreWhere
<1>4. Popped = lr /\ Popped' = lr /\ Delivered'
  <2>1. Sub(Add(lr, 1), 1) = lr
    BY <1>1, BackOne
  <2> QED BY <1>2, <1>3, <2>1 DEF Popped, Delivered, benchVars
<1>5. /\ Items # <<>> /\ out' = Head(Items) /\ Items' = Tail(Items)
      /\ Items \in Seq(Values) /\ Len(Items) = n /\ n \in 0 .. Capacity
  BY <1>1, ReadDequeues, ItemsShapeHolds DEF Fifo!Dequeue, ItemsShape
<1>6. n >= 1 /\ Len(Items') = n - 1 /\ n \in Nat /\ n <= Capacity
  BY <1>5, SizeTAssumption
<1>7. out' = Popped' % Width
  <2>1. Items[1] = Add(lr, 0) % Width
    BY <1>5, <1>6 DEF ItemsAreNumbered
  <2>2. Add(lr, 0) = lr
    BY <1>1, AddCases, OneIsPosition, SizeTAssumption DEF Position
  <2> QED BY <1>4, <1>5, <1>6, <2>1, <2>2
<1>8. ASSUME NEW k \in 1 .. Len(Items') PROVE Items'[k] = Add(consumer'.localReader, k - 1) % Width
  <2>1. k \in 1 .. n - 1 /\ k - 1 \in Position /\ k \in Position
    BY <1>6, SizeTAssumption DEF Position
  <2>2. Items'[k] = Items[k + 1]
    BY <1>5, <1>6, <2>1
  <2>3. Items[k + 1] = Add(lr, k) % Width
    BY <1>5, <1>6, <2>1 DEF ItemsAreNumbered
  <2>4. Add(Add(lr, 1), k - 1) = Add(lr, k)
    <3>1. (k - 1) + 1 = k
      BY <2>1
    <3> QED BY <1>1, <2>1, <3>1, AddIncrement
  <2> QED BY <1>2, <2>2, <2>3, <2>4
<1>9. producer'.localWriter % Width = Pushed'
  BY <1>2 DEF ItemsAreNumbered, Pushed, Accepted, benchVars
<1> QED BY <1>4, <1>7, <1>8, <1>9 DEF ItemsAreNumbered

\* Before stop the consumer counts the items as well.
Early == consumerPc \in {"pin", "waitStart", "checkStop", "pop"}

\* What a step does to the sums: nothing, or it adds the item popped last.
CountedStep ==
    \/ /\ Popped' = Popped /\ localSum' = localSum /\ localOps' = localOps
       /\ Early' => Early
    \/ /\ Delivered
       /\ Popped' = Add(Popped, 1)
       /\ localSum' = (localSum + out) % Width
       /\ Early' => Early /\ localOps' = (localOps + 1) % Width

\* A step that leaves the consumer's place in its call, and the queue, alone.
LEMMA ConsumerStays ==
    ASSUME consumer'.localReader = consumer.localReader,
           UNCHANGED <<popPc, popOk, consumerPc, localSum, localOps>>
    PROVE  CountedStep /\ (Delivered' <=> Delivered)
  BY DEF CountedStep, Popped, Delivered, Early

LEMMA NumbersStep ==
    ASSUME Modulus % Width = 0, BenchInv, ItemsAreNumbered, QueueInv', [BenchNext]_allVars
    PROVE  ItemsAreNumbered' /\ CountedStep
<1>0. /\ TypeOK /\ CursorOrder /\ BenchTypeOK /\ ThreadsAreWhere
      /\ TypeOK' /\ CursorOrder' /\ [Push \/ Pop]_vars
  BY BenchStepKinds DEF BenchInv, QueueInv
<1>1. ~PushWrite /\ ~PopRead => QueueStays
  BY <1>0, OthersKeepItems
<1> USE DEF vars, cursors, producerVars, consumerVars, benchVars
<1>2. CASE Main \/ Returned \/ UNCHANGED allVars
  <2>1. UNCHANGED vars /\ UNCHANGED <<payload, localSum, localOps, producerPc, consumerPc>>
    BY <1>2 DEF Main, MainStarts, MainStops, MainJoins, Returned, allVars
  <2>2. ItemsAreNumbered'
    BY <2>1 DEF ItemsAreNumbered, Items, Pushed, Popped, Accepted, Delivered
  <2> QED BY <2>1, <2>2, ConsumerStays
<1>3. CASE ProducerReady \/ ProducerChecksFlag \/ ProducerReturns
  <2>1. UNCHANGED vars /\ UNCHANGED <<localSum, localOps, consumerPc>> /\ Pushed' = Pushed
    BY <1>0, <1>3 DEF ProducerReady, ProducerChecksFlag, ProducerReturns, Pushed, Accepted,
                      ThreadsAreWhere
  <2>2. QueueStays /\ CountedStep /\ (Delivered' <=> Delivered)
    BY <2>1, ConsumerStays DEF QueueStays, Items
  <2> QED BY <2>1, <2>2, SameNumbers
<1>4. CASE ProducerCalls
  <2>1. /\ QueueStays /\ Pushed' = Pushed
        /\ UNCHANGED <<consumer, popPc, popOk, consumerPc, localSum, localOps>>
    BY <1>1, <1>4 DEF ProducerCalls, PushBegin, PushWrite, PopRead, Pushed, Accepted
  <2> QED BY <2>1, ConsumerStays, SameNumbers
<1>5. CASE PushSteps
  <2>1. CASE PushWrite
    <3>1. ItemsAreNumbered'
      BY <1>0, <1>5, <2>1, WriteNumbers DEF PushSteps
    <3>2. UNCHANGED <<consumer, popPc, popOk, consumerPc, localSum, localOps>>
      BY <1>5, <2>1 DEF PushSteps, PushWrite
    <3> QED BY <3>1, <3>2, ConsumerStays
  <2>2. CASE PushLoadReader
    <3>1. /\ QueueStays /\ Pushed' = Pushed
          /\ UNCHANGED <<consumer, popPc, popOk, consumerPc, localSum, localOps>>
      BY <1>1, <1>5, <2>2 DEF PushSteps, PushLoadReader, PushWrite, PopRead, Pushed, Accepted
    <3> QED BY <3>1, ConsumerStays, SameNumbers
  <2>3. CASE PushPublish
    <3>1. /\ QueueStays /\ pushPc \in {"publish", "publishFull"} /\ pushPc' = "idle"
          /\ UNCHANGED <<consumer, popPc, popOk, consumerPc, localSum, localOps>>
      BY <1>1, <1>5, <2>3 DEF PushSteps, PushPublish, PushWrite, PopRead
    <3>2. pushOk' <=> pushPc = "publish"
      BY <2>3, Zenon DEF PushPublish
    <3>3. Pushed' = Pushed
      BY <1>5, <3>1, <3>2 DEF PushSteps, Pushed, Accepted
    <3> QED BY <3>1, <3>3, ConsumerStays, SameNumbers
  <2> QED BY <1>5, <2>1, <2>2, <2>3 DEF PushSteps
<1>6. CASE ConsumerReady \/ ConsumerWaits
  <2>1. /\ UNCHANGED vars /\ UNCHANGED <<payload, localSum, localOps, producerPc>>
        /\ ~Delivered /\ ~Delivered' /\ (Early' => Early)
    BY <1>6 DEF ConsumerReady, ConsumerWaits, Delivered, Early
  <2>2. QueueStays /\ Pushed' = Pushed /\ CountedStep
    BY <2>1 DEF QueueStays, Items, Pushed, Accepted, CountedStep, Popped
  <2> QED BY <2>1, <2>2, SameNumbers
<1>7. CASE ConsumerChecksStop \/ ConsumerDrains
  <2>1. /\ QueueStays /\ UNCHANGED <<payload, localSum, localOps, producerPc, pushPc, pushOk>>
        /\ (Early' => Early)
    BY <1>1, <1>7 DEF ConsumerChecksStop, ConsumerDrains, PopBegin, PushWrite, PopRead, Early,
                      QueueStays, Items
  <2>2. ~Delivered /\ ~Delivered'
    BY <1>7 DEF ConsumerChecksStop, ConsumerDrains, PopBegin, Delivered
  <2>3. Pushed' = Pushed /\ CountedStep
    BY <2>1, <2>2 DEF QueueStays, Pushed, Accepted, CountedStep, Popped
  <2> QED BY <2>1, <2>2, <2>3, SameNumbers
<1>8. CASE ConsumerReturns \/ ConsumerDrained
  <2>1. /\ UNCHANGED vars /\ UNCHANGED <<payload, producerPc>> /\ ~Delivered'
        /\ consumerPc \in {"pop", "drainPop"} /\ popPc = "idle"
        /\ Early' => Early
    BY <1>8 DEF ConsumerReturns, ConsumerDrained, Delivered, Early
  <2>2. QueueStays /\ Pushed' = Pushed
    BY <2>1 DEF QueueStays, Items, Pushed, Accepted
  <2>3. CASE popOk
    <3>1. Delivered /\ Popped = Sub(consumer.localReader, 1) /\ Popped' = consumer.localReader
      BY <2>1, <2>3 DEF Delivered, Popped
    <3>2. Popped' = Add(Popped, 1)
      BY <1>0, <3>1, BackOne, CursorTypes
    <3>3. /\ localSum' = (localSum + out) % Width
          /\ Early' => localOps' = (localOps + 1) % Width
      BY <1>8, <2>3 DEF ConsumerReturns, ConsumerDrained, Early
    <3> QED BY <2>1, <2>2, <3>1, <3>2, <3>3, SameNumbers DEF CountedStep
  <2>4. CASE ~popOk
    <3>1. ~Delivered /\ localSum' = localSum /\ localOps' = localOps
      BY <1>8, <2>1, <2>4 DEF ConsumerReturns, ConsumerDrained, Delivered
    <3>2. Popped' = Popped
      BY <2>1, <3>1 DEF Popped
    <3> QED BY <2>1, <2>2, <3>1, <3>2, SameNumbers DEF CountedStep
  <2> QED BY <2>3, <2>4
<1>9. CASE PopSteps
  <2>1. UNCHANGED <<payload, localSum, localOps, producerPc, consumerPc>> /\ (Early' => Early)
    BY <1>9 DEF PopSteps, Early
  <2>2. CASE PopRead
    BY <1>0, <1>9, <2>1, <2>2, ReadNumbers DEF PopSteps, CountedStep
  <2>3. CASE PopLoadWriter
    <3>1. /\ QueueStays /\ UNCHANGED <<pushPc, pushOk>> /\ ~Delivered /\ ~Delivered'
      BY <1>1, <2>3 DEF PopLoadWriter, PushWrite, PopRead, Delivered
    <3>2. Pushed' = Pushed /\ CountedStep
      BY <2>1, <3>1 DEF QueueStays, Pushed, Accepted, CountedStep, Popped
    <3> QED BY <3>1, <3>2, SameNumbers
  <2>4. CASE PopPublish
    <3>1. /\ QueueStays /\ UNCHANGED <<pushPc, pushOk>>
          /\ popPc \in {"publish", "publishEmpty"} /\ popPc' = "idle"
      BY <1>1, <2>4 DEF PopPublish, PushWrite, PopRead
    <3>2. popOk' <=> popPc = "publish"
      BY <2>4, Zenon DEF PopPublish
    <3>3. Delivered' <=> Delivered
      BY <2>1, <3>1, <3>2 DEF Delivered
    <3>4. Pushed' = Pushed /\ CountedStep
      BY <2>1, <3>1, <3>3 DEF QueueStays, Pushed, Accepted, CountedStep, Popped
    <3> QED BY <3>1, <3>3, <3>4, SameNumbers
  <2> QED BY <1>9, <2>2, <2>3, <2>4 DEF PopSteps
<1> QED BY <1>2, <1>3, <1>4, <1>5, <1>6, <1>7, <1>8, <1>9
        DEF BenchNext, ProducerThread, ConsumerThread

LEMMA PoppedIsPosition == TypeOK => Popped \in Position
  BY CursorTypes, BackOne DEF Popped

LEMMA OpsStep ==
    ASSUME Modulus % Width = 0, TypeOK, ItemsAreNumbered, OpsAreCounted, CountedStep
    PROVE  OpsAreCounted'
<1>1. Popped \in Position /\ Width \in Nat \ {0}
  BY PoppedIsPosition, BenchmarkAssumption
<1>2. ASSUME Popped' = Popped, localOps' = localOps, Early' => Early PROVE OpsAreCounted'
  BY <1>2 DEF OpsAreCounted, Early
<1>3. ASSUME Popped' = Add(Popped, 1), Early' => Early /\ localOps' = (localOps + 1) % Width
      PROVE  OpsAreCounted'
  <2>1. Add(Popped, 1) % Width = (Popped + 1) % Width
    BY <1>1, IncrementRemainder
  <2>2. (Popped + 1) % Width = ((Popped % Width) + 1) % Width
    BY <1>1, NextRemainder DEF Position
  <2> QED BY <1>3, <2>1, <2>2 DEF OpsAreCounted, Early
<1> QED BY <1>2, <1>3 DEF CountedStep

LEMMA SumStep ==
    ASSUME NEW V \in Nat \ {0}, Modulus % (2 * V) = 0, Width % V = 0,
           TypeOK, BenchTypeOK, ItemsAreNumbered, SumAgrees(V), CountedStep
    PROVE  SumAgrees(V)'
<1>1. ASSUME Popped' = Popped, localSum' = localSum PROVE SumAgrees(V)'
  BY <1>1 DEF SumAgrees
<1>2. ASSUME Delivered, Popped' = Add(Popped, 1), localSum' = (localSum + out) % Width
      PROVE  SumAgrees(V)'
  <2> DEFINE p == Popped
             s == localSum
             o == out
             t == Triangle(p)
  <2>1. p \in Position /\ p \in Int /\ s \in Int /\ o \in Int /\ Width \in Nat \ {0}
    BY <1>2, PoppedIsPosition, BenchmarkAssumption
       DEF Position, BenchTypeOK, Payloads, ItemsAreNumbered
  <2>2. t \in Int
    BY <2>1, TriangleIs
  <2>3. o = p % Width
    BY <1>2 DEF ItemsAreNumbered
  <2>4. s % V = t % V
    BY DEF SumAgrees
  <2>5. Triangle(Add(p, 1)) % V = (t + p) % V
    BY <2>1, TriangleWraps
  <2> HIDE DEF p, s, o, t
  <2>6. ((s + o) % Width) % V = (s + o) % V
    <3> DEFINE x == s + o
    <3>1. x \in Int
      BY <2>1
    <3> HIDE DEF x
    <3>2. (x % Width) % V = x % V
      BY <2>1, <3>1, WrapKeepsRemainder
    <3> QED BY <3>2 DEF x
  <2>7. o % V = p % V
    <3>1. (p % Width) % V = p % V
      BY <2>1, WrapKeepsRemainder
    <3> QED BY <2>3, <3>1
  <2>8. (s + o) % V = ((s % V) + (o % V)) % V
    BY <2>1, SumOfRemainders
  <2>9. (t + p) % V = ((t % V) + (p % V)) % V
    BY <2>1, <2>2, SumOfRemainders
  <2>10. ((s + o) % Width) % V = Triangle(Add(p, 1)) % V
    BY <2>4, <2>5, <2>6, <2>7, <2>8, <2>9
  <2> QED BY <1>2, <2>10 DEF SumAgrees, p, s, o
<1> QED BY <1>1, <1>2 DEF CountedStep

-----------------------------------------------------------------------------
(***************************************************************************)
(* The theorems.                                                           *)
(***************************************************************************)
LEMMA BenchInitInv == BenchInit => BenchInv /\ ItemsAreNumbered /\ OpsAreCounted
<1> SUFFICES ASSUME BenchInit PROVE BenchInv /\ ItemsAreNumbered /\ OpsAreCounted
  OBVIOUS
<1>1. QueueInv
  BY InitTypeOK, InitCursorOrder DEF BenchInit, QueueInv, Init
<1>2. BenchTypeOK /\ ThreadsAreWhere
  <2>1. 0 \in Payloads
    BY BenchmarkAssumption DEF Payloads
  <2>2. BenchTypeOK
    BY <2>1 DEF BenchInit, BenchTypeOK
  <2>3. ThreadsAreWhere
    BY DEF BenchInit, Init, ThreadsAreWhere
  <2> QED BY <2>2, <2>3
<1>3. Popped = 0 /\ Pushed = 0 /\ ~Delivered /\ 0 % Width = 0
  BY BenchmarkAssumption DEF BenchInit, Init, Popped, Pushed, Delivered, Accepted
<1>4. Len(Items) = 0
  BY <1>1, ItemsShapeHolds, OneIsPosition, SubZero
     DEF QueueInv, ItemsShape, BenchInit, Init
<1>5. ItemsAreNumbered
  BY <1>3, <1>4 DEF ItemsAreNumbered, BenchInit, Init
<1>6. OpsAreCounted
  BY <1>3 DEF OpsAreCounted, BenchInit
<1> QED BY <1>1, <1>2, <1>5, <1>6 DEF BenchInv

CountInv == BenchInv /\ ItemsAreNumbered /\ OpsAreCounted

LEMMA CountStepInv ==
    ASSUME Modulus % Width = 0, CountInv, [BenchNext]_allVars
    PROVE  CountInv' /\ CountedStep
<1>1. TypeOK /\ BenchInv /\ QueueInv /\ BenchTypeOK /\ ThreadsAreWhere
  BY DEF CountInv, BenchInv, QueueInv
<1>2. QueueInv'
  BY <1>1, QueueStepInv
<1>3. DeliveredIsNumber
  <2>1. Popped \in Nat /\ Width \in Nat \ {0}
    BY <1>1, PoppedIsPosition, BenchmarkAssumption DEF Position
  <2> QED BY <2>1 DEF DeliveredIsNumber, CountInv, ItemsAreNumbered
<1>4. BenchTypeOK' /\ ThreadsAreWhere'
  BY <1>1, <1>3, BenchTypeStep, PlacesStep
<1>5. ItemsAreNumbered' /\ CountedStep
  BY <1>1, <1>2, NumbersStep DEF CountInv
<1>6. OpsAreCounted'
  BY <1>1, <1>5, OpsStep DEF CountInv
<1> QED BY <1>2, <1>4, <1>5, <1>6 DEF CountInv, BenchInv

LEMMA SumInit ==
    ASSUME NEW V \in Nat \ {0}, BenchInit
    PROVE  SumAgrees(V)
<1>1. localSum = 0 /\ Popped = 0
  BY DEF BenchInit, Init, Popped, Delivered
<1>2. Triangle(0) = 0
  BY DEF Triangle
<1> QED BY <1>1, <1>2 DEF SumAgrees

LEMMA SumKept ==
    ASSUME NEW V \in Nat \ {0}, Modulus % (2 * V) = 0, Width % V = 0, Modulus % Width = 0,
           CountInv, SumAgrees(V), [BenchNext]_allVars
    PROVE  SumAgrees(V)'
  BY CountStepInv, SumStep DEF CountInv, BenchInv, QueueInv

\* The inductive invariant of the benchmark: each item is popped in its turn, as
\* the payload of its position, and counted once, whichever pushes failed and were
\* tried again (benchmark_spsc.cpp:92-105, 118-123).  It asks that std::size_t wrap
\* at a multiple of where the payloads wrap, as it does.
THEOREM CountInvariant ==
    ASSUME Modulus % Width = 0
    PROVE  BenchSpec => []CountInv
<1>1. BenchInit => CountInv
  BY BenchInitInv DEF CountInv
<1>2. CountInv /\ [BenchNext]_allVars => CountInv'
  BY CountStepInv
<1> QED BY <1>1, <1>2, PTL DEF BenchSpec

\* The sum the consumer computes is the sum of 0, 1, ..., k - 1 for the k items
\* popped, up to multiples of V, for any V with 2 * V dividing Modulus.  For 64-bit
\* payloads and cursors V is half the range of std::uint64_t, also when the cursors
\* have wrapped (benchmark_spsc.cpp:92-105).
THEOREM SumInvariant ==
    ASSUME NEW CONSTANT V \in Nat \ {0}, Modulus % (2 * V) = 0, Width % V = 0,
           Modulus % Width = 0
    PROVE  BenchSpec => []SumAgrees(V)
<1>1. BenchInit => SumAgrees(V)
  BY SumInit
<1>2. CountInv /\ SumAgrees(V) /\ [BenchNext]_allVars => SumAgrees(V)'
  BY SumKept
<1> QED BY <1>1, <1>2, CountInvariant, PTL DEF BenchSpec

\* What the benchmark returns is right, sum and count, for any payloads, capacity
\* and batch, if 2 * Width divides Modulus (benchmark_spsc.cpp:92-105, 118-123).
THEOREM CountsWhatWasPoppedInvariant ==
    ASSUME Modulus % (2 * Width) = 0
    PROVE  BenchSpec => []CountsWhatWasPopped
<1>0. Width \in Nat \ {0} /\ Width % Width = 0 /\ Modulus % Width = 0
  <2>1. Width \in Nat \ {0} /\ Modulus \in Int /\ 2 * Width \in Nat \ {0}
    BY BenchmarkAssumption, SizeTAssumption
  <2> DEFINE c == Modulus \div (2 * Width)
  <2>2. Modulus = (2 * Width) * c + (Modulus % (2 * Width)) /\ c \in Int
    BY <2>1, Parts
  <2> HIDE DEF c
  <2>3. Modulus = Width * (2 * c) + 0 /\ 2 * c \in Int /\ 0 \in 0 .. Width - 1
    BY <2>1, <2>2
  <2>4. Modulus % Width = 0
    BY <2>1, <2>3, RemainderIs
  <2>5. Width = Width * 1 + 0
    BY <2>1
  <2>6. Width % Width = 0
    BY <2>1, <2>3, <2>5, RemainderIs
  <2> QED BY <2>1, <2>4, <2>6
<1>1. CountInv /\ SumAgrees(Width) => CountsWhatWasPopped
  <2> SUFFICES ASSUME CountInv, SumAgrees(Width), consumerPc \notin {"pop", "drainPop"}
               PROVE  LET k == consumer.localReader
                      IN  /\ localSum = ((k * (k - 1)) \div 2) % Width
                          /\ consumerPc = "checkStop" => localOps = k % Width
    BY DEF CountsWhatWasPopped
  <2>1. Popped = consumer.localReader
    BY DEF Popped, Delivered
  <2>2. localSum % Width = localSum
    BY <1>0 DEF CountInv, BenchInv, BenchTypeOK, Payloads
  <2> QED BY <2>1, <2>2 DEF SumAgrees, Triangle, CountInv, OpsAreCounted
<1>2. BenchSpec => []CountInv
  BY <1>0, CountInvariant
<1>3. BenchInit => SumAgrees(Width)
  BY <1>0, SumInit
<1>4. CountInv /\ SumAgrees(Width) /\ [BenchNext]_allVars => SumAgrees(Width)'
  BY <1>0, SumKept
<1> QED BY <1>1, <1>2, <1>3, <1>4, PTL DEF BenchSpec

\* The drain leaves at most one batch behind, for any capacity and any batch but
\* zero, with which a push under way can leave its item (benchmark_spsc.cpp:100-102).
THEOREM LeavesAtMostABatchInvariant ==
    ASSUME PublishBatch # 0, Modulus % Width = 0
    PROVE  BenchSpec => []LeavesAtMostABatch
<1>1. BenchInit => HiddenInPush /\ LeftBehind
  BY HiddenInit DEF BenchInit, LeftBehind, Leaves
<1>2. CountInv /\ HiddenInPush /\ LeftBehind /\ [BenchNext]_allVars
          => HiddenInPush' /\ LeftBehind'
  BY BenchStepKinds, HiddenStep, LeftStep DEF CountInv, BenchInv, QueueInv
<1>3. CountInv /\ LeftBehind => LeavesAtMostABatch
  <2> SUFFICES ASSUME CountInv, LeftBehind, mainPc = "return"
               PROVE  Sub(producer.localWriter, consumer.localReader) <= PublishBatch
    BY DEF LeavesAtMostABatch
  <2>1. producerPc = "end" /\ consumerPc = "end"
    BY DEF CountInv, BenchInv, ThreadsAreWhere
  <2> QED BY <2>1 DEF LeftBehind, Leaves, OwesPush
<1> QED BY <1>1, <1>2, <1>3, CountInvariant, PTL DEF BenchSpec
=============================================================================

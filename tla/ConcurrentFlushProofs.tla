----------------------- MODULE ConcurrentFlushProofs -----------------------
(***************************************************************************)
(* Proofs about ConcurrentFlush for any capacity, batch, word size and     *)
(* memory behaviour, and any ways of using flush(): racing calls of        *)
(* flush() skip and double no place in the queue, and a flush() by the     *)
(* producer alone keeps the FIFO and shows every item.                     *)
(***************************************************************************)
EXTENDS ConcurrentFlush, FastqSPSCProofs

-----------------------------------------------------------------------------
(***************************************************************************)
(* The inductive invariant.  flush() breaks the order of the cursors: the  *)
(* producer's takes reader_ back, the consumer's takes writer_ back, each  *)
(* leaves the other's lastPublished_ anywhere and the consumer's publishes *)
(* items without their view.  What is left of it is this.                  *)
(***************************************************************************)
FlushTypeOK ==
    /\ flushers \in SUBSET {"producer", "consumer"}
    /\ producerFlush \in {"none", "read", "stored", "reader", "returned"}
    /\ consumerFlush \in {"none", "reader", "read", "stored", "returned"}
    /\ producerRead \in Position
    /\ consumerRead \in Position

\* Who flushes when: the producer pushes nothing after it began.
FlushersAre ==
    /\ consumerFlush # "none" => "consumer" \in flushers
    /\ producerFlush # "none" => pushPc = "idle"
    /\ consumerFlush \in {"reader", "read", "stored"} => popPc = "idle"

\* What the producer may still load from reader_, until it flushes.
ReaderOrder ==
    producerFlush = "none" =>
        /\ InOrder(reader, producer.cachedReader)
        /\ Ahead(Newest(reader).val) <= Ahead(consumer.localReader)
        /\ CarriesOwnView(reader)
        /\ Ahead(producerSees) <= Ahead(consumer.localReader)

\* What the consumer may load from writer_, also after its own flush().
WriterOrder ==
    /\ Ahead(consumer.cachedWriter) <= Ahead(Observed(writer).val)
    /\ InOrder(writer, producer.cachedReader)
    /\ Ahead(Newest(writer).val) <= Ahead(producer.localWriter)
    /\ consumerFlush = "read" =>
           /\ Ahead(consumer.cachedWriter) <= Ahead(consumerRead)
           /\ Ahead(consumerRead) <= Ahead(producer.localWriter)

\* Until the consumer stores to writer_ every item shown comes with its view.
WriterViews ==
    consumerFlush \in {"none", "reader", "read"} =>
        /\ CarriesOwnView(writer)
        /\ Ahead(consumer.cachedWriter) <= Ahead(consumerSees)
        /\ Ahead(consumerSees) <= Ahead(producer.localWriter)

ProducersShows ==
    producerFlush = "returned" /\ consumerFlush = "none" =>
        Newest(writer).val = producer.localWriter

FlushInv ==
    /\ TypeOK /\ FlushTypeOK /\ FlushersAre
    /\ ItemsOnArc /\ ReaderOrder /\ WriterOrder /\ WriterViews /\ ProducersShows

-----------------------------------------------------------------------------
(***************************************************************************)
(* Positions and stores.                                                   *)
(***************************************************************************)

\* A walk between two positions adds to the distance from any base before them.
LEMMA WalkAdds ==
    ASSUME NEW base \in Position, NEW from \in Position, NEW to \in Position,
           Sub(from, base) <= Sub(to, base), NEW n \in 0 .. Sub(to, from)
    PROVE  Sub(Add(from, n), base) = Sub(from, base) + n
<1>1. Sub(to, from) = Sub(to, base) - Sub(from, base)
  BY Rebase
<1>2. /\ Sub(from, base) \in Nat /\ Sub(to, base) \in Nat /\ Sub(to, base) < Modulus
      /\ Sub(to, from) \in Nat /\ Sub(to, from) < Modulus
  <2>1. \A p \in Position : p < Modulus
    BY SizeTAssumption DEF Position
  <2> QED BY <2>1, SubType
<1>3. n \in Nat /\ n < Modulus /\ n \in Position
  BY <1>2, SizeTAssumption DEF Position
<1> DEFINE v == Add(from, n)
           f == Sub(from, base)
<1>4. v \in Position /\ v = IF from + n < Modulus THEN from + n ELSE from + n - Modulus
  BY <1>3, AddType, AddCases
<1>5. Sub(v, base) = IF base <= v THEN v - base ELSE v - base + Modulus
  BY <1>4, SubCases
<1>6. f = IF base <= from THEN from - base ELSE from - base + Modulus
  BY SubCases
<1>7. f + n < Modulus /\ f \in Nat
  BY <1>1, <1>2, <1>3, SizeTAssumption
<1> HIDE DEF f, v
<1>8. Sub(v, base) = f + n
  BY <1>3, <1>4, <1>5, <1>6, <1>7, SizeTAssumption DEF Position
<1> QED BY <1>8 DEF f, v

\* An unordered read returns a position between the two ends.
LEMMA ArcBetween ==
    ASSUME NEW from \in Position, NEW to \in Position, NEW v \in Arc(from, to)
    PROVE  /\ v \in Position
           /\ \A base \in Position :
                  Sub(from, base) <= Sub(to, base) =>
                      Sub(from, base) <= Sub(v, base) /\ Sub(v, base) <= Sub(to, base)
<1>1. PICK n \in 0 .. Sub(to, from) : v = Add(from, n)
  BY DEF Arc
<1>2. Sub(to, from) \in Position /\ n \in Position /\ n \in Nat /\ n <= Sub(to, from)
  BY <1>1, SubType, SizeTAssumption DEF Position
<1>3. v \in Position
  BY <1>1, <1>2, AddType
<1>4. ASSUME NEW base \in Position, Sub(from, base) <= Sub(to, base)
      PROVE  Sub(from, base) <= Sub(v, base) /\ Sub(v, base) <= Sub(to, base)
  <2>1. Sub(v, base) = Sub(from, base) + n
    BY <1>1, <1>4, WalkAdds
  <2>2. Sub(to, from) = Sub(to, base) - Sub(from, base)
    BY <1>4, Rebase
  <2>3. Sub(from, base) \in Nat /\ Sub(to, base) \in Nat
    BY SubType
  <2> QED BY <1>2, <2>1, <2>2, <2>3
<1> QED BY <1>3, <1>4

\* Stores in order from one base are so from a later one that none is before.
LEMMA RebaseOrder ==
    ASSUME NEW loc \in Seq(Stores), loc # <<>>, NEW base \in Position, NEW new \in Position,
           InOrder(loc, base),
           \A i \in 1 .. Len(loc) : Sub(new, base) <= Sub(loc[i].val, base)
    PROVE  InOrder(loc, new)
<1>1. \A i \in 1 .. Len(loc) :
          /\ loc[i].val \in Position
          /\ Sub(loc[i].val, base) \in Nat /\ Sub(new, base) \in Nat
          /\ Sub(loc[i].val, new) = Sub(loc[i].val, base) - Sub(new, base)
  BY LocationEnds, StoresFields, SubType, Rebase
<1> QED BY <1>1 DEF InOrder

\* One store is in order.
LEMMA OneStore ==
    ASSUME NEW s \in Stores, NEW base \in Position
    PROVE  /\ <<s>> \in Seq(Stores) /\ <<s>> # <<>> /\ Len(<<s>>) = 1
           /\ Observed(<<s>>) = s /\ Newest(<<s>>) = s
           /\ InOrder(<<s>>, base)
<1>1. Sub(s.val, base) \in Nat
  BY StoresFields, SubType
<1> QED BY <1>1 DEF Observed, Newest, InOrder

LEMMA FlushTypes ==
    ASSUME FlushInv
    PROVE  /\ TypeOK /\ FlushTypeOK /\ FlushersAre /\ ItemsOnArc
           /\ producer.cachedReader \in Position /\ producer.localWriter \in Position
           /\ consumer.localReader \in Position /\ consumer.cachedWriter \in Position
           /\ producerSees \in Position /\ consumerSees \in Position
           /\ consumerRead \in Position
           /\ \A p \in Position : Ahead(p) \in Nat
           /\ writer \in Seq(Stores) /\ writer # <<>> /\ Len(writer) \in Nat \ {0}
           /\ reader \in Seq(Stores) /\ reader # <<>> /\ Len(reader) \in Nat \ {0}
           /\ \A i \in 1 .. Len(writer) : writer[i].val \in Position
           /\ \A i \in 1 .. Len(reader) : reader[i].val \in Position
           /\ Observed(writer) = writer[1] /\ Newest(writer) = writer[Len(writer)]
           /\ Observed(reader) = reader[1] /\ Newest(reader) = reader[Len(reader)]
<1>1. TypeOK
  BY DEF FlushInv
<1>2. /\ writer \in Seq(Stores) /\ writer # <<>>
      /\ reader \in Seq(Stores) /\ reader # <<>>
      /\ producerSees \in Position /\ consumerSees \in Position
  BY <1>1 DEF TypeOK
<1>3. /\ \A i \in 1 .. Len(writer) : writer[i].val \in Position
      /\ \A i \in 1 .. Len(reader) : reader[i].val \in Position
  BY <1>2, LocationEnds, StoresFields
<1> QED BY <1>1, <1>2, <1>3, CursorTypes, AheadTypes, LocationEnds
        DEF FlushInv, FlushTypeOK, Newest

-----------------------------------------------------------------------------
(***************************************************************************)
(* push.                                                                   *)
(***************************************************************************)
LEMMA PushBeginKeeps ==
    ASSUME FlushInv, TypeOK', producerFlush = "none", UNCHANGED flushVars,
           NEW d \in Data, PushBegin(d)
    PROVE  FlushInv'
<1>1. UNCHANGED <<cursors, flushVars, popPc>>
  BY DEF PushBegin, consumerVars
<1>2. pushPc' = "write" => Ahead(producer.localWriter) # Capacity
  BY DEF PushBegin, Full, Ahead
<1>3. pushPc' = "write" => Ahead(producer.localWriter) < Capacity
  BY <1>2, FlushTypes, SizeTAssumption DEF ItemsOnArc
<1>4. ItemsOnArc'
  BY <1>1, <1>3, FlushTypes DEF ItemsOnArc, cursors, Ahead
<1>5. ReaderOrder' /\ WriterOrder' /\ WriterViews' /\ ProducersShows'
  BY <1>1 DEF FlushInv, cursors, flushVars, ReaderOrder, WriterOrder, WriterViews,
              ProducersShows, Ahead, InOrder, CarriesOwnView, Newest, Observed
<1>6. FlushTypeOK' /\ FlushersAre'
  BY <1>1 DEF FlushInv, FlushTypeOK, FlushersAre, flushVars
<1> QED BY <1>4, <1>5, <1>6 DEF FlushInv

\* Everything the order speaks of is past the store just loaded, so that all
\* distances shrink by the same amount.
LEMMA PushLoadKeeps ==
    ASSUME FlushInv, TypeOK', producerFlush = "none", UNCHANGED flushVars, PushLoadReader
    PROVE  FlushInv'
<1> DEFINE new == Observed(reader).val
<1>1. /\ producer'.cachedReader = new
      /\ producer'.localWriter = producer.localWriter
      /\ producerSees' = Observed(reader).view
      /\ UNCHANGED <<writer, reader, consumer, consumerSees, popPc>>
  BY FlushTypes DEF PushLoadReader, consumerVars, TypeOK, ProducerState
<1>2. new \in Position /\ Observed(reader).view = new
  BY FlushTypes DEF FlushInv, ReaderOrder, CarriesOwnView
<1>3. \A i \in 1 .. Len(reader) : Ahead(new) <= Ahead(reader[i].val)
  BY FlushTypes DEF FlushInv, ReaderOrder, InOrder, Ahead
<1>4. Ahead(new) <= Ahead(consumer.localReader)
  <2>1. Ahead(new) <= Ahead(Newest(reader).val)
    BY <1>3, FlushTypes
  <2>2. Ahead(Newest(reader).val) <= Ahead(consumer.localReader)
    BY DEF FlushInv, ReaderOrder
  <2>3. Ahead(Newest(reader).val) \in Nat /\ Ahead(new) \in Nat
    BY <1>2, FlushTypes
  <2> QED BY <2>1, <2>2, <2>3, FlushTypes
<1>5. /\ Ahead(new) \in Nat /\ Ahead(new) <= Ahead(consumer.cachedWriter)
      /\ Ahead(new) <= Ahead(producer.localWriter)
  BY <1>2, <1>4, FlushTypes DEF ItemsOnArc
<1>6. \A i \in 1 .. Len(writer) :
          Ahead(writer[i].val) \in Nat /\ Ahead(new) <= Ahead(writer[i].val)
  <2>1. Ahead(consumer.cachedWriter) <= Ahead(writer[1].val) /\ Ahead(writer[1].val) \in Nat
    BY FlushTypes DEF FlushInv, WriterOrder
  <2>2. \A i \in 1 .. Len(writer) :
            Ahead(writer[i].val) \in Nat /\ Ahead(writer[1].val) <= Ahead(writer[i].val)
    BY FlushTypes DEF FlushInv, WriterOrder, InOrder, Ahead
  <2> QED BY <1>5, <2>1, <2>2, FlushTypes
<1>7. \A p \in Position : Ahead(new) <= Ahead(p) => Ahead(p)' = Ahead(p) - Ahead(new)
  BY <1>1, <1>2, FlushTypes, Rebase DEF Ahead
<1>8. Sub(new, producer'.cachedReader) = 0
  BY <1>1, <1>2, SubZero
<1>9. /\ Ahead(consumer.localReader)' = Ahead(consumer.localReader) - Ahead(new)
      /\ Ahead(consumer.cachedWriter)' = Ahead(consumer.cachedWriter) - Ahead(new)
      /\ Ahead(producer.localWriter)' = Ahead(producer.localWriter) - Ahead(new)
      /\ Ahead(producerSees)' = 0
  <2>1. \A p \in Position : Ahead(new) <= Ahead(p) =>
            Sub(p, producer'.cachedReader) = Ahead(p) - Ahead(new)
    BY <1>7 DEF Ahead
  <2> QED BY <1>1, <1>2, <1>4, <1>5, <1>8, <2>1, FlushTypes DEF Ahead
<1>10. InOrder(reader, producer.cachedReader)' /\ InOrder(writer, producer.cachedReader)'
  <2>1. InOrder(reader, new)
    BY <1>2, <1>3, FlushTypes, RebaseOrder DEF FlushInv, ReaderOrder, Ahead
  <2>2. InOrder(writer, new)
    BY <1>2, <1>6, FlushTypes, RebaseOrder DEF FlushInv, WriterOrder, Ahead
  <2> QED BY <1>1, <2>1, <2>2 DEF InOrder
<1>11. ItemsOnArc'
  <2>1. pushPc' = "write" => Ahead(producer.localWriter)' # Capacity
    BY <1>1 DEF PushLoadReader, Full, Ahead
  <2>2. /\ Ahead(new) \in Nat /\ Ahead(consumer.localReader) \in Nat
        /\ Ahead(consumer.cachedWriter) \in Nat /\ Ahead(producer.localWriter) \in Nat
    BY <1>5, FlushTypes
  <2>3. /\ Ahead(consumer.localReader) <= Ahead(consumer.cachedWriter)
        /\ Ahead(consumer.cachedWriter) <= Ahead(producer.localWriter)
        /\ Ahead(producer.localWriter) <= Capacity
        /\ popPc = "read" => consumer.localReader # consumer.cachedWriter
    BY DEF FlushInv, ItemsOnArc
  <2>4. /\ Ahead(consumer.localReader)' <= Ahead(consumer.cachedWriter)'
        /\ Ahead(consumer.cachedWriter)' <= Ahead(producer.localWriter)'
        /\ Ahead(producer.localWriter)' <= Capacity
        /\ Ahead(producer.localWriter)' \in Int
    BY <1>9, <2>2, <2>3, SizeTAssumption
  <2>5. pushPc' = "write" => Ahead(producer.localWriter)' < Capacity
    BY <2>1, <2>4, SizeTAssumption
  <2>6. popPc' = "read" => consumer'.localReader # consumer'.cachedWriter
    BY <1>1, <2>3
  <2> QED BY <2>4, <2>5, <2>6 DEF ItemsOnArc
<1>12. ReaderOrder'
  <2>1. Sub(Newest(reader).val, producer'.cachedReader)
            <= Sub(consumer.localReader, producer'.cachedReader)
    <3>1. /\ Newest(reader).val \in Position /\ Ahead(new) <= Ahead(Newest(reader).val)
          /\ Ahead(Newest(reader).val) <= Ahead(consumer.localReader)
      BY <1>3, FlushTypes DEF FlushInv, ReaderOrder
    <3>2. /\ Sub(Newest(reader).val, producer'.cachedReader)
                 = Ahead(Newest(reader).val) - Ahead(new)
          /\ Sub(consumer.localReader, producer'.cachedReader)
                 = Ahead(consumer.localReader) - Ahead(new)
      BY <1>4, <1>7, <3>1, FlushTypes DEF Ahead
    <3>3. /\ Ahead(Newest(reader).val) \in Nat /\ Ahead(new) \in Nat
          /\ Ahead(consumer.localReader) \in Nat
      BY <1>5, <3>1, FlushTypes
    <3> QED BY <3>1, <3>2, <3>3
  <2>2. CarriesOwnView(reader)'
    BY <1>1 DEF FlushInv, ReaderOrder, CarriesOwnView
  <2>3. Ahead(producerSees)' <= Ahead(consumer.localReader)'
    BY <1>4, <1>5, <1>9, FlushTypes
  <2> QED BY <1>1, <1>10, <2>1, <2>2, <2>3 DEF ReaderOrder, Newest, Ahead
<1>13. \A p, q \in Position :
           Ahead(new) <= Ahead(p) /\ Ahead(p) <= Ahead(q) =>
               Sub(p, producer'.cachedReader) <= Sub(q, producer'.cachedReader)
  <2> SUFFICES ASSUME NEW p \in Position, NEW q \in Position,
                      Ahead(new) <= Ahead(p), Ahead(p) <= Ahead(q)
               PROVE  Sub(p, producer'.cachedReader) <= Sub(q, producer'.cachedReader)
    OBVIOUS
  <2>1. Ahead(p) \in Nat /\ Ahead(q) \in Nat /\ Ahead(new) \in Nat
    BY <1>5, FlushTypes
  <2>2. Ahead(new) <= Ahead(q)
    BY <2>1
  <2>3. /\ Sub(p, producer'.cachedReader) = Ahead(p) - Ahead(new)
        /\ Sub(q, producer'.cachedReader) = Ahead(q) - Ahead(new)
    BY <1>7, <2>2 DEF Ahead
  <2> QED BY <2>1, <2>3
<1>14. WriterOrder'
  <2>1. Sub(consumer.cachedWriter, producer'.cachedReader)
            <= Sub(Observed(writer).val, producer'.cachedReader)
    BY <1>5, <1>13, FlushTypes DEF FlushInv, WriterOrder
  <2>2. Sub(Newest(writer).val, producer'.cachedReader)
            <= Sub(producer.localWriter, producer'.cachedReader)
    BY <1>6, <1>13, FlushTypes DEF FlushInv, WriterOrder
  <2>3. consumerFlush = "read" =>
            /\ Sub(consumer.cachedWriter, producer'.cachedReader)
                   <= Sub(consumerRead, producer'.cachedReader)
            /\ Sub(consumerRead, producer'.cachedReader)
                   <= Sub(producer.localWriter, producer'.cachedReader)
    <3> SUFFICES ASSUME consumerFlush = "read"
                 PROVE  /\ Sub(consumer.cachedWriter, producer'.cachedReader)
                               <= Sub(consumerRead, producer'.cachedReader)
                        /\ Sub(consumerRead, producer'.cachedReader)
                               <= Sub(producer.localWriter, producer'.cachedReader)
      OBVIOUS
    <3>1. /\ Ahead(consumer.cachedWriter) <= Ahead(consumerRead)
          /\ Ahead(consumerRead) <= Ahead(producer.localWriter)
      BY DEF FlushInv, WriterOrder
    <3>2. Ahead(new) <= Ahead(consumerRead)
      BY <1>5, <3>1, FlushTypes
    <3> QED BY <1>5, <1>13, <3>1, <3>2, FlushTypes
  <2> QED BY <1>1, <1>10, <2>1, <2>2, <2>3
          DEF WriterOrder, Newest, Observed, Ahead, flushVars
<1>15. WriterViews'
  <2> SUFFICES ASSUME consumerFlush \in {"none", "reader", "read"} PROVE WriterViews'
    BY DEF WriterViews, flushVars
  <2>1. /\ CarriesOwnView(writer)
        /\ Ahead(consumer.cachedWriter) <= Ahead(consumerSees)
        /\ Ahead(consumerSees) <= Ahead(producer.localWriter)
    BY DEF FlushInv, WriterViews
  <2>2. Ahead(new) <= Ahead(consumerSees)
    BY <1>5, <2>1, FlushTypes
  <2>3. /\ Sub(consumer.cachedWriter, producer'.cachedReader)
               <= Sub(consumerSees, producer'.cachedReader)
        /\ Sub(consumerSees, producer'.cachedReader)
               <= Sub(producer.localWriter, producer'.cachedReader)
    BY <1>5, <1>13, <2>1, <2>2, FlushTypes
  <2> QED BY <1>1, <2>1, <2>3 DEF WriterViews, CarriesOwnView, Ahead
<1>16. FlushTypeOK' /\ FlushersAre' /\ ProducersShows'
  BY <1>1 DEF FlushInv, FlushTypeOK, FlushersAre, ProducersShows, flushVars
<1> QED BY <1>11, <1>12, <1>14, <1>15, <1>16 DEF FlushInv

LEMMA PushWriteKeeps ==
    ASSUME FlushInv, TypeOK', producerFlush = "none", UNCHANGED flushVars, PushWrite
    PROVE  FlushInv'
<1>1. /\ pushPc = "write" /\ pushPc' # "write"
      /\ producer'.localWriter = Add(producer.localWriter, 1)
      /\ producer'.cachedReader = producer.cachedReader
      /\ UNCHANGED <<writer, reader, consumer, producerSees, consumerSees, popPc>>
  BY FlushTypes DEF PushWrite, consumerVars, TypeOK, ProducerState
<1>2. Ahead(producer.localWriter) \in Nat /\ Ahead(producer.localWriter) < Capacity
  BY <1>1, FlushTypes DEF ItemsOnArc
<1>3. Ahead(producer.localWriter)' = Ahead(producer.localWriter) + 1
  <2>1. Ahead(producer.localWriter) <= Capacity - 1
    BY <1>2, SizeTAssumption
  <2>2. producer.localWriter \in Position /\ producer.cachedReader \in Position
    BY FlushTypes
  <2>3. Sub(Add(producer.localWriter, 1), producer.cachedReader)
            = Sub(producer.localWriter, producer.cachedReader) + 1
    BY <2>1, <2>2, SubIncrement DEF Ahead
  <2> QED BY <1>1, <2>3 DEF Ahead
<1>4. \A p \in Position : Ahead(p) <= Ahead(producer.localWriter) =>
          Ahead(p) <= Ahead(producer.localWriter)'
  BY <1>2, <1>3, FlushTypes
<1>5. ItemsOnArc'
  BY <1>1, <1>2, <1>3, <1>4, FlushTypes, SizeTAssumption DEF ItemsOnArc, Ahead
<1>6. WriterOrder' /\ WriterViews'
  BY <1>1, <1>4, FlushTypes
     DEF FlushInv, WriterOrder, WriterViews, InOrder, CarriesOwnView, Ahead, Newest,
         Observed, flushVars
<1>7. ReaderOrder' /\ ProducersShows'
  BY <1>1 DEF FlushInv, ReaderOrder, ProducersShows, InOrder, CarriesOwnView, Ahead,
              Newest, flushVars
<1>8. FlushTypeOK' /\ FlushersAre'
  BY <1>1 DEF FlushInv, FlushTypeOK, FlushersAre, flushVars
<1> QED BY <1>5, <1>6, <1>7, <1>8 DEF FlushInv

\* publish_writer, by push and by the producer's flush().
LEMMA PublishWriterKeeps ==
    ASSUME FlushInv, PublishWriter, UNCHANGED <<consumer, consumerSees, consumerFlush>>,
           consumerRead' = consumerRead
    PROVE  /\ WriterOrder' /\ WriterViews'
           /\ Newest(writer').val = producer'.localWriter
           /\ writer' \in Seq(Stores) /\ writer' # <<>> /\ producer' \in ProducerState
           /\ producer'.localWriter = producer.localWriter
           /\ producer'.cachedReader = producer.cachedReader
<1> DEFINE s == [val |-> producer.localWriter, view |-> producer.localWriter]
           base == producer.cachedReader
<1>1. /\ writer' = Store(writer, s)
      /\ producer'.localWriter = producer.localWriter
      /\ producer'.cachedReader = base
      /\ producer' \in ProducerState
  BY FlushTypes DEF PublishWriter, TypeOK, ProducerState
<1>2. s \in Stores
  BY FlushTypes DEF Stores
<1>3. /\ writer' \in Seq(Stores) /\ writer' # <<>>
      /\ Newest(writer') = s /\ Observed(writer') \in {Observed(writer), s}
  BY <1>1, <1>2, FlushTypes, StoreRecorded
<1>4. InOrder(writer', base)
  BY <1>1, <1>2, FlushTypes, StoreKeepsOrder DEF FlushInv, WriterOrder, Ahead
<1>5. Ahead(consumer.cachedWriter) <= Ahead(Observed(writer').val)
  BY <1>3, FlushTypes DEF FlushInv, WriterOrder, ItemsOnArc
<1>6. Ahead(producer.localWriter) <= Ahead(producer.localWriter)
  BY FlushTypes
<1>7. WriterOrder'
  BY <1>1, <1>3, <1>4, <1>5, <1>6 DEF FlushInv, WriterOrder, InOrder, Ahead, Newest, Observed
<1>8. WriterViews'
  <2> SUFFICES ASSUME consumerFlush \in {"none", "reader", "read"} PROVE WriterViews'
    BY DEF WriterViews
  <2>1. CarriesOwnView(writer')
    BY <1>1, FlushTypes, StoreKeepsViews DEF FlushInv, WriterViews
  <2> QED BY <1>1, <2>1 DEF FlushInv, WriterViews, CarriesOwnView, Ahead
<1> QED BY <1>1, <1>3, <1>7, <1>8

LEMMA PushPublishKeeps ==
    ASSUME FlushInv, TypeOK', producerFlush = "none", UNCHANGED flushVars, PushPublish
    PROVE  FlushInv'
<1>1. /\ PublishWriter
      /\ pushPc' = "idle"
      /\ UNCHANGED <<reader, consumer, producerSees, consumerSees, popPc, flushers,
                     producerFlush, consumerFlush, producerRead, consumerRead>>
  BY DEF PushPublish, consumerVars, flushVars
<1>2. /\ WriterOrder' /\ WriterViews'
      /\ producer'.localWriter = producer.localWriter
      /\ producer'.cachedReader = producer.cachedReader
  BY <1>1, PublishWriterKeeps
<1>3. ItemsOnArc' /\ ReaderOrder'
  BY <1>1, <1>2 DEF FlushInv, ItemsOnArc, ReaderOrder, InOrder, CarriesOwnView, Ahead, Newest
<1>4. FlushTypeOK' /\ FlushersAre' /\ ProducersShows'
  BY <1>1 DEF FlushInv, FlushTypeOK, FlushersAre, ProducersShows
<1> QED BY <1>2, <1>3, <1>4 DEF FlushInv

-----------------------------------------------------------------------------
(***************************************************************************)
(* pop.                                                                    *)
(***************************************************************************)
LEMMA PopBeginKeeps ==
    ASSUME FlushInv, TypeOK', consumerFlush \in {"none", "returned"},
           UNCHANGED flushVars, PopBegin
    PROVE  FlushInv'
<1>1. UNCHANGED <<cursors, flushVars, pushPc>>
  BY DEF PopBegin, producerVars
<1>2. popPc' = "read" => consumer.localReader # consumer.cachedWriter
  BY DEF PopBegin, Empty
<1>3. ItemsOnArc'
  BY <1>1, <1>2, FlushTypes DEF ItemsOnArc, cursors, Ahead
<1>4. ReaderOrder' /\ WriterOrder' /\ WriterViews' /\ ProducersShows'
  BY <1>1 DEF FlushInv, cursors, flushVars, ReaderOrder, WriterOrder, WriterViews,
              ProducersShows, Ahead, InOrder, CarriesOwnView, Newest, Observed
<1>5. FlushTypeOK' /\ FlushersAre'
  BY <1>1 DEF FlushInv, FlushTypeOK, FlushersAre, flushVars
<1> QED BY <1>3, <1>4, <1>5 DEF FlushInv

LEMMA PopLoadKeeps ==
    ASSUME FlushInv, TypeOK', consumerFlush \in {"none", "returned"},
           UNCHANGED flushVars, PopLoadWriter
    PROVE  FlushInv'
<1> DEFINE seen == Observed(writer).val
<1>1. /\ consumer'.cachedWriter = seen
      /\ consumer'.localReader = consumer.localReader
      /\ consumerSees' = Observed(writer).view
      /\ popPc' = "read" => consumer'.localReader # consumer'.cachedWriter
      /\ UNCHANGED <<writer, reader, producer, producerSees, pushPc>>
  BY FlushTypes DEF PopLoadWriter, producerVars, Empty, TypeOK, ConsumerState
<1>2. seen \in Position /\ Ahead(seen) \in Nat
  BY FlushTypes
<1>3. Ahead(seen) <= Ahead(Newest(writer).val)
  BY FlushTypes DEF FlushInv, WriterOrder, InOrder, Ahead
<1>4. Ahead(seen) <= Ahead(producer.localWriter)
  <2>1. Ahead(Newest(writer).val) \in Nat
    BY FlushTypes
  <2> QED BY <1>2, <1>3, <2>1, FlushTypes DEF FlushInv, WriterOrder
<1>5. Ahead(consumer.localReader) <= Ahead(seen)
  BY <1>2, FlushTypes DEF FlushInv, WriterOrder, ItemsOnArc
<1>6. ItemsOnArc'
  BY <1>1, <1>4, <1>5, FlushTypes DEF ItemsOnArc, Ahead
<1>7. WriterOrder'
  BY <1>1, <1>2 DEF FlushInv, WriterOrder, InOrder, Ahead, Newest, Observed, flushVars
<1>8. WriterViews'
  <2> SUFFICES ASSUME consumerFlush = "none" PROVE WriterViews'
    BY DEF WriterViews, flushVars
  <2>1. CarriesOwnView(writer)
    BY DEF FlushInv, WriterViews
  <2>2. Observed(writer).view = seen
    BY <2>1, FlushTypes DEF CarriesOwnView
  <2> QED BY <1>1, <1>2, <1>4, <2>1, <2>2 DEF WriterViews, CarriesOwnView, Ahead
<1>9. ReaderOrder' /\ ProducersShows'
  BY <1>1 DEF FlushInv, ReaderOrder, ProducersShows, InOrder, CarriesOwnView, Ahead,
              Newest, flushVars
<1>10. FlushTypeOK' /\ FlushersAre'
  BY <1>1 DEF FlushInv, FlushTypeOK, FlushersAre, flushVars
<1> QED BY <1>6, <1>7, <1>8, <1>9, <1>10 DEF FlushInv

LEMMA PopReadKeeps ==
    ASSUME FlushInv, TypeOK', consumerFlush \in {"none", "returned"},
           UNCHANGED flushVars, PopRead \/ ReadsUnordered
    PROVE  FlushInv'
<1>1. /\ popPc = "read" /\ popPc' # "read"
      /\ consumer'.localReader = Add(consumer.localReader, 1)
      /\ consumer'.cachedWriter = consumer.cachedWriter
      /\ UNCHANGED <<writer, reader, producer, producerSees, consumerSees, pushPc>>
  BY FlushTypes DEF PopRead, ReadsUnordered, producerVars, TypeOK, ConsumerState
<1>2. Ahead(consumer.localReader) # Ahead(consumer.cachedWriter)
  BY <1>1, FlushTypes, AddSub DEF ItemsOnArc, Ahead
<1>3. Ahead(consumer.localReader) < Ahead(consumer.cachedWriter)
  BY <1>2, FlushTypes DEF ItemsOnArc
<1>4. Ahead(consumer.localReader) <= Capacity - 1
  <2>1. /\ Ahead(consumer.cachedWriter) <= Ahead(producer.localWriter)
        /\ Ahead(producer.localWriter) <= Capacity
    BY DEF FlushInv, ItemsOnArc
  <2>2. /\ Ahead(consumer.localReader) \in Nat /\ Ahead(consumer.cachedWriter) \in Nat
        /\ Ahead(producer.localWriter) \in Nat
    BY FlushTypes
  <2> QED BY <1>3, <2>1, <2>2, SizeTAssumption
<1>5. Ahead(consumer.localReader)' = Ahead(consumer.localReader) + 1
  BY <1>1, <1>4, FlushTypes, SubIncrement DEF Ahead
<1>6. ItemsOnArc'
  BY <1>1, <1>3, <1>5, FlushTypes DEF ItemsOnArc, Ahead
<1>7. \A p \in Position : Ahead(p) <= Ahead(consumer.localReader) =>
          Ahead(p) <= Ahead(consumer.localReader)'
  BY <1>5, FlushTypes
<1>8. ReaderOrder'
  <2>1. Newest(reader).val \in Position
    BY FlushTypes
  <2> QED BY <1>1, <1>7, <2>1, FlushTypes
          DEF FlushInv, ReaderOrder, InOrder, CarriesOwnView, Ahead, Newest, flushVars
<1>9. WriterOrder' /\ WriterViews' /\ ProducersShows'
  BY <1>1 DEF FlushInv, WriterOrder, WriterViews, ProducersShows, InOrder, CarriesOwnView,
              Ahead, Newest, Observed, flushVars
<1>10. FlushTypeOK' /\ FlushersAre'
  BY <1>1 DEF FlushInv, FlushTypeOK, FlushersAre, flushVars
<1> QED BY <1>6, <1>8, <1>9, <1>10 DEF FlushInv

LEMMA ReadsUnorderedType == TypeOK /\ ReadsUnordered => TypeOK'
<1> SUFFICES ASSUME TypeOK, ReadsUnordered PROVE TypeOK'
  OBVIOUS
<1>1. /\ consumer' = [consumer EXCEPT !.localReader = Add(consumer.localReader, 1)]
      /\ Add(consumer.localReader, 1) \in Position
  BY CursorTypes, AddType, OneIsPosition DEF ReadsUnordered
<1>2. consumer' \in ConsumerState
  BY <1>1 DEF TypeOK, ConsumerState
<1>3. /\ out' \in Data \cup {NoData} /\ popPc' \in {"publish", "idle"} /\ popOk' \in BOOLEAN
      /\ UNCHANGED <<buffer, writer, reader, producer, producerSees, consumerSees,
                     pushPc, item, pushOk>>
  BY DEF ReadsUnordered, producerVars, TypeOK
<1> QED BY <1>2, <1>3 DEF TypeOK, PopPcs

\* publish_reader, by pop and by the consumer's flush().
LEMMA PublishReaderKeeps ==
    ASSUME FlushInv, PublishReader, UNCHANGED <<producer, producerSees, producerFlush>>
    PROVE  /\ ReaderOrder'
           /\ reader' \in Seq(Stores) /\ reader' # <<>> /\ consumer' \in ConsumerState
           /\ consumer'.localReader = consumer.localReader
           /\ consumer'.cachedWriter = consumer.cachedWriter
<1> DEFINE s == [val |-> consumer.localReader, view |-> consumer.localReader]
           base == producer.cachedReader
<1>1. /\ reader' = Store(reader, s)
      /\ consumer'.localReader = consumer.localReader
      /\ consumer'.cachedWriter = consumer.cachedWriter
      /\ consumer' \in ConsumerState
  BY FlushTypes DEF PublishReader, TypeOK, ConsumerState
<1>2. s \in Stores
  BY FlushTypes DEF Stores
<1>3. reader' \in Seq(Stores) /\ reader' # <<>> /\ Newest(reader') = s
  BY <1>1, <1>2, FlushTypes, StoreRecorded
<1>4. ReaderOrder'
  <2> SUFFICES ASSUME producerFlush = "none" PROVE ReaderOrder'
    BY DEF ReaderOrder
  <2>1. InOrder(reader', base)
    BY <1>1, <1>2, FlushTypes, StoreKeepsOrder DEF FlushInv, ReaderOrder, Ahead
  <2>2. CarriesOwnView(reader')
    BY <1>1, FlushTypes, StoreKeepsViews DEF FlushInv, ReaderOrder
  <2>3. Ahead(consumer.localReader) <= Ahead(consumer.localReader)
    BY FlushTypes
  <2> QED BY <1>1, <1>3, <2>1, <2>2, <2>3
          DEF FlushInv, ReaderOrder, InOrder, CarriesOwnView, Ahead, Newest
<1> QED BY <1>1, <1>3, <1>4

LEMMA PopPublishKeeps ==
    ASSUME FlushInv, TypeOK', consumerFlush \in {"none", "returned"},
           UNCHANGED flushVars, PopPublish
    PROVE  FlushInv'
<1>1. /\ PublishReader
      /\ popPc' = "idle"
      /\ UNCHANGED <<writer, producer, producerSees, consumerSees, pushPc, flushers,
                     producerFlush, consumerFlush, producerRead, consumerRead>>
  BY DEF PopPublish, producerVars, flushVars
<1>2. /\ ReaderOrder'
      /\ consumer'.localReader = consumer.localReader
      /\ consumer'.cachedWriter = consumer.cachedWriter
  BY <1>1, PublishReaderKeeps
<1>3. ItemsOnArc' /\ WriterOrder' /\ WriterViews'
  BY <1>1, <1>2 DEF FlushInv, ItemsOnArc, WriterOrder, WriterViews, InOrder, CarriesOwnView,
                    Ahead, Newest, Observed
<1>4. FlushTypeOK' /\ FlushersAre' /\ ProducersShows'
  BY <1>1 DEF FlushInv, FlushTypeOK, FlushersAre, ProducersShows, Newest
<1> QED BY <1>2, <1>3, <1>4 DEF FlushInv

-----------------------------------------------------------------------------
(***************************************************************************)
(* A store becomes observable.                                             *)
(***************************************************************************)
LEMMA PropagateInOrder ==
    ASSUME NEW loc \in Seq(Stores), Len(loc) > 1, NEW base \in Position,
           InOrder(loc, base)
    PROVE  /\ InOrder(Tail(loc), base)
           /\ Sub(Observed(loc).val, base) <= Sub(Observed(Tail(loc)).val, base)
           /\ CarriesOwnView(loc) => CarriesOwnView(Tail(loc))
<1>1. Len(loc) \in Nat /\ loc # <<>>
  OBVIOUS
<1>2. InOrder(Tail(loc), base)
  BY <1>1, PropagateKeeps DEF InOrder
<1>3. CarriesOwnView(loc) => CarriesOwnView(Tail(loc))
  BY <1>1, PropagateKeeps DEF CarriesOwnView
<1>4. Observed(loc) = loc[1] /\ Observed(Tail(loc)) = loc[2]
  BY <1>1, PropagateKeeps, LocationEnds
<1>5. Sub(loc[1].val, base) <= Sub(loc[2].val, base)
  BY <1>1 DEF InOrder
<1> QED BY <1>2, <1>3, <1>4, <1>5

LEMMA PropagateWriterKeeps ==
    ASSUME FlushInv, TypeOK', UNCHANGED flushVars, PropagateWriter
    PROVE  FlushInv'
<1>1. /\ Len(writer) > 1
      /\ writer' = Tail(writer)
      /\ UNCHANGED <<reader, producer, consumer, producerSees, consumerSees, pushPc, popPc>>
  BY DEF PropagateWriter, producerVars, consumerVars
<1>2. Newest(writer') = Newest(writer) /\ Observed(writer') = writer[2]
  BY <1>1, FlushTypes, PropagateKeeps
<1>3. /\ InOrder(writer', producer.cachedReader)
      /\ Sub(Observed(writer).val, producer.cachedReader)
             <= Sub(Observed(writer').val, producer.cachedReader)
      /\ CarriesOwnView(writer) => CarriesOwnView(writer')
  BY <1>1, FlushTypes, PropagateInOrder DEF FlushInv, WriterOrder
<1>4. Ahead(consumer.cachedWriter) <= Ahead(Observed(writer').val)
  <2>1. Ahead(Observed(writer).val) <= Ahead(Observed(writer').val)
    BY <1>3 DEF Ahead
  <2>2. 2 \in 1 .. Len(writer)
    BY <1>1, FlushTypes
  <2>3. Observed(writer').val \in Position
    BY <1>2, <2>2, FlushTypes
  <2>4. Observed(writer).val \in Position
    BY FlushTypes
  <2> QED BY <2>1, <2>3, <2>4, FlushTypes DEF FlushInv, WriterOrder
<1>5. WriterOrder'
  BY <1>1, <1>2, <1>3, <1>4
     DEF FlushInv, WriterOrder, InOrder, Ahead, Newest, Observed, flushVars
<1>6. WriterViews'
  BY <1>1, <1>3 DEF FlushInv, WriterViews, CarriesOwnView, Ahead, flushVars
<1>7. ItemsOnArc' /\ ReaderOrder' /\ ProducersShows'
  BY <1>1, <1>2 DEF FlushInv, ItemsOnArc, ReaderOrder, ProducersShows, InOrder,
                    CarriesOwnView, Ahead, Newest, flushVars
<1>8. FlushTypeOK' /\ FlushersAre'
  BY <1>1 DEF FlushInv, FlushTypeOK, FlushersAre, flushVars
<1> QED BY <1>5, <1>6, <1>7, <1>8 DEF FlushInv

LEMMA PropagateReaderKeeps ==
    ASSUME FlushInv, TypeOK', UNCHANGED flushVars, PropagateReader
    PROVE  FlushInv'
<1>1. /\ Len(reader) > 1
      /\ reader' = Tail(reader)
      /\ UNCHANGED <<writer, producer, consumer, producerSees, consumerSees, pushPc, popPc>>
  BY DEF PropagateReader, producerVars, consumerVars
<1>2. Newest(reader') = Newest(reader)
  BY <1>1, FlushTypes, PropagateKeeps
<1>3. ReaderOrder'
  <2> SUFFICES ASSUME producerFlush = "none" PROVE ReaderOrder'
    BY DEF ReaderOrder, flushVars
  <2>1. InOrder(reader', producer.cachedReader) /\ CarriesOwnView(reader')
    BY <1>1, FlushTypes, PropagateInOrder DEF FlushInv, ReaderOrder
  <2> QED BY <1>1, <1>2, <2>1
          DEF FlushInv, ReaderOrder, InOrder, CarriesOwnView, Ahead, Newest
<1>4. ItemsOnArc' /\ WriterOrder' /\ WriterViews' /\ ProducersShows'
  BY <1>1 DEF FlushInv, ItemsOnArc, WriterOrder, WriterViews, ProducersShows, InOrder,
              CarriesOwnView, Ahead, Newest, Observed, flushVars
<1>5. FlushTypeOK' /\ FlushersAre'
  BY <1>1 DEF FlushInv, FlushTypeOK, FlushersAre, flushVars
<1> QED BY <1>3, <1>4, <1>5 DEF FlushInv

-----------------------------------------------------------------------------
(***************************************************************************)
(* flush() by the producer.                                                *)
(***************************************************************************)
LEMMA ProducerReadsReaderKeeps ==
    ASSUME FlushInv, ProducerReadsReader
    PROVE  FlushInv'
<1>1. /\ pushPc = "idle" /\ producerFlush' = "read"
      /\ UNCHANGED <<buffer, writer, reader, producer, consumer, producerSees, consumerSees,
                     pushPc, item, pushOk, popPc, out, popOk,
                     flushers, consumerFlush, consumerRead>>
  BY DEF ProducerReadsReader, vars, cursors, producerVars, consumerVars
<1>2. producerRead' \in Position
  BY FlushTypes, ArcBetween DEF ProducerReadsReader
<1>3. TypeOK'
  BY <1>1 DEF FlushInv, TypeOK
<1>4. FlushTypeOK' /\ FlushersAre'
  BY <1>1, <1>2 DEF FlushInv, FlushTypeOK, FlushersAre
<1>5. ItemsOnArc' /\ ReaderOrder' /\ WriterOrder' /\ WriterViews' /\ ProducersShows'
  BY <1>1 DEF FlushInv, ItemsOnArc, ReaderOrder, WriterOrder, WriterViews, ProducersShows,
              InOrder, CarriesOwnView, Ahead, Newest, Observed
<1> QED BY <1>3, <1>4, <1>5 DEF FlushInv

LEMMA ProducerStoresReaderKeeps ==
    ASSUME FlushInv, ProducerStoresReader
    PROVE  FlushInv'
<1>1. /\ producerFlush = "read" /\ producerFlush' = "stored"
      /\ reader' = <<[val |-> producerRead, view |-> producerSees]>>
      /\ UNCHANGED <<buffer, writer, producer, consumer, producerSees, consumerSees,
                     pushPc, item, pushOk, popPc, out, popOk,
                     flushers, consumerFlush, producerRead, consumerRead>>
  BY DEF ProducerStoresReader, producerVars, consumerVars
<1>2. [val |-> producerRead, view |-> producerSees] \in Stores
  BY FlushTypes DEF FlushTypeOK, Stores
<1>3. reader' \in Seq(Stores) /\ reader' # <<>>
  BY <1>1, <1>2, FlushTypes, OneStore
<1>4. TypeOK'
  BY <1>1, <1>3 DEF FlushInv, TypeOK
<1>5. FlushTypeOK' /\ FlushersAre'
  BY <1>1 DEF FlushInv, FlushTypeOK, FlushersAre
<1>6. ItemsOnArc' /\ ReaderOrder' /\ WriterOrder' /\ WriterViews' /\ ProducersShows'
  BY <1>1 DEF FlushInv, ItemsOnArc, ReaderOrder, WriterOrder, WriterViews, ProducersShows,
              InOrder, CarriesOwnView, Ahead, Newest, Observed
<1> QED BY <1>4, <1>5, <1>6 DEF FlushInv

LEMMA ProducerWritesLastPublishedKeeps ==
    ASSUME FlushInv, ProducerWritesLastPublished
    PROVE  FlushInv'
<1>1. /\ producerFlush = "stored" /\ producerFlush' = "reader"
      /\ UNCHANGED <<buffer, writer, reader, producer, producerSees, consumerSees,
                     pushPc, item, pushOk, popPc, out, popOk,
                     flushers, consumerFlush, producerRead, consumerRead>>
  BY DEF ProducerWritesLastPublished, producerVars, consumerVars
<1>2. PICK v \in Arc(producerSees, consumer.localReader) \cup {consumer.lastPublished} :
          consumer' = [consumer EXCEPT !.lastPublished = v]
  BY DEF ProducerWritesLastPublished
<1>3. v \in Position
  BY FlushTypes, CursorTypes, ArcBetween
<1>4. /\ consumer' \in ConsumerState
      /\ consumer'.localReader = consumer.localReader
      /\ consumer'.cachedWriter = consumer.cachedWriter
  BY <1>2, <1>3, FlushTypes DEF TypeOK, ConsumerState
<1>5. TypeOK'
  BY <1>1, <1>4 DEF FlushInv, TypeOK
<1>6. FlushTypeOK' /\ FlushersAre'
  BY <1>1 DEF FlushInv, FlushTypeOK, FlushersAre
<1>7. ItemsOnArc' /\ ReaderOrder' /\ WriterOrder' /\ WriterViews' /\ ProducersShows'
  BY <1>1, <1>4
     DEF FlushInv, ItemsOnArc, ReaderOrder, WriterOrder, WriterViews, ProducersShows,
         InOrder, CarriesOwnView, Ahead, Newest, Observed
<1> QED BY <1>5, <1>6, <1>7 DEF FlushInv

LEMMA ProducerPublishesWriterKeeps ==
    ASSUME FlushInv, ProducerPublishesWriter
    PROVE  FlushInv'
<1>1. /\ PublishWriter
      /\ producerFlush = "reader" /\ producerFlush' = "returned"
      /\ UNCHANGED <<buffer, reader, consumer, producerSees, consumerSees,
                     pushPc, item, pushOk, popPc, out, popOk,
                     flushers, consumerFlush, producerRead, consumerRead>>
  BY DEF ProducerPublishesWriter, producerVars, consumerVars
<1>2. /\ WriterOrder' /\ WriterViews'
      /\ Newest(writer').val = producer'.localWriter
      /\ writer' \in Seq(Stores) /\ writer' # <<>> /\ producer' \in ProducerState
      /\ producer'.localWriter = producer.localWriter
      /\ producer'.cachedReader = producer.cachedReader
  BY <1>1, PublishWriterKeeps
<1>3. TypeOK'
  BY <1>1, <1>2 DEF FlushInv, TypeOK
<1>4. FlushTypeOK' /\ FlushersAre'
  BY <1>1 DEF FlushInv, FlushTypeOK, FlushersAre
<1>5. ItemsOnArc' /\ ReaderOrder' /\ ProducersShows'
  BY <1>1, <1>2
     DEF FlushInv, ItemsOnArc, ReaderOrder, ProducersShows, InOrder, CarriesOwnView, Ahead,
         Newest
<1> QED BY <1>2, <1>3, <1>4, <1>5 DEF FlushInv

-----------------------------------------------------------------------------
(***************************************************************************)
(* flush() by the consumer.                                                *)
(***************************************************************************)
LEMMA ConsumerPublishesReaderKeeps ==
    ASSUME FlushInv, ConsumerPublishesReader
    PROVE  FlushInv'
<1>1. /\ PublishReader
      /\ "consumer" \in flushers /\ popPc = "idle"
      /\ consumerFlush = "none" /\ consumerFlush' = "reader"
      /\ UNCHANGED <<buffer, writer, producer, producerSees, consumerSees,
                     pushPc, item, pushOk, popPc, out, popOk,
                     flushers, producerFlush, producerRead, consumerRead>>
  BY DEF ConsumerPublishesReader, producerVars, consumerVars
<1>2. /\ ReaderOrder'
      /\ reader' \in Seq(Stores) /\ reader' # <<>> /\ consumer' \in ConsumerState
      /\ consumer'.localReader = consumer.localReader
      /\ consumer'.cachedWriter = consumer.cachedWriter
  BY <1>1, PublishReaderKeeps
<1>3. TypeOK'
  BY <1>1, <1>2 DEF FlushInv, TypeOK
<1>4. FlushTypeOK' /\ FlushersAre'
  BY <1>1 DEF FlushInv, FlushTypeOK, FlushersAre
<1>5. ItemsOnArc' /\ WriterOrder' /\ WriterViews' /\ ProducersShows'
  BY <1>1, <1>2
     DEF FlushInv, ItemsOnArc, WriterOrder, WriterViews, ProducersShows, InOrder,
         CarriesOwnView, Ahead, Newest, Observed
<1> QED BY <1>2, <1>3, <1>4, <1>5 DEF FlushInv

\* What the consumer reads is past what it has already loaded.
LEMMA ConsumerReadsWriterKeeps ==
    ASSUME FlushInv, ConsumerReadsWriter
    PROVE  FlushInv'
<1>1. /\ consumerFlush = "reader" /\ consumerFlush' = "read"
      /\ UNCHANGED <<buffer, writer, reader, producer, consumer, producerSees, consumerSees,
                     pushPc, item, pushOk, popPc, out, popOk,
                     flushers, producerFlush, producerRead>>
  BY DEF ConsumerReadsWriter, vars, cursors, producerVars, consumerVars
<1>2. /\ CarriesOwnView(writer)
      /\ Ahead(consumer.cachedWriter) <= Ahead(consumerSees)
      /\ Ahead(consumerSees) <= Ahead(producer.localWriter)
  BY <1>1 DEF FlushInv, WriterViews
<1>3. consumerRead' \in Arc(consumerSees, producer.localWriter)
  BY DEF ConsumerReadsWriter
<1>4. /\ consumerRead' \in Position
      /\ Ahead(consumerSees) <= Ahead(consumerRead')
      /\ Ahead(consumerRead') <= Ahead(producer.localWriter)
  BY <1>2, <1>3, FlushTypes, ArcBetween DEF Ahead
<1>5. Ahead(consumer.cachedWriter) <= Ahead(consumerRead')
  BY <1>2, <1>4, FlushTypes
<1>6. TypeOK'
  BY <1>1 DEF FlushInv, TypeOK
<1>7. FlushTypeOK' /\ FlushersAre'
  BY <1>1, <1>4 DEF FlushInv, FlushTypeOK, FlushersAre
<1>8. WriterOrder'
  BY <1>1, <1>4, <1>5 DEF FlushInv, WriterOrder, InOrder, Ahead, Newest, Observed
<1>9. ItemsOnArc' /\ ReaderOrder' /\ WriterViews' /\ ProducersShows'
  BY <1>1 DEF FlushInv, ItemsOnArc, ReaderOrder, WriterViews, ProducersShows, InOrder,
              CarriesOwnView, Ahead, Newest
<1> QED BY <1>6, <1>7, <1>8, <1>9 DEF FlushInv

LEMMA ConsumerStoresWriterKeeps ==
    ASSUME FlushInv, ConsumerStoresWriter
    PROVE  FlushInv'
<1> DEFINE s == [val |-> consumerRead, view |-> consumerSees]
<1>1. /\ consumerFlush = "read" /\ consumerFlush' = "stored"
      /\ writer' = <<s>>
      /\ UNCHANGED <<buffer, reader, producer, consumer, producerSees, consumerSees,
                     pushPc, item, pushOk, popPc, out, popOk,
                     flushers, producerFlush, producerRead, consumerRead>>
  BY DEF ConsumerStoresWriter, producerVars, consumerVars
<1>2. s \in Stores /\ s.val = consumerRead
  BY FlushTypes DEF Stores
<1>3. /\ writer' \in Seq(Stores) /\ writer' # <<>>
      /\ Observed(writer') = s /\ Newest(writer') = s
      /\ InOrder(writer', producer.cachedReader)
  BY <1>1, <1>2, FlushTypes, OneStore
<1>4. /\ Ahead(consumer.cachedWriter) <= Ahead(consumerRead)
      /\ Ahead(consumerRead) <= Ahead(producer.localWriter)
  BY <1>1 DEF FlushInv, WriterOrder
<1>5. WriterOrder'
  BY <1>1, <1>2, <1>3, <1>4 DEF WriterOrder, InOrder, Ahead, Newest, Observed
<1>6. TypeOK'
  BY <1>1, <1>3 DEF FlushInv, TypeOK
<1>7. FlushTypeOK' /\ FlushersAre'
  BY <1>1 DEF FlushInv, FlushTypeOK, FlushersAre
<1>8. ItemsOnArc' /\ ReaderOrder' /\ WriterViews' /\ ProducersShows'
  BY <1>1 DEF FlushInv, ItemsOnArc, ReaderOrder, WriterViews, ProducersShows, InOrder,
              CarriesOwnView, Ahead, Newest
<1> QED BY <1>5, <1>6, <1>7, <1>8 DEF FlushInv

LEMMA ConsumerWritesLastPublishedKeeps ==
    ASSUME FlushInv, ConsumerWritesLastPublished
    PROVE  FlushInv'
<1>1. /\ consumerFlush = "stored" /\ consumerFlush' = "returned"
      /\ UNCHANGED <<buffer, writer, reader, consumer, producerSees, consumerSees,
                     pushPc, item, pushOk, popPc, out, popOk,
                     flushers, producerFlush, producerRead, consumerRead>>
  BY DEF ConsumerWritesLastPublished, producerVars, consumerVars
<1>2. PICK v \in Arc(consumerSees, producer.localWriter) \cup {producer.lastPublished} :
          producer' = [producer EXCEPT !.lastPublished = v]
  BY DEF ConsumerWritesLastPublished
<1>3. v \in Position
  BY FlushTypes, CursorTypes, ArcBetween
<1>4. /\ producer' \in ProducerState
      /\ producer'.localWriter = producer.localWriter
      /\ producer'.cachedReader = producer.cachedReader
  BY <1>2, <1>3, FlushTypes DEF TypeOK, ProducerState
<1>5. TypeOK'
  BY <1>1, <1>4 DEF FlushInv, TypeOK
<1>6. FlushTypeOK' /\ FlushersAre'
  BY <1>1 DEF FlushInv, FlushTypeOK, FlushersAre
<1>7. ItemsOnArc' /\ ReaderOrder' /\ WriterOrder' /\ WriterViews' /\ ProducersShows'
  BY <1>1, <1>4
     DEF FlushInv, ItemsOnArc, ReaderOrder, WriterOrder, WriterViews, ProducersShows,
         InOrder, CarriesOwnView, Ahead, Newest, Observed
<1> QED BY <1>5, <1>6, <1>7 DEF FlushInv

-----------------------------------------------------------------------------
(***************************************************************************)
(* The invariant holds throughout.                                         *)
(***************************************************************************)
LEMMA FlushInitInv == FlushInit => FlushInv
<1> SUFFICES ASSUME FlushInit PROVE FlushInv
  OBVIOUS
<1>1. TypeOK /\ CursorOrder
  BY InitTypeOK, InitCursorOrder DEF FlushInit
<1>2. 0 \in Position
  BY OneIsPosition
<1>3. FlushTypeOK
  BY <1>2, FlushersAssumption DEF FlushInit, FlushTypeOK
<1>4. FlushersAre /\ ProducersShows
  BY DEF FlushInit, FlushersAre, ProducersShows
<1>5. ItemsOnArc
  BY <1>1, ItemsOnArcHolds
<1>6. /\ Newest(reader).val = 0 /\ consumer.localReader = 0
      /\ Newest(writer).val = 0 /\ producer.localWriter = 0
      /\ consumerFlush = "none"
  BY DEF FlushInit, Init, Newest
<1>7. Ahead(0) <= Ahead(0)
  BY <1>1, <1>2, AheadTypes
<1>8. ReaderOrder
  BY <1>1, <1>6, <1>7 DEF CursorOrder, ReaderOrder
<1>9. WriterOrder
  BY <1>1, <1>6, <1>7 DEF CursorOrder, WriterOrder
<1>10. WriterViews
  BY <1>1 DEF CursorOrder, WriterViews
<1> QED BY <1>1, <1>3, <1>4, <1>5, <1>8, <1>9, <1>10 DEF FlushInv

\* The steps of push, of pop and of the memory are those of FastqSPSC.
LEMMA FlushStepInv == FlushInv /\ [FlushNext]_allVars => FlushInv'
<1> SUFFICES ASSUME FlushInv, [FlushNext]_allVars PROVE FlushInv'
  OBVIOUS
<1>1. TypeOK
  BY DEF FlushInv
<1>2. CASE ProducerPushes
  <2>1. TypeOK'
    BY <1>1, <1>2, TypeStep DEF ProducerPushes, Next
  <2>2. CASE \E d \in Data : PushBegin(d)
    BY <1>2, <2>1, <2>2, PushBeginKeeps DEF ProducerPushes
  <2>3. CASE PushLoadReader
    BY <1>2, <2>1, <2>3, PushLoadKeeps DEF ProducerPushes
  <2>4. CASE PushWrite
    BY <1>2, <2>1, <2>4, PushWriteKeeps DEF ProducerPushes
  <2>5. CASE PushPublish
    BY <1>2, <2>1, <2>5, PushPublishKeeps DEF ProducerPushes
  <2> QED BY <1>2, <2>2, <2>3, <2>4, <2>5 DEF ProducerPushes, Push
<1>3. CASE ConsumerPops
  <2>1. TypeOK'
    BY <1>1, <1>3, TypeStep, ReadsUnorderedType DEF ConsumerPops, Next
  <2>2. CASE PopBegin
    BY <1>3, <2>1, <2>2, PopBeginKeeps DEF ConsumerPops
  <2>3. CASE PopLoadWriter
    BY <1>3, <2>1, <2>3, PopLoadKeeps DEF ConsumerPops
  <2>4. CASE PopRead \/ ReadsUnordered
    BY <1>3, <2>1, <2>4, PopReadKeeps DEF ConsumerPops
  <2>5. CASE PopPublish
    BY <1>3, <2>1, <2>5, PopPublishKeeps DEF ConsumerPops
  <2> QED BY <1>3, <2>2, <2>3, <2>4, <2>5 DEF ConsumerPops, Pop
<1>4. CASE Propagate
  <2>1. TypeOK'
    BY <1>1, <1>4, TypeStep DEF Propagate, Next
  <2> QED BY <1>4, <2>1, PropagateWriterKeeps, PropagateReaderKeeps DEF Propagate
<1>5. CASE ProducerFlushes
  BY <1>5, ProducerReadsReaderKeeps, ProducerStoresReaderKeeps,
     ProducerWritesLastPublishedKeeps, ProducerPublishesWriterKeeps DEF ProducerFlushes
<1>6. CASE ConsumerFlushes
  BY <1>6, ConsumerPublishesReaderKeeps, ConsumerReadsWriterKeeps,
     ConsumerStoresWriterKeeps, ConsumerWritesLastPublishedKeeps DEF ConsumerFlushes
<1>7. CASE UNCHANGED allVars
  <2>1. UNCHANGED <<buffer, writer, reader, producer, consumer, producerSees, consumerSees,
                    pushPc, item, pushOk, popPc, out, popOk, flushers, producerFlush,
                    consumerFlush, producerRead, consumerRead>>
    BY <1>7 DEF allVars, vars, cursors, producerVars, consumerVars, flushVars
  <2>2. TypeOK'
    BY <1>1, <2>1 DEF TypeOK
  <2>3. FlushTypeOK' /\ FlushersAre'
    BY <2>1 DEF FlushInv, FlushTypeOK, FlushersAre
  <2>4. ItemsOnArc' /\ ReaderOrder' /\ WriterOrder' /\ WriterViews' /\ ProducersShows'
    BY <2>1 DEF FlushInv, ItemsOnArc, ReaderOrder, WriterOrder, WriterViews,
                ProducersShows, InOrder, CarriesOwnView, Ahead, Newest, Observed
  <2> QED BY <2>2, <2>3, <2>4 DEF FlushInv
<1> QED BY <1>2, <1>3, <1>4, <1>5, <1>6, <1>7 DEF FlushNext

LEMMA FlushInvariant == FlushSpec => []FlushInv
  BY FlushInitInv, FlushStepInv, PTL DEF FlushSpec

-----------------------------------------------------------------------------
(***************************************************************************)
(* A flush() by the producer alone.                                        *)
(***************************************************************************)
LEMMA NoRaceWithoutConsumersFlush == FlushInv /\ consumerFlush = "none" => NoDataRace
<1> SUFFICES ASSUME FlushInv, consumerFlush = "none" PROVE NoDataRace
  OBVIOUS
<1> DEFINE lw == producer.localWriter
           lr == consumer.localReader
<1>1. \A p, q \in Position : Ahead(p) <= Ahead(q) => Sub(q, p) = Ahead(q) - Ahead(p)
  BY FlushTypes, Rebase DEF Ahead
<1>2. /\ Ahead(lw) \in Nat /\ Ahead(lr) \in Nat /\ Ahead(consumer.cachedWriter) \in Nat
      /\ Ahead(producerSees) \in Nat /\ Ahead(consumerSees) \in Nat
      /\ Capacity \in Nat
  BY FlushTypes, SizeTAssumption
<1>3. /\ Ahead(lr) <= Ahead(consumer.cachedWriter)
      /\ Ahead(consumer.cachedWriter) <= Ahead(lw)
      /\ Ahead(lw) <= Capacity
      /\ pushPc = "write" => Ahead(lw) < Capacity
      /\ popPc = "read" => lr # consumer.cachedWriter
  BY DEF FlushInv, ItemsOnArc
<1>4. popPc = "read" => Ahead(lr) < Ahead(consumer.cachedWriter)
  <2>1. Ahead(lr) = Ahead(consumer.cachedWriter) => lr = consumer.cachedWriter
    BY FlushTypes, AddSub DEF Ahead
  <2> QED BY <1>2, <1>3, <2>1
<1>5. ASSUME pushPc = "write" PROVE Sub(lw, producerSees) < Capacity
  <2>1. producerFlush = "none"
    BY <1>5 DEF FlushInv, FlushersAre
  <2>2. Ahead(producerSees) <= Ahead(lr)
    BY <2>1 DEF FlushInv, ReaderOrder
  <2>3. Sub(lw, producerSees) = Ahead(lw) - Ahead(producerSees)
    BY <1>1, <1>2, <1>3, <2>2, FlushTypes
  <2> QED BY <1>2, <1>3, <1>5, <2>3
<1>6. ASSUME popPc = "read" PROVE Sub(consumerSees, lr) \in 1 .. Capacity
  <2>1. /\ Ahead(consumer.cachedWriter) <= Ahead(consumerSees)
        /\ Ahead(consumerSees) <= Ahead(lw)
    BY DEF FlushInv, WriterViews
  <2>2. Sub(consumerSees, lr) = Ahead(consumerSees) - Ahead(lr)
    BY <1>1, <1>2, <1>3, <2>1, FlushTypes
  <2> QED BY <1>2, <1>3, <1>4, <1>6, <2>1, <2>2
<1>7. ASSUME pushPc = "write", popPc = "read" PROVE Slot(lw) # Slot(lr)
  <2>1. Sub(lw, lr) = Ahead(lw) - Ahead(lr)
    BY <1>1, <1>2, <1>3, FlushTypes
  <2>2. Sub(lw, lr) \in 1 .. Capacity - 1
    BY <1>2, <1>3, <1>4, <1>7, <2>1
  <2> QED BY <2>2, FlushTypes, SlotInjective
<1> QED BY <1>5, <1>6, <1>7 DEF NoDataRace

LEMMA FlushInvShows == FlushInv => ProducersFlushShowsAll
<1> SUFFICES ASSUME FlushInv, flushers = {"producer"}
             PROVE  FlushShowsAll /\ NoDataRace
  BY DEF ProducersFlushShowsAll
<1>1. consumerFlush = "none"
  BY DEF FlushInv, FlushersAre
<1>2. FlushShowsAll
  BY <1>1 DEF FlushInv, ProducersShows, FlushShowsAll
<1> QED BY <1>1, <1>2, NoRaceWithoutConsumersFlush

\* When the producer's flush() has returned the newest value of writer_ shows
\* every item, wherever the consumer was, and no item is read before it was
\* written, however far flush() has taken reader_ back.
THEOREM ProducersFlushShowsAllInvariant == FlushSpec => []ProducersFlushShowsAll
  BY FlushInvariant, FlushInvShows, PTL

-----------------------------------------------------------------------------
(***************************************************************************)
(* The FIFO order under any use of flush().                                *)
(***************************************************************************)
LEMMA FlushInitFifo == FlushInit => Fifo!Init
  BY InitImplements DEF FlushInit

LEMMA FlushStepFifo ==
    ASSUME FlushInv, FlushInv', [FlushNext]_allVars
    PROVE  /\ [\/ Fifo!Next
               \/ consumerFlush = "returned" /\ PushIsUnordered /\ TakesPlace]_(Fifo!vars)
           /\ consumerFlush = "none" => [Fifo!Next]_(Fifo!vars)
<1>1. TypeOK /\ TypeOK' /\ ItemsOnArc /\ ItemsOnArc'
  BY DEF FlushInv
<1>2. ASSUME UNCHANGED <<buffer, out>>,
             producer'.localWriter = producer.localWriter,
             consumer'.localReader = consumer.localReader
      PROVE  UNCHANGED Fifo!vars
  BY <1>2 DEF Fifo!vars, Items
<1>3. CASE PushWrite
  <2>1. item \in Data
    BY <1>1, <1>3 DEF PushWrite, TypeOK
  <2> QED BY <1>1, <1>3, <2>1, WriteAppends DEF Fifo!Next
<1>4. CASE PopRead
  BY <1>1, <1>4, ReadTakesFirst DEF Fifo!Next
<1>11. ASSUME ReadsUnordered, ConsumerPops
       PROVE  consumerFlush = "returned" /\ PushIsUnordered /\ TakesPlace
  <2>1. popPc = "read" /\ PushIsUnordered
    BY <1>11 DEF ReadsUnordered
  <2>2. consumerFlush # "none"
    BY <2>1, NoRaceWithoutConsumersFlush DEF NoDataRace, PushIsUnordered
  <2>3. consumerFlush = "returned"
    BY <1>11, <2>2 DEF ConsumerPops
  <2>4. /\ consumer'.localReader = Add(consumer.localReader, 1)
        /\ UNCHANGED <<producer, buffer>>
    BY <1>1, <1>11 DEF ReadsUnordered, TypeOK, ConsumerState
  <2>5. TakesPlace
    BY <1>1, <2>1, <2>4, ReadTakesPlace DEF TakesPlace
  <2> QED BY <2>1, <2>3, <2>5
<1> USE DEF cursors, producerVars, consumerVars
<1>5. CASE ProducerPushes
  <2>1. CASE \E d \in Data : PushBegin(d)
    BY <1>2, <2>1 DEF PushBegin
  <2>2. CASE PushLoadReader
    BY <1>1, <1>2, <2>2 DEF PushLoadReader, TypeOK, ProducerState
  <2>3. CASE PushPublish
    BY <1>1, <1>2, <2>3 DEF PushPublish, PublishWriter, TypeOK, ProducerState
  <2> QED BY <1>3, <1>5, <2>1, <2>2, <2>3 DEF ProducerPushes, Push
<1>6. CASE ConsumerPops
  <2>1. CASE PopBegin
    BY <1>2, <2>1 DEF PopBegin
  <2>2. CASE PopLoadWriter
    BY <1>1, <1>2, <2>2 DEF PopLoadWriter, TypeOK, ConsumerState
  <2>3. CASE PopPublish
    BY <1>1, <1>2, <2>3 DEF PopPublish, PublishReader, TypeOK, ConsumerState
  <2>4. CASE ReadsUnordered
    BY <1>6, <1>11, <2>4
  <2> QED BY <1>4, <1>6, <2>1, <2>2, <2>3, <2>4 DEF ConsumerPops, Pop
<1>7. CASE Propagate
  BY <1>2, <1>7 DEF Propagate, PropagateWriter, PropagateReader
<1>8. CASE ProducerFlushes
  <2>1. CASE ProducerReadsReader
    BY <1>2, <2>1 DEF ProducerReadsReader, vars
  <2>2. CASE ProducerStoresReader
    BY <1>2, <2>2 DEF ProducerStoresReader
  <2>3. CASE ProducerWritesLastPublished
    BY <1>1, <1>2, <2>3 DEF ProducerWritesLastPublished, TypeOK, ConsumerState
  <2>4. CASE ProducerPublishesWriter
    BY <1>1, <1>2, <2>4 DEF ProducerPublishesWriter, PublishWriter, TypeOK, ProducerState
  <2> QED BY <1>8, <2>1, <2>2, <2>3, <2>4 DEF ProducerFlushes
<1>9. CASE ConsumerFlushes
  <2>1. CASE ConsumerPublishesReader
    BY <1>1, <1>2, <2>1 DEF ConsumerPublishesReader, PublishReader, TypeOK, ConsumerState
  <2>2. CASE ConsumerReadsWriter
    BY <1>2, <2>2 DEF ConsumerReadsWriter, vars
  <2>3. CASE ConsumerStoresWriter
    BY <1>2, <2>3 DEF ConsumerStoresWriter
  <2>4. CASE ConsumerWritesLastPublished
    BY <1>1, <1>2, <2>4 DEF ConsumerWritesLastPublished, TypeOK, ProducerState
  <2> QED BY <1>9, <2>1, <2>2, <2>3, <2>4 DEF ConsumerFlushes
<1>10. CASE UNCHANGED allVars
  BY <1>2, <1>10 DEF allVars, vars
<1> QED BY <1>5, <1>6, <1>7, <1>8, <1>9, <1>10 DEF FlushNext

\* However flush() is used, by either thread or by both at once and wherever the
\* other is, the queue stays a bounded FIFO but for what a consumer gets that has
\* called flush() itself where nothing orders the push before its pop; such a pop
\* takes one place all the same.
THEOREM FlushImplementation == FlushSpec => FifoOfPlaces
  BY FlushInvariant, FlushInitFifo, FlushStepFifo, PTL DEF FlushSpec, FifoOfPlaces

\* Where the consumer does not call flush() it is exactly the bounded FIFO, whatever
\* the producer's flush() does in the middle of its calls: nothing is lost, doubled,
\* altered or reordered.
THEOREM ProducersFlushImplementation ==
    ASSUME \A f \in FlusherSets : "consumer" \notin f
    PROVE  FlushSpec => ImplementsFifo
<1>1. FlushInit => "consumer" \notin flushers
  BY DEF FlushInit
<1>2. ASSUME "consumer" \notin flushers, [FlushNext]_allVars
      PROVE  ("consumer" \notin flushers)'
  <2>1. UNCHANGED flushers
    BY <1>2 DEF FlushNext, ProducerPushes, ConsumerPops, Propagate, ProducerFlushes,
       ConsumerFlushes, ProducerReadsReader, ProducerStoresReader,
       ProducerWritesLastPublished, ProducerPublishesWriter, ConsumerPublishesReader,
       ConsumerReadsWriter, ConsumerStoresWriter, ConsumerWritesLastPublished,
       flushVars, allVars
  <2> QED BY <1>2, <2>1
<1>3. FlushInv /\ "consumer" \notin flushers => consumerFlush = "none"
  BY DEF FlushInv, FlushersAre
<1>4. ASSUME FlushInv, FlushInv', "consumer" \notin flushers, [FlushNext]_allVars
      PROVE  [Fifo!Next]_(Fifo!vars)
  BY <1>3, <1>4, FlushStepFifo
<1> QED BY <1>1, <1>2, <1>4, FlushInvariant, FlushInitFifo, PTL
        DEF FlushSpec, ImplementsFifo, Fifo!Spec
=============================================================================

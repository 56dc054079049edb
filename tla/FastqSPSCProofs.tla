-------------------------- MODULE FastqSPSCProofs --------------------------
(***************************************************************************)
(* Proofs about FastqSPSC for every capacity, batch size, word size and    *)
(* set of items, with and without stale loads.                             *)
(***************************************************************************)
EXTENDS FastqSPSC, SequenceTheorems, TLAPS

-----------------------------------------------------------------------------
(***************************************************************************)
(* The wrapping arithmetic of SizeT.                                       *)
(***************************************************************************)

\* Wrapping subtraction of two positions, without the modulus.
LEMMA SubCases ==
    ASSUME NEW a \in Position, NEW b \in Position
    PROVE  Sub(a, b) = IF b <= a THEN a - b ELSE a - b + Modulus
  BY SizeTAssumption DEF Position, Sub

\* A distance is a position.
LEMMA SubType ==
    ASSUME NEW a \in Position, NEW b \in Position
    PROVE  Sub(a, b) \in Position /\ Sub(a, b) \in Nat
  BY SizeTAssumption, SubCases DEF Position

\* The distance is zero exactly between equal positions.
LEMMA SubZero ==
    ASSUME NEW a \in Position, NEW b \in Position
    PROVE  Sub(a, b) = 0 <=> a = b
  BY SizeTAssumption, SubCases DEF Position

\* Wrapping increment, without the modulus (++localWriter_, ++localReader_).
LEMMA AddCases ==
    ASSUME NEW a \in Position, NEW n \in Position
    PROVE  Add(a, n) = IF a + n < Modulus THEN a + n ELSE a + n - Modulus
  BY SizeTAssumption DEF Position, Add

LEMMA AddType ==
    ASSUME NEW a \in Position, NEW n \in Position
    PROVE  Add(a, n) \in Position
  BY SizeTAssumption, AddCases DEF Position

\* One is a position, since at least two positions exist.
LEMMA OneIsPosition == 0 \in Position /\ 1 \in Position
  BY SizeTAssumption DEF Position

\* Measuring from a later base b takes b's own distance off every position
\* that is not before b.
LEMMA Rebase ==
    ASSUME NEW x \in Position, NEW a \in Position, NEW b \in Position,
           Sub(b, a) <= Sub(x, a)
    PROVE  Sub(x, b) = Sub(x, a) - Sub(b, a)
  BY SizeTAssumption, SubCases DEF Position

\* An increment adds one to a distance, short of a whole lap of size_t.
LEMMA SubIncrement ==
    ASSUME NEW x \in Position, NEW a \in Position,
           Sub(x, a) <= Capacity - 1
    PROVE  Sub(Add(x, 1), a) = Sub(x, a) + 1
<1> DEFINE y == Add(x, 1)
<1>1. y \in Position /\ y = IF x + 1 < Modulus THEN x + 1 ELSE x + 1 - Modulus
  BY AddCases, AddType, OneIsPosition
<1>2. Sub(y, a) = IF a <= y THEN y - a ELSE y - a + Modulus
  BY <1>1, SubCases
<1>3. Sub(x, a) = IF a <= x THEN x - a ELSE x - a + Modulus
  BY SubCases
<1> QED BY <1>1, <1>2, <1>3, SizeTAssumption DEF Position

\* Walking the distance from a leads to b.
LEMMA AddSub ==
    ASSUME NEW a \in Position, NEW b \in Position
    PROVE  Add(a, Sub(b, a)) = b
<1> DEFINE n == Sub(b, a)
<1>1. n \in Position /\ n = IF a <= b THEN b - a ELSE b - a + Modulus
  BY SubType, SubCases
<1>2. Add(a, n) = IF a + n < Modulus THEN a + n ELSE a + n - Modulus
  BY <1>1, AddCases
<1> QED BY <1>1, <1>2, SizeTAssumption DEF Position

\* Wrapping addition is associative with an increment.
LEMMA AddIncrement ==
    ASSUME NEW a \in Position, NEW n \in Position, n + 1 \in Position
    PROVE  Add(Add(a, 1), n) = Add(a, n + 1)
<1> DEFINE a1 == Add(a, 1)
<1>1. a1 \in Position /\ a1 = IF a + 1 < Modulus THEN a + 1 ELSE a + 1 - Modulus
  BY AddCases, AddType, OneIsPosition
<1>2. Add(a1, n) = IF a1 + n < Modulus THEN a1 + n ELSE a1 + n - Modulus
  BY <1>1, AddCases
<1>3. Add(a, n + 1) = IF a + (n + 1) < Modulus THEN a + (n + 1)
                      ELSE a + (n + 1) - Modulus
  BY AddCases
<1> QED BY <1>1, <1>2, <1>3, SizeTAssumption DEF Position

LEMMA SubAdd ==
    ASSUME NEW a \in Position, NEW n \in Position
    PROVE  Sub(Add(a, n), a) = n
<1> DEFINE b == Add(a, n)
<1>1. b \in Position /\ b = IF a + n < Modulus THEN a + n ELSE a + n - Modulus
  BY AddCases, AddType
<1>2. Sub(b, a) = IF a <= b THEN b - a ELSE b - a + Modulus
  BY <1>1, SubCases
<1> QED BY <1>1, <1>2, SizeTAssumption DEF Position

LEMMA SlotType ==
    ASSUME NEW p \in Position
    PROVE  Slot(p) \in Slots
  BY SizeTAssumption DEF Position, Slot, Slots

\* A positive multiple of the capacity is at least the capacity.
LEMMA MultipleBound ==
    ASSUME NEW q \in Int, NEW c \in Nat \ {0}, q >= 1
    PROVE  c * q >= c
  OBVIOUS

LEMMA Distribute ==
    ASSUME NEW c \in Int, NEW x \in Int, NEW y \in Int
    PROVE  /\ c * x - c * y = c * (x - y)
           /\ c * x + c * y = c * (x + y)
  OBVIOUS

\* Positions less than a lap of the ring apart have different slots, also when
\* the counter wraps between them: because Capacity divides Modulus.
LEMMA SlotInjective ==
    ASSUME NEW a \in Position, NEW b \in Position,
           Sub(b, a) \in 1 .. Capacity - 1
    PROVE  Slot(a) # Slot(b)
<1> DEFINE qa == a \div Capacity
           qb == b \div Capacity
           k == Modulus \div Capacity
<1>1. Capacity \in Nat \ {0} /\ a \in Int /\ b \in Int /\ Modulus \in Int
  BY SizeTAssumption DEF Position
<1>2. qa \in Int /\ qb \in Int /\ k \in Int
  BY <1>1
<1>3. a = Capacity * qa + Slot(a) /\ b = Capacity * qb + Slot(b)
  BY <1>1 DEF Slot
<1>4. Modulus = Capacity * k
  BY <1>1, SizeTAssumption
<1>5. SUFFICES ASSUME Slot(a) = Slot(b) PROVE FALSE
  OBVIOUS
<1>6. CASE a <= b
  <2>1. Sub(b, a) = b - a
    BY <1>6, SubCases
  <2>2. b - a = Capacity * (qb - qa)
    <3>1. Slot(a) \in Int
      BY <1>1, SlotType DEF Slots
    <3>2. Capacity * qa \in Int /\ Capacity * qb \in Int
      BY <1>1, <1>2
    <3>3. b - a = Capacity * qb - Capacity * qa
      BY <1>3, <1>5, <3>1, <3>2
    <3> QED BY <1>1, <1>2, <3>3, Distribute
  <2>3. qb - qa >= 1 => FALSE
    BY <1>1, <1>2, <2>1, <2>2, MultipleBound
  <2>4. qb - qa >= 1
    BY <1>1, <1>2, <2>1, <2>2
  <2> QED BY <2>3, <2>4
<1>7. CASE b < a
  <2>1. Sub(b, a) = b - a + Modulus
    BY <1>1, <1>7, SubCases
  <2>2. b - a + Modulus = Capacity * (qb - qa + k)
    <3>1. Slot(a) \in Int
      BY <1>1, SlotType DEF Slots
    <3>2. Capacity * qa \in Int /\ Capacity * qb \in Int /\ Capacity * k \in Int
      BY <1>1, <1>2
    <3>3. b - a = Capacity * qb - Capacity * qa
      BY <1>3, <1>5, <3>1, <3>2
    <3>4. b - a = Capacity * (qb - qa)
      BY <1>1, <1>2, <3>3, Distribute
    <3> QED BY <1>1, <1>2, <1>4, <3>4, Distribute
  <2>3. qb - qa + k >= 1 => FALSE
    BY <1>1, <1>2, <2>1, <2>2, MultipleBound
  <2>4. qb - qa + k >= 1
    BY <1>1, <1>2, <2>1, <2>2
  <2> QED BY <2>3, <2>4
<1> QED BY <1>1, <1>6, <1>7

-----------------------------------------------------------------------------
(***************************************************************************)
(* Stores to an atomic cursor.                                             *)
(***************************************************************************)

\* A cursor's newest and oldest observable stores are stores.
LEMMA LocationEnds ==
    ASSUME NEW loc \in Seq(Stores), loc # <<>>
    PROVE  /\ Len(loc) \in Nat \ {0}
           /\ Newest(loc) \in Stores
           /\ Observed(loc) = loc[1]
           /\ Observed(loc) \in Stores
           /\ \A i \in 1 .. Len(loc) : loc[i] \in Stores
  BY DEF Newest, Observed

\* A store is a record of two positions.
LEMMA StoresFields ==
    ASSUME NEW s \in Stores
    PROVE  s.val \in Position /\ s.view \in Position
  BY DEF Stores

\* Recording a store: it becomes the newest, and what was observable before is
\* still so or has been replaced by it.
LEMMA StoreRecorded ==
    ASSUME NEW loc \in Seq(Stores), loc # <<>>, NEW s \in Stores
    PROVE  /\ Store(loc, s) \in Seq(Stores)
           /\ Store(loc, s) # <<>>
           /\ Newest(Store(loc, s)) = s
           /\ Observed(Store(loc, s)) \in {Observed(loc), s}
           /\ \/ Store(loc, s) = loc
              \/ Store(loc, s) = Append(loc, s)
              \/ Store(loc, s) = <<s>>
  BY LocationEnds DEF Store, Newest, Observed

\* A store that is not behind the newest one keeps the stores in order.
LEMMA StoreKeepsOrder ==
    ASSUME NEW loc \in Seq(Stores), loc # <<>>, NEW s \in Stores,
           NEW base \in Position,
           InOrder(loc, base),
           Sub(Newest(loc).val, base) <= Sub(s.val, base)
    PROVE  InOrder(Store(loc, s), base)
<1> DEFINE new == Store(loc, s)
<1>1. Len(loc) \in Nat \ {0} /\ \A i \in 1 .. Len(loc) : loc[i] \in Stores
  BY LocationEnds
<1>2. \A r \in Stores : Sub(r.val, base) \in Nat
  BY StoresFields, SubType
<1>3. CASE new = loc
  BY <1>3
<1>4. CASE new = <<s>>
  BY <1>2, <1>4 DEF InOrder
<1>5. CASE new = Append(loc, s)
  <2> SUFFICES ASSUME NEW i \in 1 .. Len(new), NEW j \in 1 .. Len(new), i <= j
               PROVE  Sub(new[i].val, base) <= Sub(new[j].val, base)
    BY DEF InOrder
  <2>1. Len(new) = Len(loc) + 1 /\ new[Len(loc) + 1] = s
    BY <1>5
  <2>2. \A n \in 1 .. Len(loc) : new[n] = loc[n]
    BY <1>5
  <2>3. CASE j \in 1 .. Len(loc)
    BY <1>1, <2>2, <2>3 DEF InOrder
  <2>4. CASE j = Len(loc) + 1
    <3>1. CASE i = Len(loc) + 1
      BY <1>2, <2>1, <2>4, <3>1
    <3>2. CASE i \in 1 .. Len(loc)
      <4>1. Sub(loc[i].val, base) <= Sub(Newest(loc).val, base)
        BY <1>1, <3>2 DEF InOrder, Newest
      <4>2. Newest(loc) \in Stores /\ loc[i] \in Stores
        BY <1>1, <3>2, LocationEnds
      <4> QED BY <1>2, <2>1, <2>2, <2>4, <3>2, <4>1, <4>2
    <3> QED BY <1>1, <2>1, <3>1, <3>2
  <2> QED BY <1>1, <2>1, <2>3, <2>4
<1> QED BY <1>3, <1>4, <1>5, StoreRecorded

\* A store that carries its own view keeps that so for the whole cursor.
LEMMA StoreKeepsViews ==
    ASSUME NEW loc \in Seq(Stores), loc # <<>>, NEW p \in Position,
           CarriesOwnView(loc)
    PROVE  CarriesOwnView(Store(loc, [val |-> p, view |-> p]))
<1> DEFINE s == [val |-> p, view |-> p]
           new == Store(loc, s)
<1>1. s \in Stores /\ s.val = s.view
  BY DEF Stores
<1>2. CASE new = loc
  BY <1>2
<1>3. CASE new = <<s>>
  BY <1>1, <1>3 DEF CarriesOwnView
<1>4. CASE new = Append(loc, s)
  <2>1. Len(loc) \in Nat /\ Len(new) = Len(loc) + 1 /\ new[Len(loc) + 1] = s
    BY <1>1, <1>4
  <2>2. \A n \in 1 .. Len(loc) : new[n] = loc[n]
    BY <1>1, <1>4
  <2> QED BY <1>1, <2>1, <2>2 DEF CarriesOwnView
<1> QED BY <1>1, <1>2, <1>3, <1>4, StoreRecorded

\* Dropping the oldest store keeps order and views, and moves what is observed
\* to the next store.
LEMMA PropagateKeeps ==
    ASSUME NEW loc \in Seq(Stores), Len(loc) > 1
    PROVE  /\ Tail(loc) \in Seq(Stores)
           /\ Tail(loc) # <<>>
           /\ Newest(Tail(loc)) = Newest(loc)
           /\ Observed(Tail(loc)) = loc[2]
           /\ Len(Tail(loc)) = Len(loc) - 1
           /\ \A i \in 1 .. Len(loc) - 1 : Tail(loc)[i] = loc[i + 1]
<1>1. Len(loc) \in Nat /\ loc # <<>>
  OBVIOUS
<1>2. Tail(loc) \in Seq(Stores) /\ Len(Tail(loc)) = Len(loc) - 1
  BY <1>1
<1>3. \A i \in 1 .. Len(loc) - 1 : Tail(loc)[i] = loc[i + 1]
  BY <1>1
<1>4. Tail(loc) # <<>>
  <2>1. Len(<<>>) = 0
    OBVIOUS
  <2>2. Len(Tail(loc)) # 0
    BY <1>1, <1>2
  <2> QED BY <2>1, <2>2
<1>5. Newest(Tail(loc)) = Newest(loc)
  BY <1>1, <1>2, <1>3 DEF Newest
<1>6. Observed(Tail(loc)) = loc[2]
  BY <1>1, <1>2, <1>3, <1>4 DEF Observed
<1> QED BY <1>2, <1>3, <1>4, <1>5, <1>6

LEMMA PropagateKeepsOrder ==
    ASSUME NEW loc \in Seq(Stores), Len(loc) > 1, NEW base \in Position,
           InOrder(loc, base), CarriesOwnView(loc)
    PROVE  /\ InOrder(Tail(loc), base)
           /\ CarriesOwnView(Tail(loc))
           /\ Sub(Observed(loc).val, base) <= Sub(Observed(Tail(loc)).val, base)
<1>1. Len(loc) \in Nat /\ loc # <<>>
  OBVIOUS
<1>2. InOrder(Tail(loc), base)
  BY <1>1, PropagateKeeps DEF InOrder
<1>3. CarriesOwnView(Tail(loc))
  BY <1>1, PropagateKeeps DEF CarriesOwnView
<1>4. Observed(loc) = loc[1] /\ Observed(Tail(loc)) = loc[2]
  BY <1>1, PropagateKeeps, LocationEnds
<1>5. Sub(loc[1].val, base) <= Sub(loc[2].val, base)
  BY <1>1 DEF InOrder
<1> QED BY <1>2, <1>3, <1>4, <1>5

-----------------------------------------------------------------------------
(***************************************************************************)
(* Types.                                                                  *)
(***************************************************************************)
LEMMA InitTypeOK == Init => TypeOK
<1> SUFFICES ASSUME Init PROVE TypeOK
  OBVIOUS
<1>1. 0 \in Position
  BY OneIsPosition
<1>2. [val |-> 0, view |-> 0] \in Stores
  BY <1>1 DEF Stores
<1> QED BY <1>1, <1>2 DEF Init, TypeOK, ProducerState, ConsumerState, PushPcs, PopPcs

\* What the cursors' fields are, read off TypeOK.
LEMMA CursorTypes ==
    ASSUME TypeOK
    PROVE  /\ producer.localWriter \in Position
           /\ producer.cachedReader \in Position
           /\ producer.lastPublished \in Position
           /\ consumer.localReader \in Position
           /\ consumer.cachedWriter \in Position
           /\ consumer.lastPublished \in Position
           /\ Observed(reader).val \in Position
           /\ Observed(reader).view \in Position
           /\ Observed(writer).val \in Position
           /\ Observed(writer).view \in Position
  BY LocationEnds, StoresFields DEF TypeOK, ProducerState, ConsumerState

LEMMA TypeStep == TypeOK /\ [Next]_vars => TypeOK'
<1> SUFFICES ASSUME TypeOK, [Next]_vars PROVE TypeOK'
  OBVIOUS
<1> USE DEF cursors, producerVars, consumerVars
<1>1. ASSUME NEW d \in Data, PushBegin(d) PROVE TypeOK'
  BY <1>1 DEF PushBegin, TypeOK, PushPcs
<1>2. CASE PushLoadReader
  BY <1>2, CursorTypes DEF PushLoadReader, TypeOK, PushPcs, ProducerState
<1>3. CASE PushWrite
  <2>1. Add(producer.localWriter, 1) \in Position
    BY CursorTypes, AddType, OneIsPosition
  <2>2. producer' \in ProducerState
    BY <1>3, <2>1 DEF PushWrite, TypeOK, ProducerState
  <2>3. buffer' \in [Slots -> Data \cup {NoData}]
    BY <1>3 DEF PushWrite, TypeOK
  <2> QED BY <1>3, <2>2, <2>3 DEF PushWrite, TypeOK, PushPcs
<1>4. CASE PushPublish
  <2>1. [val |-> producer.localWriter, view |-> producer.localWriter] \in Stores
    BY CursorTypes DEF Stores
  <2>2. writer' \in Seq(Stores) /\ writer' # <<>>
    BY <1>4, <2>1, StoreRecorded DEF PushPublish, PublishWriter, TypeOK
  <2> QED BY <1>4, <2>2, CursorTypes
      DEF PushPublish, PublishWriter, TypeOK, PushPcs, ProducerState
<1>5. CASE PopBegin
  BY <1>5 DEF PopBegin, TypeOK, PopPcs
<1>6. CASE PopLoadWriter
  BY <1>6, CursorTypes DEF PopLoadWriter, TypeOK, PopPcs, ConsumerState
<1>7. CASE PopRead
  <2>1. Add(consumer.localReader, 1) \in Position
    BY CursorTypes, AddType, OneIsPosition
  <2>2. consumer' \in ConsumerState
    BY <1>7, <2>1 DEF PopRead, TypeOK, ConsumerState
  <2>3. out' \in Data \cup {NoData}
    BY <1>7, CursorTypes, SlotType DEF PopRead, TypeOK
  <2> QED BY <1>7, <2>2, <2>3 DEF PopRead, TypeOK, PopPcs
<1>8. CASE PopPublish
  <2>1. [val |-> consumer.localReader, view |-> consumer.localReader] \in Stores
    BY CursorTypes DEF Stores
  <2>2. reader' \in Seq(Stores) /\ reader' # <<>>
    BY <1>8, <2>1, StoreRecorded DEF PopPublish, PublishReader, TypeOK
  <2> QED BY <1>8, <2>2, CursorTypes
      DEF PopPublish, PublishReader, TypeOK, PopPcs, ConsumerState
<1>9. CASE Flush
  <2>1. /\ [val |-> producer.localWriter, view |-> producer.localWriter] \in Stores
        /\ [val |-> consumer.localReader, view |-> consumer.localReader] \in Stores
    BY CursorTypes DEF Stores
  <2> QED BY <1>9, <2>1, CursorTypes DEF Flush, TypeOK, ProducerState, ConsumerState
<1>10. CASE PropagateWriter
  BY <1>10, PropagateKeeps DEF PropagateWriter, TypeOK
<1>11. CASE PropagateReader
  BY <1>11, PropagateKeeps DEF PropagateReader, TypeOK
<1>12. CASE UNCHANGED vars
  BY <1>12 DEF vars, TypeOK
<1> QED BY <1>1, <1>2, <1>3, <1>4, <1>5, <1>6, <1>7, <1>8, <1>9, <1>10, <1>11, <1>12
    DEF Next, Push, Pop

\* Every reachable state is well typed.
THEOREM TypeCorrect == Spec => []TypeOK
  BY InitTypeOK, TypeStep, PTL DEF Spec

-----------------------------------------------------------------------------
(***************************************************************************)
(* The order of the cursors.                                               *)
(***************************************************************************)
LEMMA InitCursorOrder == Init => CursorOrder
<1> SUFFICES ASSUME Init PROVE CursorOrder
  OBVIOUS
<1>1. 0 \in Position /\ Sub(0, 0) = 0
  BY OneIsPosition, SubZero
<1>2. /\ Len(writer) = 1 /\ writer[1] = [val |-> 0, view |-> 0]
      /\ Len(reader) = 1 /\ reader[1] = [val |-> 0, view |-> 0]
      /\ Observed(writer) = writer[1]
  BY DEF Init, Observed
<1>3. Capacity \in Nat
  BY SizeTAssumption
<1> QED BY <1>1, <1>2, <1>3
    DEF Init, CursorOrder, InOrder, CarriesOwnView, Ahead, Newest

\* A longer distance from the same base is a later position.
LEMMA AheadTypes ==
    ASSUME TypeOK
    PROVE  \A p \in Position : Ahead(p) \in Nat
  BY CursorTypes, SubType DEF Ahead

LEMMA CursorOrderPushLoad ==
    ASSUME TypeOK, CursorOrder, PushLoadReader
    PROVE  CursorOrder'
<1> DEFINE old == producer.cachedReader
           new == Observed(reader).val
<1>1. /\ old \in Position /\ new \in Position
      /\ reader \in Seq(Stores) /\ reader # <<>>
      /\ writer \in Seq(Stores) /\ writer # <<>>
  BY CursorTypes DEF TypeOK
<1>2. /\ producer'.cachedReader = new
      /\ producer'.localWriter = producer.localWriter
      /\ producer'.lastPublished = producer.lastPublished
      /\ producerSees' = Observed(reader).view
      /\ UNCHANGED <<buffer, writer, reader, consumer, consumerSees, popPc>>
  BY DEF PushLoadReader, consumerVars, TypeOK, ProducerState
<1>3. Observed(reader) = reader[1] /\ Len(reader) \in Nat \ {0}
  BY <1>1, LocationEnds
<1>4. Observed(reader).view = new
  BY <1>3 DEF CursorOrder, CarriesOwnView
\* Nothing is before the store just loaded, except the view it replaces.
<1>5. \A i \in 1 .. Len(reader) : reader[i].val \in Position /\ Ahead(new) <= Ahead(reader[i].val)
  BY <1>1, <1>3, LocationEnds, StoresFields DEF CursorOrder, InOrder, Ahead
<1>6. Ahead(new) <= Ahead(consumer.lastPublished)
  BY <1>3, <1>5 DEF CursorOrder, Newest
<1>7. \A p \in Position : Ahead(p) \in Nat
  BY AheadTypes
<1>8. /\ Ahead(new) <= Ahead(consumer.localReader)
      /\ Ahead(new) <= Ahead(consumer.cachedWriter)
      /\ Ahead(new) <= Ahead(Observed(writer).val)
      /\ Ahead(new) <= Ahead(consumerSees)
  <2>1. /\ Ahead(new) \in Nat /\ Ahead(consumer.lastPublished) \in Nat
        /\ Ahead(consumer.localReader) \in Nat /\ Ahead(consumer.cachedWriter) \in Nat
        /\ Ahead(Observed(writer).val) \in Nat /\ Ahead(consumerSees) \in Nat
    BY <1>1, <1>7, CursorTypes DEF TypeOK
  <2>2. /\ Ahead(consumer.lastPublished) <= Ahead(consumer.localReader)
        /\ Ahead(consumer.localReader) <= Ahead(consumer.cachedWriter)
        /\ Ahead(consumer.cachedWriter) <= Ahead(Observed(writer).val)
        /\ Ahead(consumer.cachedWriter) <= Ahead(consumerSees)
    BY DEF CursorOrder
  <2> QED BY <1>6, <2>1, <2>2
<1>9. \A i \in 1 .. Len(writer) : writer[i].val \in Position /\ Ahead(new) <= Ahead(writer[i].val)
  <2>1. Observed(writer) = writer[1] /\ Len(writer) \in Nat \ {0}
    BY <1>1, LocationEnds
  <2>2. \A i \in 1 .. Len(writer) : writer[i].val \in Position
    BY <1>1, LocationEnds, StoresFields
  <2>3. \A i \in 1 .. Len(writer) : Ahead(writer[1].val) <= Ahead(writer[i].val)
    BY <2>1 DEF CursorOrder, InOrder, Ahead
  <2> QED BY <1>1, <1>7, <1>8, <2>1, <2>2, <2>3
<1>10. Ahead(new) <= Ahead(producer.lastPublished) /\ Ahead(new) <= Ahead(producer.localWriter)
  <2>1. Newest(writer).val = producer.lastPublished /\ Len(writer) \in Nat \ {0}
    BY <1>1, LocationEnds DEF CursorOrder
  <2>2. Ahead(new) <= Ahead(producer.lastPublished)
    BY <1>9, <2>1 DEF Newest
  <2> QED BY <1>1, <1>7, <2>2, CursorTypes DEF CursorOrder
\* Hence every distance shrinks by the same amount.
<1>11. \A p \in Position : Ahead(new) <= Ahead(p) => Ahead(p)' = Ahead(p) - Ahead(new)
  BY <1>1, <1>2, Rebase DEF Ahead
<1>12. InOrder(reader, new)
  BY <1>1, <1>2, <1>5, <1>7, <1>11 DEF CursorOrder, InOrder, Ahead
<1>13. InOrder(writer, new)
  BY <1>1, <1>2, <1>7, <1>9, <1>11 DEF CursorOrder, InOrder, Ahead
<1>14. Ahead(new)' = 0
  BY <1>1, <1>2, SubZero DEF Ahead
<1>15. pushPc' = "write" => Ahead(producer.localWriter)' < Capacity
  <2>1. Ahead(producer.localWriter)' = Ahead(producer.localWriter) - Ahead(new)
    BY <1>2, <1>10, <1>11, CursorTypes
  <2>2. Ahead(producer.localWriter)' <= Capacity
    BY <1>1, <1>7, <2>1, CursorTypes, SizeTAssumption DEF CursorOrder
  <2>3. pushPc' = "write" => Sub(producer'.localWriter, producer'.cachedReader) # Capacity
    BY DEF PushLoadReader, Full
  <2>4. Ahead(producer.localWriter)' = Sub(producer'.localWriter, producer'.cachedReader)
    BY DEF Ahead
  <2>5. Ahead(producer.localWriter)' \in Int
    BY <1>1, <1>7, <2>1, CursorTypes
  <2> QED BY <2>2, <2>3, <2>4, <2>5, SizeTAssumption
<1>16. /\ Ahead(consumer.lastPublished)' = Ahead(consumer.lastPublished) - Ahead(new)
       /\ Ahead(consumer.localReader)' = Ahead(consumer.localReader) - Ahead(new)
       /\ Ahead(consumer.cachedWriter)' = Ahead(consumer.cachedWriter) - Ahead(new)
       /\ Ahead(consumerSees)' = Ahead(consumerSees) - Ahead(new)
       /\ Ahead(Observed(writer).val)' = Ahead(Observed(writer).val) - Ahead(new)
       /\ Ahead(producer.lastPublished)' = Ahead(producer.lastPublished) - Ahead(new)
       /\ Ahead(producer.localWriter)' = Ahead(producer.localWriter) - Ahead(new)
       /\ Ahead(producerSees)' = 0
  <2>1. \A p \in Position : Ahead(new) <= Ahead(p) =>
            Sub(p, producer'.cachedReader) = Ahead(p) - Ahead(new)
    BY <1>11 DEF Ahead
  <2>2. Sub(new, producer'.cachedReader) = 0
    BY <1>1, <1>2, SubZero
  <2>3. consumerSees \in Position
    BY DEF TypeOK
  <2> QED BY <1>2, <1>4, <1>6, <1>8, <1>10, <2>1, <2>2, <2>3, CursorTypes DEF Ahead, Observed
<1>17. \A p \in {consumer.lastPublished, consumer.localReader, consumer.cachedWriter,
                  consumerSees, Observed(writer).val, producer.lastPublished,
                  producer.localWriter, new} : Ahead(p) \in Nat
  BY <1>1, <1>7, CursorTypes DEF TypeOK
<1>18. InOrder(reader, producer.cachedReader)' /\ InOrder(writer, producer.cachedReader)'
  BY <1>2, <1>12, <1>13 DEF InOrder
<1>19. CarriesOwnView(reader)' /\ CarriesOwnView(writer)'
  BY <1>2 DEF CursorOrder, CarriesOwnView
<1>20. /\ Newest(reader)'.val = consumer'.lastPublished
       /\ Newest(writer)'.val = producer'.lastPublished
  BY <1>2 DEF CursorOrder, Newest
<1>21. /\ Ahead(consumer.lastPublished)' <= Ahead(consumer.localReader)'
       /\ Ahead(consumer.localReader)' <= Ahead(consumer.cachedWriter)'
       /\ Ahead(consumer.cachedWriter)' <= Ahead(Observed(writer).val)'
       /\ Ahead(producer.lastPublished)' <= Ahead(producer.localWriter)'
       /\ Ahead(producer.localWriter)' <= Capacity
       /\ Ahead(consumer.cachedWriter)' <= Ahead(consumerSees)'
       /\ Ahead(consumerSees)' <= Ahead(producer.localWriter)'
       /\ Ahead(producerSees)' <= Ahead(consumer.localReader)'
  BY <1>8, <1>16, <1>17, SizeTAssumption DEF CursorOrder
<1>22. (popPc = "read" => consumer.localReader # consumer.cachedWriter)'
  BY <1>2 DEF CursorOrder
<1> QED
  BY <1>15, <1>18, <1>19, <1>20, <1>21, <1>22 DEF CursorOrder

LEMMA CursorOrderPushBegin ==
    ASSUME TypeOK, CursorOrder, NEW d \in Data, PushBegin(d)
    PROVE  CursorOrder'
<1>1. UNCHANGED <<cursors, popPc>>
  BY DEF PushBegin, consumerVars
<1>2. pushPc' = "write" => Ahead(producer.localWriter) # Capacity
  BY DEF PushBegin, Full, Ahead
<1>3. pushPc' = "write" => Ahead(producer.localWriter) < Capacity
  BY <1>2, AheadTypes, CursorTypes, SizeTAssumption DEF CursorOrder
<1> QED
  BY <1>1, <1>3 DEF cursors, CursorOrder, InOrder, CarriesOwnView, Ahead, Newest, Observed

LEMMA CursorOrderPushWrite ==
    ASSUME TypeOK, CursorOrder, PushWrite
    PROVE  CursorOrder'
<1>1. /\ pushPc = "write"
      /\ pushPc' # "write"
      /\ producer'.localWriter = Add(producer.localWriter, 1)
      /\ producer'.cachedReader = producer.cachedReader
      /\ producer'.lastPublished = producer.lastPublished
      /\ UNCHANGED <<writer, reader, consumer, producerSees, consumerSees, popPc>>
  BY DEF PushWrite, consumerVars, TypeOK, ProducerState
<1>2. Ahead(producer.localWriter) \in Nat /\ Ahead(producer.localWriter) < Capacity
  BY <1>1, AheadTypes, CursorTypes DEF CursorOrder
<1>3. Ahead(producer.localWriter)' = Ahead(producer.localWriter) + 1
  BY <1>1, <1>2, CursorTypes, SubIncrement, SizeTAssumption DEF Ahead
<1>4. /\ Ahead(producer.localWriter)' <= Capacity
      /\ Ahead(producer.lastPublished)' <= Ahead(producer.localWriter)'
      /\ Ahead(consumerSees)' <= Ahead(producer.localWriter)'
  <2>1. /\ Ahead(producer.lastPublished)' = Ahead(producer.lastPublished)
        /\ Ahead(consumerSees)' = Ahead(consumerSees)
    BY <1>1 DEF Ahead
  <2>2. Ahead(producer.lastPublished) \in Nat /\ Ahead(consumerSees) \in Nat
    BY AheadTypes, CursorTypes DEF TypeOK
  <2> QED BY <1>2, <1>3, <2>1, <2>2, SizeTAssumption DEF CursorOrder
<1> QED
  BY <1>1, <1>4 DEF CursorOrder, InOrder, CarriesOwnView, Ahead, Newest, Observed

LEMMA CursorOrderPushPublish ==
    ASSUME TypeOK, CursorOrder, PushPublish
    PROVE  CursorOrder'
<1> DEFINE s == [val |-> producer.localWriter, view |-> producer.localWriter]
           base == producer.cachedReader
<1>1. /\ pushPc' # "write"
      /\ writer' = Store(writer, s)
      /\ producer'.localWriter = producer.localWriter
      /\ producer'.cachedReader = base
      /\ producer'.lastPublished = producer.localWriter
      /\ UNCHANGED <<reader, consumer, producerSees, consumerSees, popPc>>
  BY DEF PushPublish, PublishWriter, consumerVars, TypeOK, ProducerState
<1>2. /\ writer \in Seq(Stores) /\ writer # <<>> /\ s \in Stores
      /\ base \in Position
  BY CursorTypes DEF TypeOK, Stores
<1>3. Newest(writer') = s /\ Observed(writer') \in {Observed(writer), s}
  BY <1>1, <1>2, StoreRecorded
<1>4. InOrder(writer', base)
  BY <1>1, <1>2, StoreKeepsOrder DEF CursorOrder, Ahead
<1>5. CarriesOwnView(writer')
  BY <1>1, <1>2, CursorTypes, StoreKeepsViews DEF CursorOrder
<1>6. Ahead(consumer.cachedWriter) <= Ahead(Observed(writer').val)
  <2>1. CASE Observed(writer') = Observed(writer)
    BY <2>1 DEF CursorOrder
  <2>2. CASE Observed(writer') = s
    <3>1. /\ Ahead(consumer.cachedWriter) \in Nat
          /\ Ahead(consumerSees) \in Nat
          /\ Ahead(producer.localWriter) \in Nat
      BY AheadTypes, CursorTypes DEF TypeOK
    <3> QED BY <2>2, <3>1 DEF CursorOrder
  <2> QED BY <1>3, <2>1, <2>2
<1>7. Ahead(producer.localWriter) \in Nat
  BY AheadTypes, CursorTypes
<1> QED
  BY <1>1, <1>3, <1>4, <1>5, <1>6, <1>7
     DEF CursorOrder, InOrder, CarriesOwnView, Ahead, Newest, Observed

LEMMA CursorOrderPopBegin ==
    ASSUME TypeOK, CursorOrder, PopBegin
    PROVE  CursorOrder'
<1>1. UNCHANGED <<cursors, pushPc>>
  BY DEF PopBegin, producerVars
<1>2. popPc' = "read" => consumer.localReader # consumer.cachedWriter
  BY DEF PopBegin, Empty
<1> QED
  BY <1>1, <1>2 DEF cursors, CursorOrder, InOrder, CarriesOwnView, Ahead, Newest, Observed

LEMMA CursorOrderPopLoad ==
    ASSUME TypeOK, CursorOrder, PopLoadWriter
    PROVE  CursorOrder'
<1> DEFINE seen == Observed(writer).val
<1>1. /\ consumer'.cachedWriter = seen
      /\ consumer'.localReader = consumer.localReader
      /\ consumer'.lastPublished = consumer.lastPublished
      /\ consumerSees' = Observed(writer).view
      /\ popPc' = "read" => consumer'.localReader # consumer'.cachedWriter
      /\ UNCHANGED <<writer, reader, producer, producerSees, pushPc>>
  BY DEF PopLoadWriter, producerVars, Empty, TypeOK, ConsumerState
<1>2. writer \in Seq(Stores) /\ writer # <<>>
  BY DEF TypeOK
<1>3. Observed(writer) = writer[1] /\ Len(writer) \in Nat \ {0}
  BY <1>2, LocationEnds
<1>4. consumerSees' = seen
  BY <1>1, <1>3 DEF CursorOrder, CarriesOwnView
<1>5. Ahead(seen) <= Ahead(producer.lastPublished)
  BY <1>3 DEF CursorOrder, InOrder, Ahead, Newest
<1>6. /\ Ahead(seen) \in Nat
      /\ Ahead(consumer.localReader) \in Nat
      /\ Ahead(consumer.cachedWriter) \in Nat
      /\ Ahead(producer.lastPublished) \in Nat
      /\ Ahead(producer.localWriter) \in Nat
  BY AheadTypes, CursorTypes
<1>7. /\ Ahead(consumer.localReader) <= Ahead(seen)
      /\ Ahead(seen) <= Ahead(producer.localWriter)
      /\ Ahead(seen) <= Ahead(seen)
  BY <1>5, <1>6 DEF CursorOrder
<1> QED
  BY <1>1, <1>4, <1>7 DEF CursorOrder, InOrder, CarriesOwnView, Ahead, Newest, Observed

\* What pop is about to read has been published: the consumer's cursor is
\* strictly behind its copy of the producer's.
LEMMA ReadBelowCachedWriter ==
    ASSUME TypeOK, CursorOrder, popPc = "read"
    PROVE  Ahead(consumer.localReader) < Ahead(consumer.cachedWriter)
<1>1. consumer.localReader # consumer.cachedWriter
  BY DEF CursorOrder
<1>2. Ahead(consumer.localReader) <= Ahead(consumer.cachedWriter)
  BY DEF CursorOrder
<1>3. Ahead(consumer.localReader) # Ahead(consumer.cachedWriter)
  BY <1>1, CursorTypes, AddSub DEF Ahead
<1> QED BY <1>2, <1>3, AheadTypes, CursorTypes

LEMMA CursorOrderPopRead ==
    ASSUME TypeOK, CursorOrder, PopRead
    PROVE  CursorOrder'
<1>1. /\ popPc = "read"
      /\ popPc' # "read"
      /\ consumer'.localReader = Add(consumer.localReader, 1)
      /\ consumer'.cachedWriter = consumer.cachedWriter
      /\ consumer'.lastPublished = consumer.lastPublished
      /\ UNCHANGED <<writer, reader, producer, producerSees, consumerSees, pushPc>>
  BY DEF PopRead, producerVars, TypeOK, ConsumerState
<1>2. /\ Ahead(consumer.localReader) \in Nat
      /\ Ahead(consumer.cachedWriter) \in Nat
      /\ Ahead(consumer.lastPublished) \in Nat
      /\ Ahead(consumerSees) \in Nat
      /\ Ahead(producerSees) \in Nat
      /\ Ahead(producer.localWriter) \in Nat
  BY AheadTypes, CursorTypes DEF TypeOK
<1>3. Ahead(consumer.localReader) < Ahead(consumer.cachedWriter)
  BY <1>1, ReadBelowCachedWriter
<1>4. Ahead(consumer.localReader) <= Capacity - 1
  BY <1>2, <1>3, SizeTAssumption DEF CursorOrder
<1>5. Ahead(consumer.localReader)' = Ahead(consumer.localReader) + 1
  BY <1>1, <1>4, CursorTypes, SubIncrement DEF Ahead
<1>6. /\ Ahead(consumer.lastPublished) <= Ahead(consumer.localReader)'
      /\ Ahead(consumer.localReader)' <= Ahead(consumer.cachedWriter)
      /\ Ahead(producerSees) <= Ahead(consumer.localReader)'
  BY <1>2, <1>3, <1>5 DEF CursorOrder
<1> QED
  BY <1>1, <1>6 DEF CursorOrder, InOrder, CarriesOwnView, Ahead, Newest, Observed

LEMMA CursorOrderPopPublish ==
    ASSUME TypeOK, CursorOrder, PopPublish
    PROVE  CursorOrder'
<1> DEFINE s == [val |-> consumer.localReader, view |-> consumer.localReader]
           base == producer.cachedReader
<1>1. /\ popPc' # "read"
      /\ reader' = Store(reader, s)
      /\ consumer'.localReader = consumer.localReader
      /\ consumer'.cachedWriter = consumer.cachedWriter
      /\ consumer'.lastPublished = consumer.localReader
      /\ UNCHANGED <<writer, producer, producerSees, consumerSees, pushPc>>
  BY DEF PopPublish, PublishReader, producerVars, TypeOK, ConsumerState
<1>2. /\ reader \in Seq(Stores) /\ reader # <<>> /\ s \in Stores
      /\ base \in Position
  BY CursorTypes DEF TypeOK, Stores
<1>3. Newest(reader') = s
  BY <1>1, <1>2, StoreRecorded
<1>4. InOrder(reader', base)
  BY <1>1, <1>2, StoreKeepsOrder DEF CursorOrder, Ahead
<1>5. CarriesOwnView(reader')
  BY <1>1, <1>2, CursorTypes, StoreKeepsViews DEF CursorOrder
<1>6. Ahead(consumer.localReader) \in Nat
  BY AheadTypes, CursorTypes
<1> QED
  BY <1>1, <1>3, <1>4, <1>5, <1>6
     DEF CursorOrder, InOrder, CarriesOwnView, Ahead, Newest, Observed

LEMMA CursorOrderFlush ==
    ASSUME TypeOK, CursorOrder, Flush
    PROVE  CursorOrder'
<1> DEFINE w == [val |-> producer.localWriter, view |-> producer.localWriter]
           r == [val |-> consumer.localReader, view |-> consumer.localReader]
<1>1. /\ pushPc' = "idle" /\ popPc' = "idle"
      /\ writer' = <<w>> /\ reader' = <<r>>
      /\ producer'.localWriter = producer.localWriter
      /\ producer'.cachedReader = producer.cachedReader
      /\ producer'.lastPublished = producer.localWriter
      /\ consumer'.localReader = consumer.localReader
      /\ consumer'.cachedWriter = consumer.cachedWriter
      /\ consumer'.lastPublished = consumer.localReader
      /\ producerSees' = consumer.localReader
      /\ consumerSees' = producer.localWriter
  BY DEF Flush, producerVars, consumerVars, TypeOK, ProducerState, ConsumerState
<1>2. /\ Len(writer') = 1 /\ writer'[1] = w /\ Observed(writer') = w /\ Newest(writer') = w
      /\ Len(reader') = 1 /\ reader'[1] = r /\ Newest(reader') = r
  BY <1>1 DEF Newest, Observed
<1>3. /\ Ahead(producer.localWriter) \in Nat
      /\ Ahead(consumer.localReader) \in Nat
      /\ Ahead(consumer.cachedWriter) \in Nat
      /\ Ahead(consumerSees) \in Nat
  BY AheadTypes, CursorTypes DEF TypeOK
<1>4. Ahead(consumer.cachedWriter) <= Ahead(producer.localWriter)
  BY <1>3 DEF CursorOrder
<1>5. InOrder(writer, producer.cachedReader)' /\ InOrder(reader, producer.cachedReader)'
  BY <1>1, <1>2, <1>3 DEF InOrder, Ahead
<1>6. CarriesOwnView(writer)' /\ CarriesOwnView(reader)'
  BY <1>2 DEF CarriesOwnView
<1> QED
  BY <1>1, <1>2, <1>3, <1>4, <1>5, <1>6 DEF CursorOrder, Ahead

LEMMA CursorOrderPropagateWriter ==
    ASSUME TypeOK, CursorOrder, PropagateWriter
    PROVE  CursorOrder'
<1>1. /\ Len(writer) > 1
      /\ writer' = Tail(writer)
      /\ UNCHANGED <<reader, producer, consumer, producerSees, consumerSees, pushPc, popPc>>
  BY DEF PropagateWriter, producerVars, consumerVars
<1>2. writer \in Seq(Stores) /\ producer.cachedReader \in Position
  BY CursorTypes DEF TypeOK
<1>3. /\ InOrder(writer', producer.cachedReader)
      /\ CarriesOwnView(writer')
      /\ Ahead(Observed(writer).val) <= Ahead(Observed(writer').val)
  BY <1>1, <1>2, PropagateKeepsOrder DEF CursorOrder, Ahead
<1>4. Newest(writer') = Newest(writer) /\ writer' \in Seq(Stores) /\ writer' # <<>>
  BY <1>1, <1>2, PropagateKeeps
<1>5. /\ Ahead(Observed(writer).val) \in Nat
      /\ Ahead(Observed(writer').val) \in Nat
      /\ Ahead(consumer.cachedWriter) \in Nat
  BY <1>4, AheadTypes, CursorTypes, LocationEnds, StoresFields
<1>6. Ahead(consumer.cachedWriter) <= Ahead(Observed(writer').val)
  BY <1>3, <1>5 DEF CursorOrder
<1> QED
  BY <1>1, <1>3, <1>4, <1>6 DEF CursorOrder, InOrder, CarriesOwnView, Ahead, Newest, Observed

LEMMA CursorOrderPropagateReader ==
    ASSUME TypeOK, CursorOrder, PropagateReader
    PROVE  CursorOrder'
<1>1. /\ Len(reader) > 1
      /\ reader' = Tail(reader)
      /\ UNCHANGED <<writer, producer, consumer, producerSees, consumerSees, pushPc, popPc>>
  BY DEF PropagateReader, producerVars, consumerVars
<1>2. reader \in Seq(Stores) /\ producer.cachedReader \in Position
  BY CursorTypes DEF TypeOK
<1>3. InOrder(reader', producer.cachedReader) /\ CarriesOwnView(reader')
  BY <1>1, <1>2, PropagateKeepsOrder DEF CursorOrder
<1>4. Newest(reader') = Newest(reader)
  BY <1>1, <1>2, PropagateKeeps
<1> QED
  BY <1>1, <1>3, <1>4 DEF CursorOrder, InOrder, CarriesOwnView, Ahead, Newest, Observed

LEMMA CursorOrderStep == TypeOK /\ CursorOrder /\ [Next]_vars => CursorOrder'
<1> SUFFICES ASSUME TypeOK, CursorOrder, [Next]_vars PROVE CursorOrder'
  OBVIOUS
<1>1. CASE UNCHANGED vars
  BY <1>1 DEF vars, cursors, producerVars, consumerVars,
              CursorOrder, InOrder, CarriesOwnView, Ahead, Newest, Observed
<1>2. CASE Push
  BY <1>2, CursorOrderPushBegin, CursorOrderPushLoad, CursorOrderPushWrite,
     CursorOrderPushPublish DEF Push
<1>3. CASE Pop
  BY <1>3, CursorOrderPopBegin, CursorOrderPopLoad, CursorOrderPopRead,
     CursorOrderPopPublish DEF Pop
<1> QED
  BY <1>1, <1>2, <1>3, CursorOrderFlush, CursorOrderPropagateWriter,
     CursorOrderPropagateReader DEF Next

\* No cursor, cached copy, view or store in flight is ever out of order or more
\* than a ring ahead of another, whatever the capacity, batch and word size.
THEOREM CursorOrderInvariant == Spec => []CursorOrder
  BY InitTypeOK, TypeStep, InitCursorOrder, CursorOrderStep, PTL DEF Spec

-----------------------------------------------------------------------------
(***************************************************************************)
(* What follows from the order of the cursors.                             *)
(***************************************************************************)

\* The distances the safety properties speak of, as differences on one arc.
LEMMA Distances ==
    ASSUME TypeOK, CursorOrder
    PROVE  /\ \A p \in Position : Ahead(p) \in Nat
           /\ \A p, q \in Position :
                  Ahead(p) <= Ahead(q) => Sub(q, p) = Ahead(q) - Ahead(p)
           /\ \A p, q \in Position : Ahead(p) = Ahead(q) => p = q
<1>1. producer.cachedReader \in Position
  BY CursorTypes
<1>2. \A p \in Position : Ahead(p) \in Nat
  BY AheadTypes
<1>3. \A p, q \in Position : Ahead(p) <= Ahead(q) => Sub(q, p) = Ahead(q) - Ahead(p)
  BY <1>1, Rebase DEF Ahead
<1>4. ASSUME NEW p \in Position, NEW q \in Position, Ahead(p) = Ahead(q)
      PROVE  p = q
  BY <1>1, <1>4, AddSub DEF Ahead
<1> QED BY <1>2, <1>3, <1>4

LEMMA NoDataRaceHolds == TypeOK /\ CursorOrder => NoDataRace
<1> SUFFICES ASSUME TypeOK, CursorOrder PROVE NoDataRace
  OBVIOUS
<1> DEFINE lw == producer.localWriter
           lr == consumer.localReader
<1>1. /\ lw \in Position /\ lr \in Position /\ consumer.cachedWriter \in Position
      /\ producerSees \in Position /\ consumerSees \in Position
  BY CursorTypes DEF TypeOK
<1>2. /\ Ahead(lw) \in Nat /\ Ahead(lr) \in Nat /\ Ahead(consumer.cachedWriter) \in Nat
      /\ Ahead(producerSees) \in Nat /\ Ahead(consumerSees) \in Nat
  BY <1>1, Distances
<1>3. /\ Ahead(producerSees) <= Ahead(lr)
      /\ Ahead(lr) <= Ahead(consumer.cachedWriter)
      /\ Ahead(consumer.cachedWriter) <= Ahead(consumerSees)
      /\ Ahead(consumerSees) <= Ahead(lw)
      /\ Ahead(lw) <= Capacity
  BY DEF CursorOrder
<1>4. Capacity \in Nat
  BY SizeTAssumption
<1>5. ASSUME pushPc = "write" PROVE Sub(lw, producerSees) < Capacity
  <2>1. Sub(lw, producerSees) = Ahead(lw) - Ahead(producerSees)
    BY <1>1, <1>2, <1>3, Distances
  <2>2. Ahead(lw) < Capacity
    BY <1>5 DEF CursorOrder
  <2> QED BY <1>2, <1>4, <2>1, <2>2
<1>6. ASSUME popPc = "read" PROVE Sub(consumerSees, lr) \in 1 .. Capacity
  <2>1. Sub(consumerSees, lr) = Ahead(consumerSees) - Ahead(lr)
    BY <1>1, <1>2, <1>3, Distances
  <2>2. Ahead(lr) < Ahead(consumer.cachedWriter)
    BY <1>6, ReadBelowCachedWriter
  <2> QED BY <1>2, <1>3, <1>4, <2>1, <2>2
<1>7. ASSUME pushPc = "write", popPc = "read" PROVE Slot(lw) # Slot(lr)
  <2>1. Sub(lw, lr) = Ahead(lw) - Ahead(lr)
    BY <1>1, <1>2, <1>3, Distances
  <2>2. Ahead(lr) < Ahead(consumer.cachedWriter)
    BY <1>7, ReadBelowCachedWriter
  <2>3. Ahead(lw) < Capacity
    BY <1>7 DEF CursorOrder
  <2>4. Sub(lw, lr) \in 1 .. Capacity - 1
    BY <1>2, <1>3, <1>4, <2>1, <2>2, <2>3
  <2> QED BY <1>1, <2>4, SlotInjective
<1> QED BY <1>5, <1>6, <1>7 DEF NoDataRace

\* The published cursors lie between the threads' own, in this order.
LEMMA PublishedOrder ==
    ASSUME TypeOK, CursorOrder
    PROVE  /\ Newest(reader).val \in Position /\ Newest(writer).val \in Position
           /\ Ahead(Observed(reader).val) <= Ahead(Newest(reader).val)
           /\ Ahead(Newest(reader).val) <= Ahead(consumer.localReader)
           /\ Ahead(consumer.localReader) <= Ahead(Observed(writer).val)
           /\ Ahead(Observed(writer).val) <= Ahead(Newest(writer).val)
           /\ Ahead(Newest(writer).val) <= Capacity
<1>1. /\ reader \in Seq(Stores) /\ reader # <<>>
      /\ writer \in Seq(Stores) /\ writer # <<>>
  BY DEF TypeOK
<1>2. /\ Observed(reader) = reader[1] /\ Len(reader) \in Nat \ {0}
      /\ Observed(writer) = writer[1] /\ Len(writer) \in Nat \ {0}
  BY <1>1, LocationEnds
<1>3. Newest(reader).val = consumer.lastPublished /\ Newest(writer).val = producer.lastPublished
  BY DEF CursorOrder
<1>4. /\ Ahead(Observed(reader).val) <= Ahead(Newest(reader).val)
      /\ Ahead(Observed(writer).val) <= Ahead(Newest(writer).val)
  BY <1>2 DEF CursorOrder, InOrder, Ahead, Newest
<1>5. /\ Ahead(consumer.localReader) \in Nat
      /\ Ahead(consumer.cachedWriter) \in Nat
      /\ Ahead(Observed(writer).val) \in Nat
      /\ Ahead(producer.lastPublished) \in Nat
      /\ Ahead(producer.localWriter) \in Nat
  BY AheadTypes, CursorTypes
<1> QED BY <1>3, <1>4, <1>5, CursorTypes, SizeTAssumption DEF CursorOrder

LEMMA SizeInRangeHolds == TypeOK /\ CursorOrder => SizeInRange
<1> SUFFICES ASSUME TypeOK, CursorOrder PROVE SizeInRange
  OBVIOUS
<1> DEFINE nr == Newest(reader).val
           or == Observed(reader).val
           nw == Newest(writer).val
           ow == Observed(writer).val
<1>1. nr \in Position /\ or \in Position /\ nw \in Position /\ ow \in Position
  BY PublishedOrder, CursorTypes
<1>2. Ahead(nr) \in Nat /\ Ahead(or) \in Nat /\ Ahead(nw) \in Nat /\ Ahead(ow) \in Nat
  BY <1>1, Distances
<1>3. /\ Ahead(consumer.localReader) \in Nat /\ Capacity \in Nat
  BY AheadTypes, CursorTypes, SizeTAssumption
<1>4. Ahead(or) <= Ahead(nw) /\ Ahead(nr) <= Ahead(ow) /\ Ahead(nw) <= Capacity
      /\ Ahead(ow) <= Capacity
  BY <1>2, <1>3, PublishedOrder
<1>5. Sub(nw, or) = Ahead(nw) - Ahead(or) /\ Sub(ow, nr) = Ahead(ow) - Ahead(nr)
  BY <1>1, <1>4, Distances
<1> QED BY <1>2, <1>3, <1>4, <1>5 DEF SizeInRange, ProducerSize, ConsumerSize

LEMMA EmptyIsHonestHolds == TypeOK /\ CursorOrder => EmptyIsHonest
<1> SUFFICES ASSUME TypeOK, CursorOrder PROVE EmptyIsHonest
  OBVIOUS
<1> DEFINE lr == consumer.localReader
           nr == Newest(reader).val
           or == Observed(reader).val
           nw == Newest(writer).val
           ow == Observed(writer).val
<1>1. /\ nr \in Position /\ or \in Position /\ nw \in Position /\ ow \in Position
      /\ lr \in Position
  BY PublishedOrder, CursorTypes
<1>2. /\ Ahead(nr) \in Nat /\ Ahead(or) \in Nat /\ Ahead(nw) \in Nat /\ Ahead(ow) \in Nat
      /\ Ahead(lr) \in Nat
  BY <1>1, Distances
<1>3. /\ Ahead(or) <= Ahead(nr) /\ Ahead(nr) <= Ahead(lr) /\ Ahead(lr) <= Ahead(ow)
      /\ Ahead(ow) <= Ahead(nw)
  BY PublishedOrder
<1>4. ASSUME nw = or PROVE lr = nw
  <2>1. Ahead(lr) = Ahead(nw)
    BY <1>2, <1>3, <1>4
  <2> QED BY <1>1, <2>1, Distances
<1>5. ASSUME ow = nr PROVE lr = ow
  <2>1. Ahead(lr) = Ahead(ow)
    BY <1>2, <1>3, <1>5
  <2> QED BY <1>1, <2>1, Distances
<1> QED BY <1>4, <1>5 DEF EmptyIsHonest, ProducerEmpty, ConsumerEmpty

\* No slot is overwritten before the pop that emptied it is ordered before the
\* push, none is read before the push that filled it is ordered before the pop.
THEOREM NoDataRaceInvariant == Spec => []NoDataRace
  BY TypeCorrect, CursorOrderInvariant, NoDataRaceHolds, PTL

\* size() never reports more than the capacity to either thread.
THEOREM SizeInRangeInvariant == Spec => []SizeInRange
  BY TypeCorrect, CursorOrderInvariant, SizeInRangeHolds, PTL

\* empty() never hides an item its caller could have popped or knows published.
THEOREM EmptyIsHonestInvariant == Spec => []EmptyIsHonest
  BY TypeCorrect, CursorOrderInvariant, EmptyIsHonestHolds, PTL

-----------------------------------------------------------------------------
(***************************************************************************)
(* How far publication lags.  The newest store to a cursor is what its     *)
(* owner last published, so the lag is what the owner itself counts.       *)
(***************************************************************************)
ProducerLag ==
    LET hidden == Sub(producer.localWriter, producer.lastPublished)
    IN  /\ pushPc = "idle" => hidden < PublishBatch \/ hidden = 0
        /\ pushPc = "idle" /\ ~pushOk => hidden = 0

ConsumerLag ==
    LET unreported == Sub(consumer.localReader, consumer.lastPublished)
    IN  /\ popPc = "idle" => unreported < PublishBatch \/ unreported = 0
        /\ popPc = "idle" /\ ~popOk => unreported = 0

LEMMA InitLag == Init => ProducerLag /\ ConsumerLag
  BY OneIsPosition, SubZero DEF Init, ProducerLag, ConsumerLag

LEMMA ProducerLagStep == TypeOK /\ ProducerLag /\ [Next]_vars => ProducerLag'
<1> SUFFICES ASSUME TypeOK, ProducerLag, [Next]_vars PROVE ProducerLag'
  OBVIOUS
<1> USE DEF cursors, producerVars, consumerVars
<1>1. ASSUME NEW d \in Data, PushBegin(d) PROVE ProducerLag'
  BY <1>1 DEF PushBegin, ProducerLag
<1>2. CASE PushLoadReader
  BY <1>2 DEF PushLoadReader, ProducerLag
<1>3. CASE PushWrite
  <2>1. Sub(producer'.localWriter, producer'.lastPublished) \in Nat
    BY <1>3, TypeStep, SubType DEF TypeOK, ProducerState
  <2>2. pushPc' = "idle" =>
            /\ pushOk' = TRUE
            /\ ~(Sub(producer'.localWriter, producer'.lastPublished) >= PublishBatch)
    BY <1>3 DEF PushWrite, TypeOK, ProducerState
  <2> QED BY <2>1, <2>2, FastqAssumption DEF ProducerLag
<1>4. CASE PushPublish
  <2>1. Sub(producer'.localWriter, producer'.lastPublished) = 0
    BY <1>4, CursorTypes, SubZero DEF PushPublish, PublishWriter, TypeOK, ProducerState
  <2> QED BY <2>1 DEF ProducerLag
<1>5. CASE Flush
  <2>1. Sub(producer'.localWriter, producer'.lastPublished) = 0
    BY <1>5, CursorTypes, SubZero DEF Flush, TypeOK, ProducerState
  <2> QED BY <2>1 DEF ProducerLag
<1>6. CASE Pop
  BY <1>6 DEF Pop, PopBegin, PopLoadWriter, PopRead, PopPublish, ProducerLag
<1>7. CASE PropagateWriter \/ PropagateReader \/ UNCHANGED vars
  BY <1>7 DEF PropagateWriter, PropagateReader, vars, ProducerLag
<1> QED BY <1>1, <1>2, <1>3, <1>4, <1>5, <1>6, <1>7 DEF Next, Push

LEMMA ConsumerLagStep == TypeOK /\ ConsumerLag /\ [Next]_vars => ConsumerLag'
<1> SUFFICES ASSUME TypeOK, ConsumerLag, [Next]_vars PROVE ConsumerLag'
  OBVIOUS
<1> USE DEF cursors, producerVars, consumerVars
<1>1. CASE PopBegin
  BY <1>1 DEF PopBegin, ConsumerLag
<1>2. CASE PopLoadWriter
  BY <1>2 DEF PopLoadWriter, ConsumerLag
<1>3. CASE PopRead
  <2>1. Sub(consumer'.localReader, consumer'.lastPublished) \in Nat
    BY <1>3, TypeStep, SubType DEF TypeOK, ConsumerState
  <2>2. popPc' = "idle" =>
            /\ popOk' = TRUE
            /\ ~(Sub(consumer'.localReader, consumer'.lastPublished) >= PublishBatch)
    BY <1>3 DEF PopRead, TypeOK, ConsumerState
  <2> QED BY <2>1, <2>2, FastqAssumption DEF ConsumerLag
<1>4. CASE PopPublish
  <2>1. Sub(consumer'.localReader, consumer'.lastPublished) = 0
    BY <1>4, CursorTypes, SubZero DEF PopPublish, PublishReader, TypeOK, ConsumerState
  <2> QED BY <2>1 DEF ConsumerLag
<1>5. CASE Flush
  <2>1. Sub(consumer'.localReader, consumer'.lastPublished) = 0
    BY <1>5, CursorTypes, SubZero DEF Flush, TypeOK, ConsumerState
  <2> QED BY <2>1 DEF ConsumerLag
<1>6. CASE Push
  BY <1>6 DEF Push, PushBegin, PushLoadReader, PushWrite, PushPublish, ConsumerLag
<1>7. CASE PropagateWriter \/ PropagateReader \/ UNCHANGED vars
  BY <1>7 DEF PropagateWriter, PropagateReader, vars, ConsumerLag
<1> QED BY <1>1, <1>2, <1>3, <1>4, <1>5, <1>6, <1>7 DEF Next, Pop

LEMMA LagOfStores == CursorOrder /\ ProducerLag /\ ConsumerLag => LagBelowBatch
  BY DEF CursorOrder, ProducerLag, ConsumerLag, LagBelowBatch

\* Between calls less than a batch is hidden from the other thread, and nothing
\* after a call that failed.
THEOREM LagBelowBatchInvariant == Spec => []LagBelowBatch
<1>1. Spec => []ProducerLag
  BY InitTypeOK, TypeStep, InitLag, ProducerLagStep, PTL DEF Spec
<1>2. Spec => []ConsumerLag
  BY InitTypeOK, TypeStep, InitLag, ConsumerLagStep, PTL DEF Spec
<1> QED BY <1>1, <1>2, CursorOrderInvariant, LagOfStores, PTL

-----------------------------------------------------------------------------
(***************************************************************************)
(* FastqSPSC implements BoundedFifo.  PushWrite is the abstract Enqueue    *)
(* and PopRead the abstract Dequeue; every other step, the publications    *)
(* and flush() among them, is a stutter: what the other thread cannot see  *)
(* yet is already in the queue.                                            *)
(***************************************************************************)
Values == Data \cup {NoData}

\* The abstract queue is a sequence as long as the distance of the cursors, and
\* that distance is at most the capacity.
ItemsShape ==
    /\ Sub(producer.localWriter, consumer.localReader) \in 0 .. Capacity
    /\ Sub(producer.localWriter, consumer.localReader)
           = Ahead(producer.localWriter) - Ahead(consumer.localReader)
    /\ Items \in Seq(Values)
    /\ Len(Items) = Sub(producer.localWriter, consumer.localReader)
    /\ \A i \in 1 .. Len(Items) :
           Items[i] = buffer[Slot(Add(consumer.localReader, i - 1))]

\* The part of the order that the items depend on: the distances from the
\* producer's cached reader, and what the tests of push and pop have found.
ItemsOnArc ==
    /\ Ahead(consumer.localReader) <= Ahead(consumer.cachedWriter)
    /\ Ahead(consumer.cachedWriter) <= Ahead(producer.localWriter)
    /\ Ahead(producer.localWriter) <= Capacity
    /\ pushPc = "write" => Ahead(producer.localWriter) < Capacity
    /\ popPc = "read" => consumer.localReader # consumer.cachedWriter

LEMMA ItemsOnArcHolds == TypeOK /\ CursorOrder => ItemsOnArc
<1> SUFFICES ASSUME TypeOK, CursorOrder PROVE ItemsOnArc
  OBVIOUS
<1>1. /\ Ahead(consumer.cachedWriter) \in Nat /\ Ahead(consumerSees) \in Nat
      /\ Ahead(producer.localWriter) \in Nat
  BY AheadTypes, CursorTypes DEF TypeOK
<1>2. Ahead(consumer.cachedWriter) <= Ahead(producer.localWriter)
  BY <1>1 DEF CursorOrder
<1> QED BY <1>2 DEF CursorOrder, ItemsOnArc

LEMMA ItemsShapeOnArc == TypeOK /\ ItemsOnArc => ItemsShape
<1> SUFFICES ASSUME TypeOK, ItemsOnArc PROVE ItemsShape
  OBVIOUS
<1> DEFINE lw == producer.localWriter
           lr == consumer.localReader
           n == Sub(lw, lr)
<1>1. lw \in Position /\ lr \in Position
  BY CursorTypes
<1>2. n = Ahead(lw) - Ahead(lr) /\ n \in 0 .. Capacity
  <2>1. /\ Ahead(lw) \in Nat /\ Ahead(lr) \in Nat
        /\ Ahead(consumer.cachedWriter) \in Nat
    BY AheadTypes, CursorTypes
  <2>2. Ahead(lr) <= Ahead(lw) /\ Ahead(lw) <= Capacity
    BY <2>1 DEF ItemsOnArc
  <2>3. n = Ahead(lw) - Ahead(lr)
    BY <1>1, <2>2, Rebase, CursorTypes DEF Ahead
  <2> QED BY <2>1, <2>2, <2>3, SizeTAssumption
<1>3. \A i \in 1 .. n : buffer[Slot(Add(lr, i - 1))] \in Values
  <2> SUFFICES ASSUME NEW i \in 1 .. n PROVE buffer[Slot(Add(lr, i - 1))] \in Values
    OBVIOUS
  <2>1. i - 1 \in Position
    BY <1>2, SizeTAssumption DEF Position
  <2>2. Slot(Add(lr, i - 1)) \in Slots
    BY <1>1, <2>1, AddType, SlotType
  <2> QED BY <2>2 DEF TypeOK, Values
<1>4. n \in Nat /\ Items = [i \in 1 .. n |-> buffer[Slot(Add(lr, i - 1))]]
  BY <1>2, SizeTAssumption DEF Items
<1>5. Items \in Seq(Values) /\ Len(Items) = n
  BY <1>3, <1>4, IsASeq
<1> QED BY <1>2, <1>4, <1>5 DEF ItemsShape

LEMMA ItemsShapeHolds == TypeOK /\ CursorOrder => ItemsShape
  BY ItemsOnArcHolds, ItemsShapeOnArc

\* A write appends the item pushed.  It lands on a slot no queued item occupies.
LEMMA WriteAppends ==
    ASSUME TypeOK, TypeOK', ItemsOnArc, ItemsOnArc', PushWrite
    PROVE  Fifo!Enqueue(item)
<1> DEFINE lw == producer.localWriter
           lr == consumer.localReader
           n == Sub(lw, lr)
<1>1. /\ pushPc = "write"
      /\ producer'.localWriter = Add(lw, 1)
      /\ consumer' = consumer
      /\ out' = out
      /\ buffer' = [buffer EXCEPT ![Slot(lw)] = item]
  BY DEF PushWrite, consumerVars, TypeOK, ProducerState
<1>2. item \in Data /\ item \in Values
  BY <1>1 DEF TypeOK, Values
<1>3. lw \in Position /\ lr \in Position
  BY CursorTypes
<1>4. /\ Items \in Seq(Values) /\ Len(Items) = n /\ n \in 0 .. Capacity
      /\ \A i \in 1 .. n : Items[i] = buffer[Slot(Add(lr, i - 1))]
  BY ItemsShapeOnArc DEF ItemsShape
<1>5. n < Capacity
  <2>1. Ahead(lw) < Capacity /\ Ahead(lw) \in Nat /\ Ahead(lr) \in Nat
    BY <1>1, <1>3, AheadTypes DEF ItemsOnArc
  <2>2. n = Ahead(lw) - Ahead(lr)
    BY ItemsShapeOnArc DEF ItemsShape
  <2> QED BY <2>1, <2>2, SizeTAssumption
<1>6. Sub(producer'.localWriter, consumer'.localReader) = n + 1
  BY <1>1, <1>3, <1>4, <1>5, SubIncrement, SizeTAssumption
<1>7. /\ Items' \in Seq(Values) /\ Len(Items') = n + 1
      /\ \A i \in 1 .. n + 1 : Items'[i] = buffer'[Slot(Add(lr, i - 1))]
  <2>1. /\ Items' \in Seq(Values')
        /\ Len(Items') = Sub(producer'.localWriter, consumer'.localReader)
        /\ \A i \in 1 .. Len(Items') :
               Items'[i] = buffer'[Slot(Add(consumer'.localReader, i - 1))]
    <3>1. ItemsShape'
      BY ItemsShapeOnArc, PTL
    <3> QED BY <3>1 DEF ItemsShape
  <2> QED BY <1>1, <1>6, <2>1 DEF Values
<1>8. Append(Items, item) \in Seq(Values) /\ Len(Append(Items, item)) = n + 1
  BY <1>2, <1>4, AppendProperties
<1>9. ASSUME NEW i \in 1 .. n + 1 PROVE Items'[i] = Append(Items, item)[i]
  <2>1. Slot(lw) \in Slots /\ buffer \in [Slots -> Values]
    BY <1>3, SlotType DEF TypeOK, Values
  <2>2. CASE i = n + 1
    <3>1. Add(lr, i - 1) = lw
      BY <1>3, <1>4, <2>2, AddSub, SizeTAssumption
    <3>2. Items'[i] = item
      BY <1>1, <1>7, <2>1, <3>1
    <3> QED BY <1>2, <1>4, <2>2, <3>2, AppendProperties
  <2>3. CASE i \in 1 .. n
    <3> DEFINE p == Add(lr, i - 1)
    <3>1. i - 1 \in Position
      BY <1>4, <2>3, SizeTAssumption DEF Position
    <3>2. p \in Position /\ Sub(p, lr) = i - 1
      BY <1>3, <3>1, AddType, SubAdd
    <3>3. Sub(lw, p) = n - (i - 1)
      BY <1>3, <1>4, <2>3, <3>2, Rebase, SizeTAssumption
    <3>4. Sub(lw, p) \in 1 .. Capacity - 1
      BY <1>4, <1>5, <2>3, <3>3, SizeTAssumption
    <3>5. Slot(p) # Slot(lw) /\ Slot(p) \in Slots
      BY <1>3, <3>2, <3>4, SlotInjective, SlotType
    <3>6. buffer'[Slot(p)] = buffer[Slot(p)]
      BY <1>1, <2>1, <3>5
    <3>7. Items'[i] = Items[i]
      BY <1>4, <1>7, <2>3, <3>6
    <3> QED BY <1>2, <1>4, <2>3, <3>7, AppendProperties
  <2> QED BY <1>4, <2>2, <2>3, SizeTAssumption
<1>10. Items' = Append(Items, item)
  BY <1>7, <1>8, <1>9, SeqEqual
<1> QED BY <1>1, <1>4, <1>5, <1>10 DEF Fifo!Enqueue

\* A read, whatever it copies out, takes the oldest item off.
LEMMA ReadTakesPlace ==
    ASSUME TypeOK, TypeOK', ItemsOnArc, ItemsOnArc', popPc = "read",
           consumer'.localReader = Add(consumer.localReader, 1),
           UNCHANGED <<producer, buffer>>
    PROVE  /\ Items # <<>> /\ Items' = Tail(Items)
           /\ Head(Items) = buffer[Slot(consumer.localReader)]
<1> DEFINE lw == producer.localWriter
           lr == consumer.localReader
           n == Sub(lw, lr)
<1>1. /\ popPc = "read"
      /\ consumer'.localReader = Add(lr, 1)
      /\ producer' = producer
      /\ buffer' = buffer
  OBVIOUS
<1>2. lw \in Position /\ lr \in Position /\ Add(lr, 1) \in Position
  BY CursorTypes, AddType, OneIsPosition
<1>3. /\ Items \in Seq(Values) /\ Len(Items) = n /\ n \in 0 .. Capacity
      /\ \A i \in 1 .. n : Items[i] = buffer[Slot(Add(lr, i - 1))]
  BY ItemsShapeOnArc DEF ItemsShape
<1>4. n >= 1
  <2>1. Ahead(lr) # Ahead(consumer.cachedWriter)
    BY <1>1, CursorTypes, AddSub DEF ItemsOnArc, Ahead
  <2>2. /\ Ahead(lw) \in Nat /\ Ahead(lr) \in Nat
        /\ Ahead(consumer.cachedWriter) \in Nat
    BY AheadTypes, CursorTypes
  <2>3. n = Ahead(lw) - Ahead(lr)
    BY ItemsShapeOnArc DEF ItemsShape
  <2> QED BY <2>1, <2>2, <2>3 DEF ItemsOnArc
<1>5. Add(lr, 0) = lr
  BY <1>2, AddCases, OneIsPosition, SizeTAssumption DEF Position
<1>6. Items # <<>> /\ Head(Items) = Items[1] /\ Head(Items) = buffer[Slot(lr)]
  <2>1. Items[1] = buffer[Slot(lr)]
    BY <1>3, <1>4, <1>5, SizeTAssumption
  <2>2. Items # <<>>
    BY <1>3, <1>4, EmptySeq, SizeTAssumption
  <2> QED BY <1>3, <2>1, <2>2
<1>7. Sub(producer'.localWriter, consumer'.localReader) = n - 1
  <2>1. Sub(Add(lr, 1), lr) = 1
    BY <1>2, SubAdd, OneIsPosition
  <2> QED BY <1>1, <1>2, <1>4, <2>1, Rebase
<1>8. /\ Items' \in Seq(Values) /\ Len(Items') = n - 1
      /\ \A i \in 1 .. n - 1 : Items'[i] = buffer[Slot(Add(Add(lr, 1), i - 1))]
  <2>1. /\ Items' \in Seq(Values')
        /\ Len(Items') = Sub(producer'.localWriter, consumer'.localReader)
        /\ \A i \in 1 .. Len(Items') :
               Items'[i] = buffer'[Slot(Add(consumer'.localReader, i - 1))]
    <3>1. ItemsShape'
      BY ItemsShapeOnArc, PTL
    <3> QED BY <3>1 DEF ItemsShape
  <2> QED BY <1>1, <1>7, <2>1 DEF Values
<1>9. /\ Tail(Items) \in Seq(Values) /\ Len(Tail(Items)) = n - 1
      /\ \A i \in 1 .. n - 1 : Tail(Items)[i] = Items[i + 1]
  BY <1>3, <1>6, HeadTailProperties
<1>10. ASSUME NEW i \in 1 .. n - 1 PROVE Items'[i] = Tail(Items)[i]
  <2>1. i - 1 \in Position /\ i \in Position /\ (i - 1) + 1 = i
    BY <1>3, SizeTAssumption DEF Position
  <2>2. Add(Add(lr, 1), i - 1) = Add(lr, i)
    BY <1>2, <2>1, AddIncrement
  <2>3. Items[i + 1] = buffer[Slot(Add(lr, i))]
    BY <1>3, SizeTAssumption
  <2> QED BY <1>8, <1>9, <2>2, <2>3
<1>11. Items' = Tail(Items)
  BY <1>8, <1>9, <1>10, SeqEqual
<1> QED BY <1>6, <1>11

LEMMA ReadTakesFirst ==
    ASSUME TypeOK, TypeOK', ItemsOnArc, ItemsOnArc', PopRead
    PROVE  Fifo!Dequeue
<1>1. /\ popPc = "read"
      /\ consumer'.localReader = Add(consumer.localReader, 1)
      /\ UNCHANGED <<producer, buffer>>
      /\ out' = buffer[Slot(consumer.localReader)]
  BY DEF PopRead, producerVars, TypeOK, ConsumerState
<1> QED BY <1>1, ReadTakesPlace DEF Fifo!Dequeue

LEMMA WriteEnqueues ==
    ASSUME TypeOK, TypeOK', CursorOrder, CursorOrder', PushWrite
    PROVE  Fifo!Enqueue(item)
<1>1. ItemsOnArc /\ ItemsOnArc'
  BY ItemsOnArcHolds, PTL
<1> QED BY <1>1, WriteAppends

LEMMA ReadDequeues ==
    ASSUME TypeOK, TypeOK', CursorOrder, CursorOrder', PopRead
    PROVE  Fifo!Dequeue
<1>1. ItemsOnArc /\ ItemsOnArc'
  BY ItemsOnArcHolds, PTL
<1> QED BY <1>1, ReadTakesFirst

LEMMA InitImplements == Init => Fifo!Init
<1> SUFFICES ASSUME Init PROVE Items = <<>> /\ out = NoData
  BY SizeTAssumption DEF Fifo!Init
<1>1. TypeOK /\ CursorOrder
  BY InitTypeOK, InitCursorOrder
<1>2. Sub(producer.localWriter, consumer.localReader) = 0
  BY OneIsPosition, SubZero DEF Init
<1>3. Items \in Seq(Values) /\ Len(Items) = 0
  BY <1>1, <1>2, ItemsShapeHolds DEF ItemsShape
<1>4. Items = <<>>
  BY <1>3, EmptySeq
<1> QED BY <1>4 DEF Init

LEMMA StepImplements ==
    ASSUME TypeOK, TypeOK', CursorOrder, CursorOrder', [Next]_vars
    PROVE  [Fifo!Next]_(Fifo!vars)
<1>1. ASSUME UNCHANGED <<buffer, out>>,
             producer'.localWriter = producer.localWriter,
             consumer'.localReader = consumer.localReader
      PROVE  UNCHANGED Fifo!vars
  BY <1>1 DEF Fifo!vars, Items
<1>2. CASE PushWrite
  <2>1. item \in Data
    BY <1>2 DEF PushWrite, TypeOK
  <2> QED BY <1>2, <2>1, WriteEnqueues DEF Fifo!Next
<1>3. CASE PopRead
  BY <1>3, ReadDequeues DEF Fifo!Next
<1> USE DEF cursors, producerVars, consumerVars
<1>4. ASSUME NEW d \in Data, PushBegin(d) PROVE UNCHANGED Fifo!vars
  BY <1>1, <1>4 DEF PushBegin
<1>5. CASE PushLoadReader
  BY <1>1, <1>5 DEF PushLoadReader, TypeOK, ProducerState
<1>6. CASE PushPublish
  BY <1>1, <1>6 DEF PushPublish, PublishWriter, TypeOK, ProducerState
<1>7. CASE PopBegin
  BY <1>1, <1>7 DEF PopBegin
<1>8. CASE PopLoadWriter
  BY <1>1, <1>8 DEF PopLoadWriter, TypeOK, ConsumerState
<1>9. CASE PopPublish
  BY <1>1, <1>9 DEF PopPublish, PublishReader, TypeOK, ConsumerState
<1>10. CASE Flush
  BY <1>1, <1>10 DEF Flush, TypeOK, ProducerState, ConsumerState
<1>11. CASE PropagateWriter \/ PropagateReader
  BY <1>1, <1>11 DEF PropagateWriter, PropagateReader
<1>12. CASE UNCHANGED vars
  BY <1>1, <1>12 DEF vars
<1> QED
  BY <1>2, <1>3, <1>4, <1>5, <1>6, <1>7, <1>8, <1>9, <1>10, <1>11, <1>12
     DEF Next, Push, Pop

\* The ring, its two published cursors and its batches together are a bounded
\* FIFO queue: nothing is lost, doubled, altered or reordered.
THEOREM Implementation == Spec => ImplementsFifo
  BY TypeCorrect, CursorOrderInvariant, InitImplements, StepImplements, PTL
     DEF Spec, ImplementsFifo, Fifo!Spec
=============================================================================

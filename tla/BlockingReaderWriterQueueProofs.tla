------------------ MODULE BlockingReaderWriterQueueProofs ------------------
(***************************************************************************)
(* Proofs about BlockingReaderWriterQueue, whatever the queue is built     *)
(* with and whatever its two threads call.  The blocks form a ring in      *)
(* which each has a distance to the tail block (RingOf, Placed): those     *)
(* beyond the front block are empty, those behind the tail block full.     *)
(* From that: the assertions in the code hold, the queue has the room it   *)
(* was asked for, it is a bounded FIFO, and the semaphore counts its       *)
(* items.                                                                  *)
(***************************************************************************)
EXTENDS BlockingReaderWriterQueue, SequenceTheorems, WellFoundedInduction,
        FiniteSetTheorems, TLAPS

-----------------------------------------------------------------------------
(***************************************************************************)
(* Induction on the naturals, with the set of those for which it holds.    *)
(***************************************************************************)
LEMMA LeastOf ==
    ASSUME NEW S \in SUBSET Nat, S # {}
    PROVE  \E x \in S : \A y \in S : x <= y
<1> DEFINE R == OpToRel(<, Nat)
<1>1. IsWellFoundedOn(R, Nat)
  BY NatLessThanWellFounded
<1>2. \A x, y \in Nat : <<x, y>> \in R <=> x < y
  BY DEF OpToRel
<1> HIDE DEF R
<1>3. PICK x \in S : \A y \in S : ~(<<y, x>> \in R)
  BY <1>1, WFMin
<1>4. \A y \in S : ~(y < x)
  BY <1>2, <1>3
<1> QED BY <1>3, <1>4

LEMMA NatInd ==
    ASSUME NEW S, 0 \in S, \A n \in Nat : n \in S => n + 1 \in S
    PROVE  \A n \in Nat : n \in S
<1> DEFINE T == Nat \ S
<1> SUFFICES ASSUME T # {} PROVE FALSE
  OBVIOUS
<1>1. PICK x \in T : \A y \in T : x <= y
  BY LeastOf
<1>2. x # 0 /\ x - 1 \in Nat /\ x - 1 \in S
  BY <1>1
<1> QED BY <1>1, <1>2

-----------------------------------------------------------------------------
(***************************************************************************)
(* Powers of two: what 1 becomes by doubling.                              *)
(***************************************************************************)
Powers == {n \in Nat : \A S \in SUBSET Nat : 1 \in S /\ (\A s \in S : 2 * s \in S) => n \in S}

LEMMA PowersGrow == 1 \in Powers /\ \A p \in Powers : 2 * p \in Powers
  BY DEF Powers

LEMMA PowersFrom ==
    ASSUME NEW p \in Powers
    PROVE  p \in Nat /\ p >= 1 /\ (p = 1 \/ \E r \in Powers : p = 2 * r)
<1> DEFINE S == {n \in Nat : n = 1 \/ (n >= 1 /\ \E r \in Powers : n = 2 * r)}
<1>1. S \in SUBSET Nat /\ 1 \in S
  OBVIOUS
<1>2. ASSUME NEW s \in S PROVE 2 * s \in S
  <2>1. s \in Powers /\ s >= 1
    BY PowersGrow
  <2> QED BY <2>1
<1>3. p \in S
  BY <1>1, <1>2 DEF Powers
<1> QED BY <1>3

\* Between two powers lies a doubling.
LEMMA PowersApart ==
    ASSUME NEW p \in Powers, NEW q \in Powers, p < q
    PROVE  2 * p <= q
<1> DEFINE S == {n \in Nat : n \in Powers /\ \A r \in Powers :
                                (r < n => 2 * r <= n) /\ (n < r => 2 * n <= r)}
<1>1. S \in SUBSET Nat
  OBVIOUS
<1>2. 1 \in S
  BY PowersGrow, PowersFrom
<1>3. ASSUME NEW s \in S PROVE 2 * s \in S
  <2>0. s \in Nat /\ s \in Powers
    OBVIOUS
  <2>1. s \in Nat /\ s \in Powers /\ 2 * s \in Powers /\ 2 * s \in Nat
    BY <2>0, PowersGrow
  <2>2. ASSUME NEW r \in Powers, r < 2 * s PROVE 2 * r <= 2 * s
    <3>1. r <= s
      BY <2>1, <2>2, PowersFrom
    <3> QED BY <2>1, <3>1, PowersFrom
  <2>3. ASSUME NEW r \in Powers, 2 * s < r PROVE 2 * (2 * s) <= r
    <3>1. s >= 1 /\ r \in Nat
      BY <2>1, PowersFrom
    <3>2. PICK h \in Powers : r = 2 * h
      BY <2>1, <2>3, <3>1, PowersFrom
    <3>3. h \in Nat /\ s < h
      BY <2>1, <2>3, <3>2, PowersFrom
    <3>4. 2 * s <= h
      BY <3>3
    <3> QED BY <2>1, <3>2, <3>3, <3>4
  <2> QED BY <2>1, <2>2, <2>3
<1>4. q \in S
  BY <1>1, <1>2, <1>3 DEF Powers
<1> QED BY <1>4

\* ceilToPow2 doubles 1 until it is large enough.
LEMMA Doubling ==
    ASSUME NEW x \in Nat, NEW n \in Nat
    PROVE  \E p : p = [k \in 0 .. n |-> IF k = 0 THEN 1
                                        ELSE IF p[k - 1] < x THEN 2 * p[k - 1] ELSE p[k - 1]]
<1> DEFINE Step(v) == IF v < x THEN 2 * v ELSE v
           Eq(p, m) == p = [k \in 0 .. m |-> IF k = 0 THEN 1 ELSE Step(p[k - 1])]
           S == {m \in Nat : \E p : Eq(p, m)}
<1>1. 0 \in S
  <2> DEFINE p == [k \in 0 .. 0 |-> 1]
  <2>1. p = [k \in 0 .. 0 |-> IF k = 0 THEN 1 ELSE Step(p[k - 1])]
    OBVIOUS
  <2> QED BY <2>1
<1>2. ASSUME NEW m \in Nat, m \in S PROVE m + 1 \in S
  <2> HIDE DEF Step
  <2>1. PICK p : p = [k \in 0 .. m |-> IF k = 0 THEN 1 ELSE Step(p[k - 1])]
    BY <1>2
  <2> DEFINE g == [k \in 0 .. m + 1 |-> IF k <= m THEN p[k] ELSE Step(p[m])]
  <2>2. ASSUME NEW k \in 0 .. m + 1
        PROVE  g[k] = IF k = 0 THEN 1 ELSE Step(g[k - 1])
    <3>1. CASE k = m + 1
      BY <3>1
    <3>2. CASE k <= m
      <4>1. g[k] = p[k] /\ (k # 0 => g[k - 1] = p[k - 1])
        BY <3>2
      <4>2. p[k] = IF k = 0 THEN 1 ELSE Step(p[k - 1])
        BY <2>1, <3>2
      <4> QED BY <4>1, <4>2
    <3> QED BY <3>1, <3>2
  <2>3. g = [k \in 0 .. m + 1 |-> IF k = 0 THEN 1 ELSE Step(g[k - 1])]
    BY <2>2
  <2>4. Eq(g, m + 1)
    BY <2>3
  <2> HIDE DEF g, Eq
  <2> QED BY <2>4
<1>3. n \in S
  <2> HIDE DEF S
  <2> QED BY <1>1, <1>2, NatInd
<1> QED BY <1>3

LEMMA CeilToPow2Is ==
    ASSUME NEW x \in Nat, x > 0
    PROVE  CeilToPow2(x) \in Powers /\ CeilToPow2(x) >= x
<1> DEFINE Eq(p) == p = [k \in 0 .. x |-> IF k = 0 THEN 1
                                ELSE IF p[k - 1] < x THEN 2 * p[k - 1] ELSE p[k - 1]]
           p == CHOOSE f : Eq(f)
<1>1. Eq(p)
  <2>1. \E f : Eq(f)
    BY Doubling
  <2> HIDE DEF Eq
  <2> QED BY <2>1
<1>2. CeilToPow2(x) = p[x]
  BY DEF CeilToPow2
<1> HIDE DEF p
<1> DEFINE S == {k \in Nat : k <= x => p[k] \in Powers /\ (p[k] >= x \/ p[k] >= k + 1)}
<1>3. 0 \in S
  BY <1>1, PowersGrow
<1>4. ASSUME NEW k \in Nat, k \in S PROVE k + 1 \in S
  <2> SUFFICES ASSUME k + 1 <= x
               PROVE  p[k + 1] \in Powers /\ (p[k + 1] >= x \/ p[k + 1] >= (k + 1) + 1)
    OBVIOUS
  <2>1. p[k] \in Powers /\ (p[k] >= x \/ p[k] >= k + 1)
    BY <1>4
  <2>2. p[k + 1] = IF p[k] < x THEN 2 * p[k] ELSE p[k]
    <3>1. (k + 1) - 1 = k /\ k + 1 \in 0 .. x /\ k + 1 # 0
      OBVIOUS
    <3> QED BY <1>1, <3>1
  <2>3. p[k] \in Nat /\ p[k] >= 1
    BY <2>1, PowersFrom
  <2>4. p[k + 1] \in Powers
    BY <2>1, <2>2, PowersGrow
  <2> QED BY <2>1, <2>2, <2>3, <2>4
<1>5. x \in S
  <2> HIDE DEF S
  <2> QED BY <1>3, <1>4, NatInd
<1>6. p[x] \in Nat
  BY <1>5, PowersFrom
<1> QED BY <1>2, <1>5, <1>6

-----------------------------------------------------------------------------
(***************************************************************************)
(* A block: its slots and how far apart two of its indices are.            *)
(***************************************************************************)
LEMMA WrapCases ==
    ASSUME NEW n \in Nat, n > 0, NEW x \in 0 .. 2 * n - 1
    PROVE  x % n = IF x < n THEN x ELSE x - n
  OBVIOUS

\* How many slots there are from slot i of a ring of s slots to slot t.
Ahead(s, t, i) == (t + s - i) % s

LEMMA AheadCases ==
    ASSUME NEW s \in Nat, s >= 2, NEW t \in 0 .. s - 1, NEW i \in 0 .. s - 1
    PROVE  Ahead(s, t, i) = IF t >= i THEN t - i ELSE t + s - i
<1>1. t + s - i \in 0 .. 2 * s - 1
  OBVIOUS
<1>2. (t + s - i) % s = IF t + s - i < s THEN t + s - i ELSE t + s - i - s
  BY <1>1, WrapCases
<1> QED BY <1>2 DEF Ahead

LEMMA NextSlot ==
    ASSUME NEW s \in Nat, s >= 2, NEW t \in 0 .. s - 1
    PROVE  (t + 1) % s = (IF t + 1 = s THEN 0 ELSE t + 1) /\ (t + 1) % s \in 0 .. s - 1
<1>1. (t + 1) % s = IF t + 1 < s THEN t + 1 ELSE t + 1 - s
  BY WrapCases
<1> QED BY <1>1

LEMMA AheadFacts ==
    ASSUME NEW s \in Nat, s >= 2, NEW t \in 0 .. s - 1, NEW i \in 0 .. s - 1
    PROVE  /\ Ahead(s, t, i) \in 0 .. s - 1
           /\ Ahead(s, t, i) = 0 <=> t = i
           /\ (t + 1) % s = i <=> Ahead(s, t, i) = s - 1
           /\ (t + 1) % s # i => Ahead(s, (t + 1) % s, i) = Ahead(s, t, i) + 1
           /\ t # i => Ahead(s, t, (i + 1) % s) = Ahead(s, t, i) - 1
<1>1. Ahead(s, t, i) = IF t >= i THEN t - i ELSE t + s - i
  BY AheadCases
<1>2. (t + 1) % s = (IF t + 1 = s THEN 0 ELSE t + 1) /\ (t + 1) % s \in 0 .. s - 1
  BY NextSlot
<1>3. (i + 1) % s = (IF i + 1 = s THEN 0 ELSE i + 1) /\ (i + 1) % s \in 0 .. s - 1
  BY NextSlot
<1> DEFINE t1 == (t + 1) % s
           i1 == (i + 1) % s
<1>4. Ahead(s, t1, i) = IF t1 >= i THEN t1 - i ELSE t1 + s - i
  BY <1>2, AheadCases
<1>5. Ahead(s, t, i1) = IF t >= i1 THEN t - i1 ELSE t + s - i1
  BY <1>3, AheadCases
<1> HIDE DEF t1, i1
<1>6. t1 = (IF t + 1 = s THEN 0 ELSE t + 1) /\ i1 = (IF i + 1 = s THEN 0 ELSE i + 1)
  BY <1>2, <1>3 DEF t1, i1
<1>7. /\ Ahead(s, t, i) \in 0 .. s - 1
      /\ Ahead(s, t, i) = 0 <=> t = i
  BY <1>1
<1>8. t1 = i <=> Ahead(s, t, i) = s - 1
  BY <1>1, <1>6
<1>9. t1 # i => Ahead(s, t1, i) = Ahead(s, t, i) + 1
  BY <1>1, <1>4, <1>6
<1>10. t # i => Ahead(s, t, i1) = Ahead(s, t, i) - 1
  BY <1>1, <1>5, <1>6
<1> QED BY <1>7, <1>8, <1>9, <1>10 DEF t1, i1

\* The slots of the items: none is the one at the tail.
LEMMA SlotsUsed ==
    ASSUME NEW s \in Nat, s >= 2, NEW t \in 0 .. s - 1, NEW i \in 0 .. s - 1,
           NEW k \in 1 .. Ahead(s, t, i)
    PROVE  /\ (i + k - 1) % s \in 0 .. s - 1
           /\ (i + k - 1) % s # t
           /\ k # 1 => (i + k - 1) % s # i
           /\ (i + 1 - 1) % s = i
<1>1. Ahead(s, t, i) = IF t >= i THEN t - i ELSE t + s - i
  BY AheadCases
<1>2. k \in Nat /\ k >= 1 /\ k <= Ahead(s, t, i) /\ i + k - 1 \in 0 .. 2 * s - 1
  BY <1>1
<1>3. (i + k - 1) % s = IF i + k - 1 < s THEN i + k - 1 ELSE i + k - 1 - s
  BY <1>2, WrapCases
<1>4. i + 1 - 1 = i /\ i \in 0 .. 2 * s - 1
  OBVIOUS
<1>5. i % s = i
  BY <1>4, WrapCases
<1>6. (i + 1 - 1) % s = i
  BY <1>4, <1>5
<1> QED BY <1>1, <1>2, <1>3, <1>6

\* The slot after the items is the one at the tail.
LEMMA SlotAtTail ==
    ASSUME NEW s \in Nat, s >= 2, NEW t \in 0 .. s - 1, NEW i \in 0 .. s - 1
    PROVE  (i + (Ahead(s, t, i) + 1) - 1) % s = t
<1>1. Ahead(s, t, i) = IF t >= i THEN t - i ELSE t + s - i
  BY AheadCases
<1>2. i + (Ahead(s, t, i) + 1) - 1 = IF t >= i THEN t ELSE t + s
  BY <1>1
<1> DEFINE x == i + (Ahead(s, t, i) + 1) - 1
<1>3. x \in 0 .. 2 * s - 1
  BY <1>2
<1>4. x % s = IF x < s THEN x ELSE x - s
  BY <1>3, WrapCases
<1> QED BY <1>2, <1>4

\* Skipping the first slot.
LEMMA SlotShifted ==
    ASSUME NEW s \in Nat, s >= 2, NEW i \in 0 .. s - 1, NEW k \in 1 .. s - 1
    PROVE  (((i + 1) % s) + k - 1) % s = (i + (k + 1) - 1) % s
<1> DEFINE j == (i + 1) % s
           x == j + k - 1
           y == i + (k + 1) - 1
<1>1. j = (IF i + 1 = s THEN 0 ELSE i + 1) /\ j \in 0 .. s - 1
  BY NextSlot
<1> HIDE DEF j
<1>2. x \in 0 .. 2 * s - 1 /\ y \in 0 .. 2 * s - 1
  BY <1>1
<1>3. x = y \/ (x = y - s /\ y >= s /\ x < s)
  BY <1>1, <1>2
<1>4. x % s = IF x < s THEN x ELSE x - s
  BY <1>2, WrapCases
<1>5. y % s = IF y < s THEN y ELSE y - s
  BY <1>2, WrapCases
<1> HIDE DEF x, y
<1>6. x % s = y % s
  BY <1>2, <1>3, <1>4, <1>5
<1> QED BY <1>6 DEF x, y, j

Gap(b, i) == Ahead(b.size, b.tail, i)
Used(b) == Gap(b, b.front)
Seen(b) == Ahead(b.size, b.localTail, b.front)

Values == Nat \cup {NoData}
Slots == UNION {[0 .. s - 1 -> Values] : s \in Nat}
BlockRecords ==
    [front : Nat, localTail : Nat, tail : Nat, localFront : Nat, next : Nat, size : Nat,
     data : Slots]

BlockOK(b) ==
    /\ b \in BlockRecords
    /\ b.size >= 2
    /\ {b.front, b.localTail, b.tail, b.localFront} \subseteq 0 .. b.size - 1
    /\ b.data \in [0 .. b.size - 1 -> Values]

\* Two states of a block with the same items.
SameItems(b, c) == b.front = c.front /\ b.tail = c.tail /\ b.size = c.size /\ b.data = c.data

LEMMA BlockFields ==
    ASSUME NEW b, BlockOK(b)
    PROVE  /\ b.size \in Nat /\ b.size >= 2 /\ b.next \in Nat
           /\ b.front \in 0 .. b.size - 1 /\ b.tail \in 0 .. b.size - 1
           /\ b.localTail \in 0 .. b.size - 1 /\ b.localFront \in 0 .. b.size - 1
           /\ b.data \in [0 .. b.size - 1 -> Values]
           /\ After(b, b.tail) \in 0 .. b.size - 1
           /\ After(b, b.front) \in 0 .. b.size - 1
<1>1. /\ b.size \in Nat /\ b.size >= 2 /\ b.next \in Nat
      /\ b.front \in 0 .. b.size - 1 /\ b.tail \in 0 .. b.size - 1
      /\ b.localTail \in 0 .. b.size - 1 /\ b.localFront \in 0 .. b.size - 1
      /\ b.data \in [0 .. b.size - 1 -> Values]
  BY DEF BlockOK, BlockRecords
<1> QED BY <1>1, NextSlot DEF After

\* The slot of item k of a block.
Slot(b, k) == (b.front + k - 1) % b.size

LEMMA SlotFacts ==
    ASSUME NEW b, BlockOK(b)
    PROVE  /\ \A k \in 1 .. Used(b) : /\ Slot(b, k) \in 0 .. b.size - 1
                                      /\ Slot(b, k) # b.tail
                                      /\ k # 1 => Slot(b, k) # b.front
           /\ Slot(b, 1) = b.front
           /\ Slot(b, Used(b) + 1) = b.tail
<1> DEFINE s == b.size
           t == b.tail
           i == b.front
<1>1. s \in Nat /\ s >= 2 /\ t \in 0 .. s - 1 /\ i \in 0 .. s - 1
  BY BlockFields
<1>2. Used(b) = Ahead(s, t, i) /\ \A k : Slot(b, k) = (i + k - 1) % s
  BY DEF Used, Gap, Slot
<1> HIDE DEF s, t, i
<1>3. ASSUME NEW k \in 1 .. Ahead(s, t, i)
      PROVE  /\ (i + k - 1) % s \in 0 .. s - 1 /\ (i + k - 1) % s # t
             /\ k # 1 => (i + k - 1) % s # i
  BY <1>1, SlotsUsed
<1>4. (i + 1 - 1) % s = i
  <2>1. i + 1 - 1 = i /\ i \in 0 .. 2 * s - 1
    BY <1>1
  <2>2. i % s = i
    BY <1>1, <2>1, WrapCases
  <2> QED BY <2>1, <2>2
<1>5. (i + (Ahead(s, t, i) + 1) - 1) % s = t
  BY <1>1, SlotAtTail
<1> QED BY <1>2, <1>3, <1>4, <1>5 DEF s, t, i

LEMMA GapFacts ==
    ASSUME NEW b, BlockOK(b), NEW i \in 0 .. b.size - 1
    PROVE  /\ Gap(b, i) \in 0 .. b.size - 1
           /\ Gap(b, i) = 0 <=> b.tail = i
           /\ After(b, b.tail) = i <=> Gap(b, i) = b.size - 1
           /\ b.tail # i => Gap(b, After(b, i)) = Gap(b, i) - 1
           /\ \A c : c.size = b.size /\ c.tail = After(b, b.tail) /\ After(b, b.tail) # i =>
                      Gap(c, i) = Gap(b, i) + 1
<1> DEFINE s == b.size
           t == b.tail
<1>1. s \in Nat /\ s >= 2 /\ t \in 0 .. s - 1 /\ i \in 0 .. s - 1
  BY BlockFields
<1> HIDE DEF s, t
<1>2. /\ Ahead(s, t, i) \in 0 .. s - 1
      /\ Ahead(s, t, i) = 0 <=> t = i
      /\ (t + 1) % s = i <=> Ahead(s, t, i) = s - 1
      /\ (t + 1) % s # i => Ahead(s, (t + 1) % s, i) = Ahead(s, t, i) + 1
      /\ t # i => Ahead(s, t, (i + 1) % s) = Ahead(s, t, i) - 1
  BY <1>1, AheadFacts
<1> QED BY <1>2 DEF Gap, After, s, t

LEMMA ItemsOfBlock ==
    ASSUME NEW b, BlockOK(b)
    PROVE  /\ BlockItems(b) \in Seq(Values)
           /\ Len(BlockItems(b)) = Used(b)
           /\ Used(b) \in 0 .. b.size - 1 /\ Used(b) \in Nat
           /\ Used(b) = 0 <=> b.tail = b.front
           /\ \A k \in 1 .. Used(b) : BlockItems(b)[k] = b.data[Slot(b, k)]
<1>1. /\ b.size \in Nat /\ b.size >= 2 /\ b.front \in 0 .. b.size - 1
      /\ b.data \in [0 .. b.size - 1 -> Values]
  BY BlockFields
<1>2. Used(b) \in 0 .. b.size - 1 /\ (Used(b) = 0 <=> b.tail = b.front)
  BY <1>1, GapFacts DEF Used
<1>4. \A k \in 1 .. Used(b) : b.data[Slot(b, k)] \in Values
  BY <1>1, SlotFacts
<1>5. BlockItems(b) = [k \in 1 .. Used(b) |-> b.data[Slot(b, k)]]
  BY DEF BlockItems, Used, Gap, Ahead, Slot
<1>6. Used(b) \in Nat
  BY <1>1, <1>2
<1> QED BY <1>2, <1>4, <1>5, <1>6, IsASeq

LEMMA SameBlockItems ==
    ASSUME NEW b, NEW c, SameItems(b, c)
    PROVE  BlockItems(b) = BlockItems(c) /\ Used(b) = Used(c)
  BY DEF SameItems, BlockItems, Used, Gap

\* Sequences of elements, by their length and their elements.
LEMMA SameSeq ==
    ASSUME NEW S, NEW s \in Seq(S), NEW t \in Seq(S), NEW n \in Nat,
           Len(s) = n, Len(t) = n, \A i \in 1 .. n : s[i] = t[i]
    PROVE  s = t
  BY SeqEqual

\* Constructing an object at the tail does not touch the items.
LEMMA ItemsConstruct ==
    ASSUME NEW b, BlockOK(b), NEW c, BlockOK(c), NEW v,
           c.front = b.front, c.tail = b.tail, c.size = b.size,
           c.data = [b.data EXCEPT ![b.tail] = v]
    PROVE  BlockItems(c) = BlockItems(b) /\ Used(c) = Used(b)
<1>1. Used(c) = Used(b) /\ \A k : Slot(c, k) = Slot(b, k)
  BY DEF Used, Gap, Slot
<1>2. ASSUME NEW k \in 1 .. Used(b) PROVE BlockItems(c)[k] = BlockItems(b)[k]
  <2>1. Slot(b, k) # b.tail /\ Slot(b, k) \in 0 .. b.size - 1
    BY SlotFacts
  <2>2. c.data[Slot(b, k)] = b.data[Slot(b, k)]
    BY <2>1, BlockFields
  <2>3. BlockItems(c)[k] = c.data[Slot(c, k)]
    BY <1>1, ItemsOfBlock
  <2>4. BlockItems(b)[k] = b.data[Slot(b, k)]
    BY ItemsOfBlock
  <2> QED BY <1>1, <2>2, <2>3, <2>4
<1>3. Used(b) \in Nat
  BY ItemsOfBlock, BlockFields
<1> QED BY <1>1, <1>2, <1>3, ItemsOfBlock, SameSeq

\* Publishing the tail adds the object there.
LEMMA ItemsPublish ==
    ASSUME NEW b, BlockOK(b), NEW c, BlockOK(c), After(b, b.tail) # b.front,
           c.front = b.front, c.tail = After(b, b.tail), c.size = b.size, c.data = b.data
    PROVE  BlockItems(c) = Append(BlockItems(b), b.data[b.tail]) /\ Used(c) = Used(b) + 1
<1>1. Used(c) = Used(b) + 1 /\ \A k : Slot(c, k) = Slot(b, k)
  <2>1. b.front \in 0 .. b.size - 1
    BY BlockFields
  <2> QED BY <2>1, GapFacts DEF Used, Slot
<1>2. Used(b) \in Nat /\ BlockItems(b) \in Seq(Values) /\ BlockItems(c) \in Seq(Values)
      /\ Len(BlockItems(b)) = Used(b) /\ Len(BlockItems(c)) = Used(b) + 1
  BY <1>1, ItemsOfBlock, BlockFields
<1>3. b.data[b.tail] \in Values
  BY BlockFields
<1> DEFINE a == Append(BlockItems(b), b.data[b.tail])
<1>4. /\ a \in Seq(Values) /\ Len(a) = Used(b) + 1
      /\ \A k \in 1 .. Used(b) : a[k] = BlockItems(b)[k]
      /\ a[Used(b) + 1] = b.data[b.tail]
  BY <1>2, <1>3, AppendProperties
<1>5. ASSUME NEW k \in 1 .. Used(b) + 1 PROVE BlockItems(c)[k] = a[k]
  <2>1. BlockItems(c)[k] = b.data[Slot(b, k)]
    BY <1>1, ItemsOfBlock
  <2>2. CASE k = Used(b) + 1
    <3>1. Slot(b, Used(b) + 1) = b.tail
      BY SlotFacts
    <3> QED BY <1>4, <2>1, <2>2, <3>1
  <2>3. CASE k # Used(b) + 1
    <3>1. k \in 1 .. Used(b)
      BY <1>2, <2>3
    <3> QED BY <1>4, <2>1, <3>1, ItemsOfBlock
  <2> QED BY <2>2, <2>3
<1>6. Used(b) + 1 \in Nat
  BY <1>2
<1> HIDE DEF a
<1>7. BlockItems(c) = a
  BY <1>2, <1>4, <1>5, <1>6, SameSeq
<1> QED BY <1>1, <1>7 DEF a

\* The front object is the first item.
LEMMA FirstItem ==
    ASSUME NEW b, BlockOK(b), b.tail # b.front
    PROVE  /\ Used(b) >= 1 /\ BlockItems(b) # <<>>
           /\ BlockItems(b)[1] = b.data[b.front] /\ Head(BlockItems(b)) = b.data[b.front]
<1>1. Used(b) \in Nat /\ Used(b) # 0
  BY ItemsOfBlock
<1>2. 1 \in 1 .. Used(b)
  BY <1>1
<1>4. BlockItems(b)[1] = b.data[b.front]
  BY <1>2, SlotFacts, ItemsOfBlock
<1>5. BlockItems(b) # <<>>
  BY <1>1, ItemsOfBlock, EmptySeq
<1>6. Head(BlockItems(b)) = BlockItems(b)[1]
  BY <1>5, ItemsOfBlock DEF Head
<1> QED BY <1>1, <1>4, <1>5, <1>6

\* Moving the front object out leaves the others.
LEMMA ItemsMoveOut ==
    ASSUME NEW b, BlockOK(b), NEW c, BlockOK(c), NEW v, b.tail # b.front,
           c.front = b.front, c.tail = b.tail, c.size = b.size,
           c.data = [b.data EXCEPT ![b.front] = v]
    PROVE  /\ Used(c) = Used(b)
           /\ \A k \in 2 .. Used(b) : BlockItems(c)[k] = BlockItems(b)[k]
           /\ Tail(BlockItems(c)) = Tail(BlockItems(b))
<1>1. /\ Used(c) = Used(b) /\ Used(b) \in Nat /\ Used(b) >= 1
      /\ \A k : Slot(c, k) = Slot(b, k)
  <2>1. Used(c) = Used(b) /\ \A k : Slot(c, k) = Slot(b, k)
    BY DEF Used, Gap, Slot
  <2> QED BY <2>1, FirstItem, ItemsOfBlock
<1>2. ASSUME NEW k \in 2 .. Used(b) PROVE BlockItems(c)[k] = BlockItems(b)[k]
  <2>0. k \in 1 .. Used(b) /\ k # 1
    BY <1>1
  <2>1. Slot(b, k) # b.front /\ Slot(b, k) \in 0 .. b.size - 1
    BY <2>0, SlotFacts
  <2>2. c.data[Slot(b, k)] = b.data[Slot(b, k)]
    BY <2>1, BlockFields
  <2>3. BlockItems(c)[k] = c.data[Slot(c, k)]
    BY <1>1, <2>0, ItemsOfBlock
  <2>4. BlockItems(b)[k] = b.data[Slot(b, k)]
    BY <2>0, ItemsOfBlock
  <2> QED BY <1>1, <2>2, <2>3, <2>4
<1> DEFINE s == BlockItems(b)
           t == BlockItems(c)
<1>3. /\ s \in Seq(Values) /\ t \in Seq(Values) /\ Len(s) = Used(b) /\ Len(t) = Used(b)
  BY <1>1, ItemsOfBlock
<1> HIDE DEF s, t
<1>4. s # <<>> /\ t # <<>>
  BY <1>1, <1>3, EmptySeq
<1>5. /\ Tail(s) \in Seq(Values) /\ Len(Tail(s)) = Used(b) - 1
      /\ \A i \in 1 .. Len(Tail(s)) : Tail(s)[i] = s[i + 1]
  BY <1>3, <1>4, HeadTailProperties
<1>6. /\ Tail(t) \in Seq(Values) /\ Len(Tail(t)) = Used(b) - 1
      /\ \A i \in 1 .. Len(Tail(t)) : Tail(t)[i] = t[i + 1]
  BY <1>3, <1>4, HeadTailProperties
<1>7. ASSUME NEW i \in 1 .. Used(b) - 1 PROVE Tail(t)[i] = Tail(s)[i]
  <2>1. i + 1 \in 2 .. Used(b)
    BY <1>1
  <2>2. t[i + 1] = s[i + 1]
    BY <1>2, <2>1 DEF s, t
  <2> QED BY <1>5, <1>6, <2>2
<1>8. Used(b) - 1 \in Nat
  BY <1>1
<1>9. Tail(t) = Tail(s)
  BY <1>5, <1>6, <1>7, <1>8, SameSeq
<1> QED BY <1>1, <1>2, <1>9 DEF s, t

\* Advancing the front drops the first item.
LEMMA ItemsPop ==
    ASSUME NEW b, BlockOK(b), NEW c, BlockOK(c), b.tail # b.front,
           c.front = After(b, b.front), c.tail = b.tail, c.size = b.size, c.data = b.data
    PROVE  /\ Used(c) = Used(b) - 1
           /\ BlockItems(c) = Tail(BlockItems(b))
           /\ \A k \in 1 .. Used(b) - 1 : BlockItems(c)[k] = BlockItems(b)[k + 1]
<1>1. Used(c) = Used(b) - 1 /\ Used(b) \in Nat /\ Used(b) >= 1 /\ Used(b) <= b.size - 1
  <2>1. b.front \in 0 .. b.size - 1 /\ b.size \in Nat
    BY BlockFields
  <2>2. Gap(c, c.front) = Gap(b, c.front)
    BY DEF Gap
  <2>3. Used(c) = Used(b) - 1
    BY <2>1, <2>2, GapFacts DEF Used
  <2> QED BY <2>1, <2>3, FirstItem, ItemsOfBlock
<1> DEFINE s == BlockItems(b)
           t == BlockItems(c)
<1>2. ASSUME NEW k \in 1 .. Used(b) - 1 PROVE t[k] = s[k + 1]
  <2>0. k + 1 \in 1 .. Used(b) /\ k \in 1 .. Used(c) /\ k \in 1 .. b.size - 1
    BY <1>1, BlockFields
  <2>1. t[k] = b.data[Slot(c, k)]
    BY <2>0, ItemsOfBlock
  <2>2. s[k + 1] = b.data[Slot(b, k + 1)]
    BY <2>0, ItemsOfBlock
  <2>3. Slot(c, k) = Slot(b, k + 1)
    <3> DEFINE n == b.size
               i == b.front
    <3>1. n \in Nat /\ n >= 2 /\ i \in 0 .. n - 1 /\ k \in 1 .. n - 1
      BY <2>0, BlockFields
    <3> HIDE DEF n, i
    <3>2. (((i + 1) % n) + k - 1) % n = (i + (k + 1) - 1) % n
      BY <3>1, SlotShifted
    <3> QED BY <3>2 DEF Slot, After, n, i
  <2> HIDE DEF s, t
  <2> QED BY <2>1, <2>2, <2>3
<1>3. /\ s \in Seq(Values) /\ t \in Seq(Values) /\ Len(s) = Used(b) /\ Len(t) = Used(b) - 1
  BY <1>1, ItemsOfBlock
<1> HIDE DEF s, t
<1>4. s # <<>>
  BY <1>1, <1>3, EmptySeq
<1>5. /\ Tail(s) \in Seq(Values) /\ Len(Tail(s)) = Used(b) - 1
      /\ \A i \in 1 .. Len(Tail(s)) : Tail(s)[i] = s[i + 1]
  BY <1>3, <1>4, HeadTailProperties
<1>6. Used(b) - 1 \in Nat
  BY <1>1
<1>7. t = Tail(s)
  BY <1>2, <1>3, <1>5, <1>6, SameSeq
<1> QED BY <1>1, <1>2, <1>7 DEF s, t

-----------------------------------------------------------------------------
(***************************************************************************)
(* The circular list of blocks.                                            *)
(***************************************************************************)
\* The first n blocks are the circle: all, or all but one that is about to be
\* linked in.  pos is how far each block is before the tail block.
RingOf(pos, B, tl, n) ==
    /\ Len(B) \in Nat /\ n \in 1 .. Len(B)
    /\ tl \in 1 .. n
    /\ \A b \in 1 .. Len(B) : B[b].next \in 1 .. n
    /\ pos \in [1 .. Len(B) -> Nat]
    /\ pos[tl] = 0
    /\ \A b \in 1 .. Len(B) : b # tl => pos[b] = pos[B[b].next] + 1
    /\ \A b, c \in 1 .. n : pos[b] = pos[c] => b = c
    /\ \A b \in 1 .. n : pos[b] <= n - 1
    /\ pos[B[tl].next] = n - 1

LEMMA RingFacts ==
    ASSUME NEW pos, NEW B, NEW tl, NEW n, RingOf(pos, B, tl, n)
    PROVE  /\ Len(B) \in Nat /\ n \in 1 .. Len(B)
           /\ tl \in 1 .. Len(B) /\ pos[tl] = 0
           /\ \A b \in 1 .. Len(B) :
                  /\ B[b].next \in 1 .. n /\ B[b].next \in 1 .. Len(B)
                  /\ pos[b] \in Nat /\ pos[b] <= n
                  /\ b # tl => pos[b] = pos[B[b].next] + 1
<1>1. Len(B) \in Nat /\ n \in 1 .. Len(B) /\ tl \in 1 .. n /\ pos[tl] = 0
  BY DEF RingOf
<1>2. \A b \in 1 .. Len(B) : /\ B[b].next \in 1 .. n /\ pos[b] \in Nat
                             /\ b # tl => pos[b] = pos[B[b].next] + 1
  BY DEF RingOf
<1>3. \A b \in 1 .. n : b \in 1 .. Len(B) /\ pos[b] <= n - 1
  BY <1>1 DEF RingOf
<1>4. ASSUME NEW b \in 1 .. Len(B) PROVE pos[b] <= n
  <2>1. CASE b = tl
    BY <1>1, <2>1
  <2>2. CASE b # tl
    <3>1. pos[b] = pos[B[b].next] + 1 /\ B[b].next \in 1 .. n
      BY <1>1, <1>2, <2>2
    <3>2. pos[B[b].next] <= n - 1 /\ pos[B[b].next] \in Nat
      BY <1>1, <1>2, <1>3, <3>1
    <3> QED BY <1>1, <3>1, <3>2
  <2> QED BY <2>1, <2>2
<1>5. \A b \in 1 .. Len(B) : B[b].next \in 1 .. Len(B)
  BY <1>1, <1>2
<1> QED BY <1>1, <1>2, <1>4, <1>5

Cat(s, t) == s \o t

LEMMA CatTyped ==
    ASSUME NEW S, NEW s \in Seq(S), NEW t \in Seq(S)
    PROVE  /\ Cat(s, t) \in Seq(S) /\ Len(Cat(s, t)) = Len(s) + Len(t)
           /\ Cat(s, <<>>) = s /\ Cat(<<>>, t) = t
           /\ \A i \in 1 .. Len(s) : Cat(s, t)[i] = s[i]
           /\ \A i \in 1 .. Len(t) : Cat(s, t)[Len(s) + i] = t[i]
<1>1. /\ s \o t \in Seq(S) /\ Len(s \o t) = Len(s) + Len(t)
      /\ \A i \in 1 .. Len(s) + Len(t) :
             (s \o t)[i] = IF i <= Len(s) THEN s[i] ELSE t[i - Len(s)]
  BY ConcatProperties
<1>2. Len(s) \in Nat /\ Len(t) \in Nat
  BY LenProperties
<1>3. s \o <<>> = s /\ <<>> \o t = t
  BY ConcatEmptySeq
<1> DEFINE r == s \o t
<1> HIDE DEF r
<1>4. /\ r \in Seq(S) /\ Len(r) = Len(s) + Len(t)
      /\ \A i \in 1 .. Len(s) + Len(t) :
             r[i] = IF i <= Len(s) THEN s[i] ELSE t[i - Len(s)]
  BY <1>1 DEF r
<1>5. \A i \in 1 .. Len(s) : r[i] = s[i]
  BY <1>2, <1>4
<1>6. ASSUME NEW i \in 1 .. Len(t) PROVE r[Len(s) + i] = t[i]
  <2>1. Len(s) + i \in 1 .. Len(s) + Len(t) /\ ~(Len(s) + i <= Len(s))
        /\ Len(s) + i - Len(s) = i
    BY <1>2
  <2> QED BY <1>4, <2>1
<1>7. Cat(s, t) = r /\ Cat(s, <<>>) = s /\ Cat(<<>>, t) = t
  BY <1>3 DEF r, Cat
<1> QED BY <1>4, <1>5, <1>6, <1>7

\* c is s followed by t.
Joins(c, s, t, m, k) ==
    /\ m = Len(s) /\ k = Len(t) /\ m \in Nat /\ k \in Nat /\ Len(c) = m + k
    /\ \A i \in 1 .. m : c[i] = s[i]
    /\ \A i \in 1 .. k : c[m + i] = t[i]

LEMMA CatItems ==
    ASSUME NEW S, NEW s \in Seq(S), NEW t \in Seq(S)
    PROVE  Cat(s, t) \in Seq(S) /\ Joins(Cat(s, t), s, t, Len(s), Len(t))
<1>1. /\ s \o t \in Seq(S) /\ Len(s \o t) = Len(s) + Len(t)
      /\ \A i \in 1 .. Len(s) + Len(t) :
             (s \o t)[i] = IF i <= Len(s) THEN s[i] ELSE t[i - Len(s)]
  BY ConcatProperties
<1>2. Len(s) \in Nat /\ Len(t) \in Nat
  BY LenProperties
<1> DEFINE r == s \o t
<1> HIDE DEF r
<1>3. /\ r \in Seq(S) /\ Len(r) = Len(s) + Len(t)
      /\ \A i \in 1 .. Len(s) + Len(t) :
             r[i] = IF i <= Len(s) THEN s[i] ELSE t[i - Len(s)]
  BY <1>1 DEF r
<1>4. \A i \in 1 .. Len(s) : r[i] = s[i]
  BY <1>2, <1>3
<1>5. ASSUME NEW i \in 1 .. Len(t) PROVE r[Len(s) + i] = t[i]
  <2>1. Len(s) + i \in 1 .. Len(s) + Len(t) /\ ~(Len(s) + i <= Len(s))
        /\ Len(s) + i - Len(s) = i
    BY <1>2
  <2> QED BY <1>3, <2>1
<1>6. Joins(r, s, t, Len(s), Len(t))
  BY <1>2, <1>3, <1>4, <1>5 DEF Joins
<1>7. Cat(s, t) = r
  BY DEF r, Cat
<1> QED BY <1>3, <1>6, <1>7

LEMMA CatAssoc ==
    ASSUME NEW S, NEW s \in Seq(S), NEW t \in Seq(S), NEW u \in Seq(S)
    PROVE  Cat(Cat(s, t), u) = Cat(s, Cat(t, u))
  BY ConcatAssociative DEF Cat

Add(s, v) == Append(s, v)

LEMMA AddTyped ==
    ASSUME NEW S, NEW s \in Seq(S), NEW v \in S
    PROVE  /\ Add(s, v) \in Seq(S) /\ Len(Add(s, v)) = Len(s) + 1 /\ Add(s, v) # <<>>
           /\ Add(s, v) = Cat(s, Add(<<>>, v))
           /\ \A i \in 1 .. Len(s) : Add(s, v)[i] = s[i]
           /\ Add(s, v)[Len(s) + 1] = v
<1>1. Add(<<>>, v) = <<v>>
  BY DEF Add
<1>2. Append(s, v) = s \o <<v>>
  BY AppendIsConcat
<1>3. Add(s, v) = Cat(s, Add(<<>>, v))
  BY <1>1, <1>2 DEF Add, Cat
<1>4. /\ Add(s, v) \in Seq(S) /\ Len(Add(s, v)) = Len(s) + 1 /\ Add(s, v) # <<>>
      /\ \A i \in 1 .. Len(s) : Add(s, v)[i] = s[i]
      /\ Add(s, v)[Len(s) + 1] = v
  BY AppendProperties DEF Add
<1> QED BY <1>3, <1>4

LEMMA CatAdd ==
    ASSUME NEW S, NEW s \in Seq(S), NEW t \in Seq(S), NEW v \in S
    PROVE  Add(Cat(s, t), v) = Cat(s, Add(t, v))
<1> DEFINE w == Add(<<>>, v)
<1>1. w \in Seq(S) /\ Cat(s, t) \in Seq(S)
  BY CatTyped, AddTyped, EmptySeq
<1>2. Add(Cat(s, t), v) = Cat(Cat(s, t), w) /\ Add(t, v) = Cat(t, w)
  BY <1>1, AddTyped
<1> HIDE DEF w
<1>3. Cat(Cat(s, t), w) = Cat(s, Cat(t, w))
  BY <1>1, CatAssoc
<1> QED BY <1>2, <1>3

\* The items from each block to the tail block.
IsChain(f, B, tl) ==
    f = [b \in 1 .. Len(B) |-> IF b = tl THEN BlockItems(B[b])
                               ELSE Cat(BlockItems(B[b]), f[B[b].next])]

LEMMA ChainAt ==
    ASSUME NEW f, NEW B, NEW tl, IsChain(f, B, tl), NEW b \in 1 .. Len(B)
    PROVE  /\ b = tl => f[b] = BlockItems(B[b])
           /\ b # tl => f[b] = Cat(BlockItems(B[b]), f[B[b].next])
  BY DEF IsChain

LEMMA ChainUpTo ==
    ASSUME NEW pos, NEW B, NEW tl, NEW N, RingOf(pos, B, tl, N),
           NEW m \in Nat
    PROVE  \E f : \A b \in 1 .. Len(B) : pos[b] <= m =>
               f[b] = IF b = tl THEN BlockItems(B[b]) ELSE Cat(BlockItems(B[b]), f[B[b].next])
<1> DEFINE D == 1 .. Len(B)
           Eq(f, b) == f[b] = IF b = tl THEN BlockItems(B[b])
                              ELSE Cat(BlockItems(B[b]), f[B[b].next])
           Good(f, n) == \A b \in D : pos[b] <= n => Eq(f, b)
           S == {n \in Nat : \E f : Good(f, n)}
<1>1. \A b \in D : /\ B[b].next \in D /\ pos[b] \in Nat
                   /\ b # tl => pos[b] = pos[B[b].next] + 1
  BY RingFacts
<1>2. 0 \in S
  <2> DEFINE f == [b \in D |-> BlockItems(B[b])]
  <2>1. \A b \in D : pos[b] <= 0 => b = tl
    BY <1>1
  <2>2. Good(f, 0)
    BY <2>1
  <2> HIDE DEF Good
  <2> QED BY <2>2
<1>3. ASSUME NEW n \in Nat, n \in S PROVE n + 1 \in S
  <2>1. PICK f : Good(f, n)
    BY <1>3
  <2> DEFINE g == [b \in D |-> IF b = tl THEN BlockItems(B[b])
                               ELSE IF pos[b] <= n THEN f[b]
                               ELSE Cat(BlockItems(B[b]), f[B[b].next])]
  <2>2. ASSUME NEW b \in D, pos[b] <= n PROVE g[b] = f[b]
    BY <2>1, <2>2
  <2>3. ASSUME NEW b \in D, pos[b] <= n + 1 PROVE Eq(g, b)
    <3>1. CASE b = tl
      BY <3>1
    <3>2. CASE b # tl
      <4>1. B[b].next \in D /\ pos[B[b].next] <= n /\ pos[b] \in Nat
        BY <1>1, <2>3, <3>2
      <4>2. g[B[b].next] = f[B[b].next]
        BY <2>2, <4>1
      <4>3. g[b] = Cat(BlockItems(B[b]), f[B[b].next])
        <5>1. CASE pos[b] <= n
          <6>1. Eq(f, b)
            BY <2>1, <5>1
          <6> QED BY <3>2, <5>1, <6>1
        <5>2. CASE ~(pos[b] <= n)
          BY <3>2, <5>2
        <5> QED BY <5>1, <5>2
      <4> HIDE DEF g
      <4> QED BY <3>2, <4>2, <4>3
    <3> QED BY <3>1, <3>2
  <2>4. Good(g, n + 1)
    BY <2>3
  <2> HIDE DEF g, Good
  <2> QED BY <2>4
<1>4. m \in S
  <2> HIDE DEF S
  <2> QED BY <1>2, <1>3, NatInd
<1> QED BY <1>4

LEMMA ChainExists ==
    ASSUME NEW pos, NEW B, NEW tl, NEW N, RingOf(pos, B, tl, N)
    PROVE  \E f : IsChain(f, B, tl)
<1>1. Len(B) \in Nat
  BY DEF RingOf
<1>2. PICK f : \A b \in 1 .. Len(B) : pos[b] <= Len(B) =>
               f[b] = IF b = tl THEN BlockItems(B[b]) ELSE Cat(BlockItems(B[b]), f[B[b].next])
  BY <1>1, ChainUpTo
<1> DEFINE g == [b \in 1 .. Len(B) |-> f[b]]
<1>3. ASSUME NEW b \in 1 .. Len(B)
      PROVE  g[b] = IF b = tl THEN BlockItems(B[b]) ELSE Cat(BlockItems(B[b]), g[B[b].next])
  <2>1. pos[b] <= Len(B) /\ B[b].next \in 1 .. Len(B)
    BY RingFacts
  <2>2. g[b] = f[b] /\ g[B[b].next] = f[B[b].next]
    BY <2>1
  <2> HIDE DEF g
  <2> QED BY <1>2, <2>1, <2>2
<1>4. g = [b \in 1 .. Len(B) |-> g[b]]
  OBVIOUS
<1> HIDE DEF g
<1>5. IsChain(g, B, tl)
  BY <1>3, <1>4 DEF IsChain
<1> QED BY <1>5

\* What satisfies the equation as far as the front block is the chain so far.
LEMMA ChainUnique ==
    ASSUME NEW pos, NEW B, NEW tl, NEW N, RingOf(pos, B, tl, N),
           NEW f, IsChain(f, B, tl), NEW m \in Nat, NEW g,
           \A b \in 1 .. Len(B) : pos[b] <= m =>
               g[b] = IF b = tl THEN BlockItems(B[b]) ELSE Cat(BlockItems(B[b]), g[B[b].next])
    PROVE  \A b \in 1 .. Len(B) : pos[b] <= m => f[b] = g[b]
<1> DEFINE D == 1 .. Len(B)
           S == {n \in Nat : n <= m => \A b \in D : pos[b] <= n => f[b] = g[b]}
<1>1. \A b \in D : /\ B[b].next \in D /\ pos[b] \in Nat
                   /\ b # tl => pos[b] = pos[B[b].next] + 1
                   /\ b = tl => f[b] = BlockItems(B[b])
                   /\ b # tl => f[b] = Cat(BlockItems(B[b]), f[B[b].next])
  <2> SUFFICES ASSUME NEW b \in D
               PROVE  /\ B[b].next \in D /\ pos[b] \in Nat
                      /\ b # tl => pos[b] = pos[B[b].next] + 1
                      /\ b = tl => f[b] = BlockItems(B[b])
                      /\ b # tl => f[b] = Cat(BlockItems(B[b]), f[B[b].next])
    OBVIOUS
  <2>1. /\ B[b].next \in D /\ pos[b] \in Nat
        /\ b # tl => pos[b] = pos[B[b].next] + 1
    BY RingFacts
  <2>2. /\ b = tl => f[b] = BlockItems(B[b])
        /\ b # tl => f[b] = Cat(BlockItems(B[b]), f[B[b].next])
    BY ChainAt
  <2> QED BY <2>1, <2>2
<1>2. 0 \in S
  <2>1. \A b \in D : pos[b] <= 0 => b = tl
    BY <1>1
  <2> QED BY <1>1, <2>1
<1>3. ASSUME NEW n \in Nat, n \in S PROVE n + 1 \in S
  <2> SUFFICES ASSUME n + 1 <= m, NEW b \in D, pos[b] <= n + 1 PROVE f[b] = g[b]
    OBVIOUS
  <2>1. CASE b = tl
    BY <1>1, <2>1
  <2>2. CASE b # tl
    <3>1. B[b].next \in D /\ pos[B[b].next] <= n /\ pos[b] <= m
      BY <1>1, <2>2
    <3>2. f[B[b].next] = g[B[b].next]
      BY <1>3, <3>1
    <3> QED BY <1>1, <2>2, <3>1, <3>2
  <2> QED BY <2>1, <2>2
<1>4. m \in S
  <2> HIDE DEF S
  <2> QED BY <1>2, <1>3, NatInd
<1> QED BY <1>4

LEMMA ChainsAgree ==
    ASSUME NEW pos, NEW C, NEW tl, NEW N, RingOf(pos, C, tl, N), NEW h, IsChain(h, C, tl),
           NEW B, Len(B) = Len(C), NEW f, IsChain(f, B, tl), NEW m \in Nat,
           \A b \in 1 .. Len(C) : pos[b] <= m =>
               BlockItems(C[b]) = BlockItems(B[b]) /\ (b # tl => C[b].next = B[b].next)
    PROVE  \A b \in 1 .. Len(C) : pos[b] <= m => h[b] = f[b]
<1>1. ASSUME NEW b \in 1 .. Len(C), pos[b] <= m
      PROVE  f[b] = IF b = tl THEN BlockItems(C[b]) ELSE Cat(BlockItems(C[b]), f[C[b].next])
  BY <1>1 DEF IsChain
<1> QED BY <1>1, ChainUnique

ContentsOf(B, fr, tl) ==
    LET from[b \in 1 .. Len(B)] ==
            IF b = tl THEN BlockItems(B[b]) ELSE BlockItems(B[b]) \o from[B[b].next]
    IN  from[fr]

LEMMA ContentsChain ==
    ASSUME NEW pos, NEW B, NEW tl, NEW N, RingOf(pos, B, tl, N)
    PROVE  \E f : IsChain(f, B, tl) /\ \A fr : ContentsOf(B, fr, tl) = f[fr]
<1> DEFINE f == CHOOSE h : IsChain(h, B, tl)
<1>1. IsChain(f, B, tl)
  <2>1. \E h : IsChain(h, B, tl)
    BY ChainExists
  <2> QED BY <2>1
<1>2. \A fr : ContentsOf(B, fr, tl) = f[fr]
  BY DEF ContentsOf, IsChain, Cat
<1> QED BY <1>1, <1>2

LEMMA ContentsIs ==
    ASSUME NEW pos, NEW B, NEW tl, NEW N, RingOf(pos, B, tl, N),
           NEW fr \in 1 .. Len(B), NEW g,
           \A b \in 1 .. Len(B) : pos[b] <= pos[fr] =>
               g[b] = IF b = tl THEN BlockItems(B[b]) ELSE Cat(BlockItems(B[b]), g[B[b].next])
    PROVE  ContentsOf(B, fr, tl) = g[fr]
<1>1. PICK f : IsChain(f, B, tl) /\ ContentsOf(B, fr, tl) = f[fr]
  BY ContentsChain
<1>2. pos[fr] \in Nat /\ pos[fr] <= pos[fr]
  BY RingFacts
<1>3. f[fr] = g[fr]
  BY <1>1, <1>2, ChainUnique
<1> QED BY <1>1, <1>3

BlocksOK(B) == \A b \in 1 .. Len(B) : BlockOK(B[b])

LEMMA ChainTyped ==
    ASSUME NEW pos, NEW B, NEW tl, NEW N, RingOf(pos, B, tl, N),
           BlocksOK(B), NEW f, IsChain(f, B, tl)
    PROVE  \A b \in 1 .. Len(B) : f[b] \in Seq(Values)
<1> DEFINE D == 1 .. Len(B)
           S == {n \in Nat : \A b \in D : pos[b] <= n => f[b] \in Seq(Values)}
<1>1. \A b \in D : /\ B[b].next \in D /\ pos[b] \in Nat /\ pos[b] <= Len(B)
                   /\ b # tl => pos[b] = pos[B[b].next] + 1
                   /\ b = tl => f[b] = BlockItems(B[b])
                   /\ b # tl => f[b] = Cat(BlockItems(B[b]), f[B[b].next])
                   /\ BlockItems(B[b]) \in Seq(Values)
  <2> SUFFICES ASSUME NEW b \in D
               PROVE  /\ B[b].next \in D /\ pos[b] \in Nat /\ pos[b] <= Len(B)
                      /\ b # tl => pos[b] = pos[B[b].next] + 1
                      /\ b = tl => f[b] = BlockItems(B[b])
                      /\ b # tl => f[b] = Cat(BlockItems(B[b]), f[B[b].next])
                      /\ BlockItems(B[b]) \in Seq(Values)
    OBVIOUS
  <2>1. /\ B[b].next \in D /\ pos[b] \in Nat /\ pos[b] <= Len(B)
        /\ b # tl => pos[b] = pos[B[b].next] + 1
    BY RingFacts
  <2>2. /\ b = tl => f[b] = BlockItems(B[b])
        /\ b # tl => f[b] = Cat(BlockItems(B[b]), f[B[b].next])
    BY ChainAt
  <2>3. BlockItems(B[b]) \in Seq(Values)
    BY ItemsOfBlock DEF BlocksOK
  <2> QED BY <2>1, <2>2, <2>3
<1>2. 0 \in S
  <2>1. \A b \in D : pos[b] <= 0 => b = tl
    BY <1>1
  <2> QED BY <1>1, <2>1
<1>3. ASSUME NEW n \in Nat, n \in S PROVE n + 1 \in S
  <2> SUFFICES ASSUME NEW b \in D, pos[b] <= n + 1 PROVE f[b] \in Seq(Values)
    OBVIOUS
  <2>1. CASE b = tl
    BY <1>1, <2>1
  <2>2. CASE b # tl
    <3>1. B[b].next \in D /\ pos[B[b].next] <= n
      BY <1>1, <2>2
    <3>2. f[B[b].next] \in Seq(Values)
      BY <1>3, <3>1
    <3>3. BlockItems(B[b]) \in Seq(Values) /\ f[b] = Cat(BlockItems(B[b]), f[B[b].next])
      BY <1>1, <2>2
    <3>4. Cat(BlockItems(B[b]), f[B[b].next]) \in Seq(Values)
      BY <3>2, <3>3, CatTyped
    <3> QED BY <3>3, <3>4
  <2> QED BY <2>1, <2>2
<1>4. Len(B) \in S
  <2>1. Len(B) \in Nat
    BY DEF RingOf
  <2> HIDE DEF S
  <2> QED BY <1>2, <1>3, <2>1, NatInd
<1> QED BY <1>1, <1>4

-----------------------------------------------------------------------------
(***************************************************************************)
(* What the steps do to the contents.                                      *)
(***************************************************************************)
\* Nothing, as long as the blocks up to the front block keep theirs.
LEMMA ContentsKept ==
    ASSUME NEW pos, NEW B, NEW tl, NEW N, RingOf(pos, B, tl, N),
           NEW pos2, NEW C, NEW N2, RingOf(pos2, C, tl, N2),
           NEW fr \in 1 .. Len(B), fr \in 1 .. Len(C),
           \A b \in 1 .. Len(C) : pos2[b] <= pos2[fr] =>
               /\ b \in 1 .. Len(B)
               /\ BlockItems(C[b]) = BlockItems(B[b])
               /\ b # tl => C[b].next = B[b].next
    PROVE  ContentsOf(C, fr, tl) = ContentsOf(B, fr, tl)
<1>1. PICK f : IsChain(f, B, tl) /\ ContentsOf(B, fr, tl) = f[fr]
  BY ContentsChain
<1>2. ASSUME NEW b \in 1 .. Len(C), pos2[b] <= pos2[fr]
      PROVE  f[b] = IF b = tl THEN BlockItems(C[b]) ELSE Cat(BlockItems(C[b]), f[C[b].next])
  BY <1>1, <1>2 DEF IsChain
<1>3. ContentsOf(C, fr, tl) = f[fr]
  BY <1>2, ContentsIs
<1> QED BY <1>1, <1>3

\* An element added to the tail block is added to the contents.
LEMMA ContentsAdded ==
    ASSUME NEW pos, NEW B, NEW tl, NEW N, RingOf(pos, B, tl, N),
           NEW C, RingOf(pos, C, tl, N), Len(C) = Len(B),
           BlocksOK(B), NEW fr \in 1 .. Len(B), NEW v \in Values,
           BlockItems(C[tl]) = Add(BlockItems(B[tl]), v),
           \A b \in 1 .. Len(B) : b # tl =>
               BlockItems(C[b]) = BlockItems(B[b]) /\ C[b].next = B[b].next
    PROVE  ContentsOf(C, fr, tl) = Add(ContentsOf(B, fr, tl), v)
<1>1. PICK f : IsChain(f, B, tl) /\ ContentsOf(B, fr, tl) = f[fr]
  BY ContentsChain
<1>2. \A b \in 1 .. Len(B) : f[b] \in Seq(Values)
  BY <1>1, ChainTyped
<1> DEFINE g == [b \in 1 .. Len(B) |-> Add(f[b], v)]
<1>3. ASSUME NEW b \in 1 .. Len(C)
      PROVE  g[b] = IF b = tl THEN BlockItems(C[b]) ELSE Cat(BlockItems(C[b]), g[C[b].next])
  <2>1. f[b] = (IF b = tl THEN BlockItems(B[b]) ELSE Cat(BlockItems(B[b]), f[B[b].next]))
        /\ B[b].next \in 1 .. Len(B)
    BY <1>1, RingFacts DEF IsChain
  <2>2. CASE b = tl
    BY <2>1, <2>2
  <2>3. CASE b # tl
    <3> DEFINE s == BlockItems(B[b])
               t == f[B[b].next]
    <3>1. s \in Seq(Values) /\ t \in Seq(Values)
      BY <1>2, <2>1, ItemsOfBlock DEF BlocksOK
    <3>2. Add(Cat(s, t), v) = Cat(s, Add(t, v))
      <4> HIDE DEF s, t
      <4> QED BY <3>1, CatAdd
    <3>3. g[b] = Add(Cat(s, t), v) /\ g[C[b].next] = Add(t, v) /\ BlockItems(C[b]) = s
      BY <2>1, <2>3
    <3> HIDE DEF g, s, t
    <3> QED BY <2>3, <3>2, <3>3
  <2> QED BY <2>2, <2>3
<1>4. ContentsOf(C, fr, tl) = g[fr]
  <2> HIDE DEF g
  <2> QED BY <1>3, ContentsIs
<1> QED BY <1>1, <1>4

\* Moving the tail on to the next block adds what that holds, one element.
LEMMA ContentsMoved ==
    ASSUME NEW pos, NEW B, NEW tl, RingOf(pos, B, tl, Len(B)),
           NEW pos2, RingOf(pos2, B, B[tl].next, Len(B)),
           BlocksOK(B), NEW fr \in 1 .. Len(B), NEW v \in Values,
           tl # B[tl].next, fr # B[tl].next, BlockItems(B[B[tl].next]) = Add(<<>>, v)
    PROVE  ContentsOf(B, fr, B[tl].next) = Add(ContentsOf(B, fr, tl), v)
<1> DEFINE nt == B[tl].next
           D == 1 .. Len(B)
<1>1. PICK f : IsChain(f, B, tl) /\ ContentsOf(B, fr, tl) = f[fr]
  BY ContentsChain
<1>2. \A b \in D : f[b] \in Seq(Values)
  BY <1>1, ChainTyped
<1>3. /\ \A b \in D : /\ B[b].next \in D /\ pos[b] \in Nat /\ pos[b] <= pos[nt] /\ pos[nt] \in Nat
                      /\ b # tl => pos[b] = pos[B[b].next] + 1
      /\ tl \in D
  BY RingFacts DEF RingOf
<1> DEFINE g == [b \in D |-> IF b = nt THEN Add(<<>>, v) ELSE Add(f[b], v)]
<1>4. ASSUME NEW b \in D
      PROVE  g[b] = IF b = nt THEN BlockItems(B[b]) ELSE Cat(BlockItems(B[b]), g[B[b].next])
  <2>1. CASE b = nt
    BY <2>1
  <2>2. CASE b # nt
    <3>1. f[b] = (IF b = tl THEN BlockItems(B[b]) ELSE Cat(BlockItems(B[b]), f[B[b].next]))
          /\ BlockItems(B[b]) \in Seq(Values)
      BY <1>1, ItemsOfBlock DEF IsChain, BlocksOK
    <3>2. g[b] = Add(f[b], v)
      BY <2>2
    <3>3. CASE b = tl
      <4>1. g[B[b].next] = Add(<<>>, v)
        BY <1>3, <3>3
      <4>2. Add(BlockItems(B[b]), v) = Cat(BlockItems(B[b]), Add(<<>>, v))
        BY <3>1, AddTyped
      <4> HIDE DEF g
      <4> QED BY <2>2, <3>1, <3>2, <3>3, <4>1, <4>2
    <3>4. CASE b # tl
      <4>1. B[b].next # nt /\ B[b].next \in D
        BY <1>3, <3>4
      <4> DEFINE s == BlockItems(B[b])
                 t == f[B[b].next]
      <4>2. s \in Seq(Values) /\ t \in Seq(Values)
        BY <1>2, <3>1, <4>1
      <4>3. Add(Cat(s, t), v) = Cat(s, Add(t, v))
        <5> HIDE DEF s, t
        <5> QED BY <4>2, CatAdd
      <4>4. g[b] = Add(Cat(s, t), v) /\ g[B[b].next] = Add(t, v)
        BY <3>1, <3>2, <3>4, <4>1
      <4> HIDE DEF g, s, t
      <4> QED BY <2>2, <4>3, <4>4 DEF s
    <3> QED BY <3>3, <3>4
  <2> QED BY <2>1, <2>2
<1>5. ContentsOf(B, fr, nt) = g[fr]
  <2> HIDE DEF g
  <2> QED BY <1>4, ContentsIs
<1> QED BY <1>1, <1>5

\* C differs from B in the items of block fr, and in the link of the tail block.
AlikeBut(fr, B, C, pos, tl, N) ==
    /\ RingOf(pos, B, tl, N) /\ RingOf(pos, C, tl, N) /\ Len(C) = Len(B)
    /\ BlocksOK(B) /\ BlocksOK(C) /\ fr \in 1 .. Len(B)
    /\ \A b \in 1 .. Len(B) : /\ b # fr => BlockItems(C[b]) = BlockItems(B[b])
                              /\ b # tl => C[b].next = B[b].next

\* What happens in the front block happens at the front of the contents.
LEMMA SameAfterFront ==
    ASSUME NEW fr, NEW B, NEW C, NEW pos, NEW tl, NEW N, AlikeBut(fr, B, C, pos, tl, N)
    PROVE  \E rest \in Seq(Values) :
               /\ ContentsOf(B, fr, tl) = Cat(BlockItems(B[fr]), rest)
               /\ ContentsOf(C, fr, tl) = Cat(BlockItems(C[fr]), rest)
<1> SUFFICES ASSUME RingOf(pos, B, tl, N), RingOf(pos, C, tl, N), Len(C) = Len(B),
                    BlocksOK(B), BlocksOK(C), fr \in 1 .. Len(B),
                    \A b \in 1 .. Len(B) : /\ b # fr => BlockItems(C[b]) = BlockItems(B[b])
                                           /\ b # tl => C[b].next = B[b].next
             PROVE  \E rest \in Seq(Values) :
                        /\ ContentsOf(B, fr, tl) = Cat(BlockItems(B[fr]), rest)
                        /\ ContentsOf(C, fr, tl) = Cat(BlockItems(C[fr]), rest)
  BY DEF AlikeBut
<1>1. PICK f : IsChain(f, B, tl) /\ ContentsOf(B, fr, tl) = f[fr]
  BY ContentsChain
<1>0. PICK h : IsChain(h, C, tl) /\ ContentsOf(C, fr, tl) = h[fr]
  BY ContentsChain
<1>2. \A b \in 1 .. Len(B) : f[b] \in Seq(Values)
  BY <1>1, ChainTyped
<1>3. \A b \in 1 .. Len(B) : /\ B[b].next \in 1 .. Len(B) /\ pos[b] \in Nat
                             /\ b # tl => pos[b] = pos[B[b].next] + 1
  BY RingFacts
<1>4. CASE fr = tl
  <2>1. ContentsOf(B, fr, tl) = BlockItems(B[fr]) /\ BlockItems(B[fr]) \in Seq(Values)
    BY <1>1, <1>4, <1>2 DEF IsChain
  <2>2. ContentsOf(C, fr, tl) = BlockItems(C[fr])
    BY <1>0, <1>4 DEF IsChain
  <2>3. <<>> \in Seq(Values) /\ Cat(BlockItems(B[fr]), <<>>) = BlockItems(B[fr])
    BY <2>1, EmptySeq, CatTyped
  <2>4. Cat(BlockItems(C[fr]), <<>>) = BlockItems(C[fr])
    <3>1. BlockItems(C[fr]) \in Seq(Values)
      BY ItemsOfBlock DEF BlocksOK
    <3> QED BY <3>1, CatTyped
  <2> QED BY <2>1, <2>2, <2>3, <2>4
<1>5. CASE fr # tl
  <2> DEFINE n == B[fr].next
  <2>1. n \in 1 .. Len(B) /\ pos[fr] = pos[n] + 1 /\ pos[n] \in Nat
    BY <1>3, <1>5, RingFacts
  <2>2. \A b \in 1 .. Len(C) : pos[b] <= pos[n] => b # fr
    BY <1>3, <2>1
  <2>4. h[n] = f[n]
    <3> DEFINE m == pos[n]
    <3>1. /\ m \in Nat /\ n \in 1 .. Len(C) /\ pos[n] <= m
          /\ \A b \in 1 .. Len(C) : pos[b] <= m =>
                 BlockItems(C[b]) = BlockItems(B[b]) /\ (b # tl => C[b].next = B[b].next)
      BY <2>1, <2>2
    <3> HIDE DEF n, m
    <3>2. IsChain(h, C, tl) /\ IsChain(f, B, tl)
      BY <1>0, <1>1
    <3>3. \A b \in 1 .. Len(C) : pos[b] <= m => h[b] = f[b]
      <4>1. /\ RingOf(pos, C, tl, N) /\ IsChain(h, C, tl) /\ IsChain(f, B, tl)
            /\ Len(B) = Len(C) /\ m \in Nat
            /\ \A b \in 1 .. Len(C) : pos[b] <= m =>
                   BlockItems(C[b]) = BlockItems(B[b]) /\ (b # tl => C[b].next = B[b].next)
        BY <3>1, <3>2
      <4> QED BY ONLY <4>1, ChainsAgree
    <3> QED BY <3>1, <3>3
  <2>5. C[fr].next = n
    BY <1>5
  <2>6. h[fr] = Cat(BlockItems(C[fr]), h[n])
    BY <1>0, <1>5, <2>5 DEF IsChain
  <2>7. f[fr] = Cat(BlockItems(B[fr]), f[n])
    BY <1>1, <1>5 DEF IsChain
  <2> QED BY <1>0, <1>1, <1>2, <2>1, <2>4, <2>6, <2>7
<1> QED BY <1>4, <1>5

LEMMA ContentsAtFront ==
    ASSUME NEW pos, NEW B, NEW tl, NEW N, RingOf(pos, B, tl, N),
           NEW C, RingOf(pos, C, tl, N), Len(C) = Len(B),
           BlocksOK(B), BlocksOK(C), NEW fr \in 1 .. Len(B),
           \A b \in 1 .. Len(B) :
               /\ b # fr => BlockItems(C[b]) = BlockItems(B[b])
               /\ b # tl => C[b].next = B[b].next
    PROVE  \E rest \in Seq(Values) :
               /\ ContentsOf(B, fr, tl) = Cat(BlockItems(B[fr]), rest)
               /\ ContentsOf(C, fr, tl) = Cat(BlockItems(C[fr]), rest)
<1>1. AlikeBut(fr, B, C, pos, tl, N)
  BY DEF AlikeBut
<1> QED BY <1>1, SameAfterFront

\* An empty front block that is not the tail block can be left.
LEMMA ContentsFrom ==
    ASSUME NEW pos, NEW B, NEW tl, NEW N, RingOf(pos, B, tl, N),
           BlocksOK(B), NEW fr \in 1 .. Len(B)
    PROVE  /\ ContentsOf(B, fr, tl) \in Seq(Values)
           /\ fr = tl => ContentsOf(B, fr, tl) = BlockItems(B[fr])
           /\ fr # tl => ContentsOf(B, fr, tl) =
                             Cat(BlockItems(B[fr]), ContentsOf(B, B[fr].next, tl))
<1>1. PICK f : IsChain(f, B, tl) /\ \A b : ContentsOf(B, b, tl) = f[b]
  BY ContentsChain
<1>2. \A b \in 1 .. Len(B) : f[b] \in Seq(Values)
  BY <1>1, ChainTyped
<1>3. fr = tl => f[fr] = BlockItems(B[fr])
  BY <1>1, ChainAt
<1>4. fr # tl => f[fr] = Cat(BlockItems(B[fr]), f[B[fr].next])
  BY <1>1, ChainAt
<1> QED BY <1>1, <1>2, <1>3, <1>4

-----------------------------------------------------------------------------
(***************************************************************************)
(* How long the contents are.                                              *)
(***************************************************************************)
LEMMA Times ==
    ASSUME NEW a \in Nat, NEW n \in Nat, NEW m \in Nat
    PROVE  /\ a * n \in Nat /\ n * a = a * n
           /\ a * (n + 1) = a * n + a
           /\ n <= m => a * n <= a * m
  OBVIOUS

\* At least the full blocks before the front block.
LEMMA ContentsAtLeast ==
    ASSUME NEW pos, NEW B, NEW tl, NEW N, RingOf(pos, B, tl, N),
           BlocksOK(B), NEW fr \in 1 .. Len(B), NEW A \in Nat,
           \A b \in 1 .. Len(B) : pos[b] < pos[fr] => Used(B[b]) >= A
    PROVE  Len(ContentsOf(B, fr, tl)) >= A * pos[fr]
<1>1. PICK f : IsChain(f, B, tl) /\ ContentsOf(B, fr, tl) = f[fr]
  BY ContentsChain
<1> DEFINE D == 1 .. Len(B)
           S == {k \in Nat : \A b \in D : pos[b] <= k /\ pos[b] < pos[fr] =>
                                              Len(f[b]) >= A * (pos[b] + 1)}
<1>2. ASSUME NEW b \in D
      PROVE  /\ B[b].next \in D /\ pos[b] \in Nat
             /\ b # tl => pos[b] = pos[B[b].next] + 1 /\ pos[B[b].next] \in Nat
             /\ b = tl => pos[b] = 0
  BY RingFacts
<1>3. ASSUME NEW b \in D
      PROVE  /\ b = tl => Len(f[b]) = Used(B[b])
             /\ b # tl => Len(f[b]) = Used(B[b]) + Len(f[B[b].next])
             /\ Used(B[b]) \in Nat /\ Len(f[b]) \in Nat
  <2>1. f[b] \in Seq(Values) /\ f[B[b].next] \in Seq(Values)
    BY <1>1, <1>2, ChainTyped
  <2>2. BlockItems(B[b]) \in Seq(Values) /\ Len(BlockItems(B[b])) = Used(B[b])
        /\ Used(B[b]) \in Nat
    BY ItemsOfBlock DEF BlocksOK
  <2>3. b = tl => f[b] = BlockItems(B[b])
    BY <1>1, ChainAt
  <2>4. b # tl => f[b] = Cat(BlockItems(B[b]), f[B[b].next])
    BY <1>1, ChainAt
  <2>5. Len(Cat(BlockItems(B[b]), f[B[b].next])) = Used(B[b]) + Len(f[B[b].next])
    <3> DEFINE x == BlockItems(B[b])
               y == f[B[b].next]
    <3>1. x \in Seq(Values) /\ y \in Seq(Values) /\ Len(x) = Used(B[b])
      BY <2>1, <2>2
    <3> HIDE DEF x, y
    <3>2. Len(Cat(x, y)) = Len(x) + Len(y)
      BY <3>1, CatTyped
    <3> QED BY <3>1, <3>2 DEF x, y
  <2>6. Len(f[b]) \in Nat
    BY <2>1, LenProperties
  <2> QED BY <2>2, <2>3, <2>4, <2>5, <2>6
<1>4. ASSUME NEW b \in D, b = tl, pos[b] < pos[fr] PROVE Len(f[b]) >= A * (pos[b] + 1)
  <2>1. Len(f[b]) >= A /\ pos[b] + 1 = 1
    BY <1>2, <1>3, <1>4
  <2>2. A * (pos[b] + 1) = A
    BY <2>1
  <2> QED BY <2>1, <2>2
<1>5. 0 \in S
  <2>1. \A b \in D : pos[b] <= 0 => b = tl
    BY <1>2
  <2> QED BY <1>4, <2>1
<1>6. ASSUME NEW k \in Nat, k \in S PROVE k + 1 \in S
  <2> SUFFICES ASSUME NEW b \in D, pos[b] <= k + 1, pos[b] < pos[fr]
               PROVE  Len(f[b]) >= A * (pos[b] + 1)
    OBVIOUS
  <2>1. CASE b = tl
    BY <1>4, <2>1
  <2>2. CASE b # tl
    <3> DEFINE c == B[b].next
               p == pos[c]
    <3>1. c \in D /\ p \in Nat /\ pos[b] = p + 1 /\ pos[fr] \in Nat
      BY <1>2, <2>2
    <3>2. Len(f[c]) >= A * (p + 1)
      <4>1. pos[c] <= k /\ pos[c] < pos[fr]
        BY <3>1
      <4> HIDE DEF c
      <4> QED BY <1>6, <3>1, <4>1
    <3>3. Len(f[b]) >= A + Len(f[c]) /\ Len(f[c]) \in Nat
      <4>1. Len(f[b]) = Used(B[b]) + Len(f[c]) /\ Used(B[b]) \in Nat /\ Len(f[c]) \in Nat
        BY <1>3, <2>2, <3>1
      <4>2. Used(B[b]) >= A
        OBVIOUS
      <4> QED BY <4>1, <4>2
    <3> HIDE DEF p
    <3>4. A * ((p + 1) + 1) = A * (p + 1) + A /\ A * (p + 1) \in Nat
      BY <3>1, Times
    <3> QED BY <3>1, <3>2, <3>3, <3>4
  <2> QED BY <2>1, <2>2
<1>7. ASSUME NEW b \in D, pos[b] < pos[fr] PROVE Len(f[b]) >= A * (pos[b] + 1)
  <2>1. pos[b] \in Nat
    BY <1>2
  <2>2. pos[b] \in S
    <3> HIDE DEF S
    <3> QED BY <1>5, <1>6, <2>1, NatInd
  <2> QED BY <1>7, <2>1, <2>2
<1>8. CASE fr = tl
  <2>1. pos[fr] = 0 /\ Len(f[fr]) \in Nat
    BY <1>2, <1>3, <1>8
  <2>2. A * pos[fr] = 0
    BY <2>1
  <2> QED BY <1>1, <2>1, <2>2
<1>9. CASE fr # tl
  <2> DEFINE c == B[fr].next
             p == pos[c]
  <2>1. c \in D /\ p \in Nat /\ pos[fr] = p + 1 /\ pos[c] < pos[fr]
    BY <1>2, <1>9
  <2>2. Len(f[c]) >= A * (p + 1)
    BY <1>7, <2>1
  <2>3. Len(f[fr]) = Used(B[fr]) + Len(f[c]) /\ Used(B[fr]) \in Nat /\ Len(f[c]) \in Nat
    BY <1>3, <1>9, <2>1
  <2>4. A * (p + 1) \in Nat
    <3>1. p \in Nat
      BY <2>1
    <3> HIDE DEF p
    <3>2. p + 1 \in Nat
      BY <3>1
    <3> QED BY <3>2, Times
  <2> HIDE DEF p
  <2> QED BY <1>1, <2>1, <2>2, <2>3, <2>4
<1> QED BY <1>8, <1>9

\* At most what the first blocks and the ones added later have room for.
LEMMA ContentsAtMost ==
    ASSUME NEW pos, NEW B, NEW tl, NEW N, RingOf(pos, B, tl, N),
           BlocksOK(B), NEW fr \in 1 .. N, NEW F \in 1 .. Len(B), NEW A \in Nat, NEW C \in Nat,
           \A b \in 1 .. Len(B) : Used(B[b]) <= (IF b <= F THEN A ELSE C)
    PROVE  Len(ContentsOf(B, fr, tl)) <= A * F + C * (Len(B) - F)
<1>1. PICK f : IsChain(f, B, tl) /\ ContentsOf(B, fr, tl) = f[fr]
  <2>1. fr \in 1 .. Len(B)
    BY RingFacts
  <2> QED BY <2>1, ContentsChain
<1> DEFINE D == 1 .. N
           L(p) == {c \in 1 .. F : c \in D /\ pos[c] <= p}
           H(p) == {c \in F + 1 .. Len(B) : c \in D /\ pos[c] <= p}
           Bound(p) == A * Cardinality(L(p)) + C * Cardinality(H(p))
           S == {k \in Nat : \A b \in D : pos[b] <= k => Len(f[b]) <= Bound(pos[b])}
<1>0. Len(B) \in Nat /\ N \in 1 .. Len(B) /\ F \in Nat /\ \A b \in D : b \in 1 .. Len(B)
  BY RingFacts
<1>2. ASSUME NEW b \in D
      PROVE  /\ B[b].next \in D /\ pos[b] \in Nat
             /\ b # tl => pos[b] = pos[B[b].next] + 1 /\ pos[B[b].next] \in Nat
             /\ b = tl => pos[b] = 0
  BY <1>0, RingFacts
<1>3. ASSUME NEW b \in D
      PROVE  /\ b = tl => Len(f[b]) = Used(B[b])
             /\ b # tl => Len(f[b]) = Used(B[b]) + Len(f[B[b].next])
             /\ Used(B[b]) \in Nat /\ Len(f[b]) \in Nat
  <2>0. b \in 1 .. Len(B) /\ B[b].next \in 1 .. Len(B)
    BY <1>0, <1>2
  <2>1. f[b] \in Seq(Values) /\ f[B[b].next] \in Seq(Values)
    BY <1>1, <2>0, ChainTyped
  <2>2. BlockItems(B[b]) \in Seq(Values) /\ Len(BlockItems(B[b])) = Used(B[b])
        /\ Used(B[b]) \in Nat
    BY <2>0, ItemsOfBlock DEF BlocksOK
  <2>3. b = tl => f[b] = BlockItems(B[b])
    BY <1>1, <2>0, ChainAt
  <2>4. b # tl => f[b] = Cat(BlockItems(B[b]), f[B[b].next])
    BY <1>1, <2>0, ChainAt
  <2>5. Len(Cat(BlockItems(B[b]), f[B[b].next])) = Used(B[b]) + Len(f[B[b].next])
    <3> DEFINE x == BlockItems(B[b])
               y == f[B[b].next]
    <3>1. x \in Seq(Values) /\ y \in Seq(Values) /\ Len(x) = Used(B[b])
      BY <2>1, <2>2
    <3> HIDE DEF x, y
    <3>2. Len(Cat(x, y)) = Len(x) + Len(y)
      BY <3>1, CatTyped
    <3> QED BY <3>1, <3>2 DEF x, y
  <2>6. Len(f[b]) \in Nat
    BY <2>1, LenProperties
  <2> QED BY <2>2, <2>3, <2>4, <2>5, <2>6
<1>4. ASSUME NEW p
      PROVE  /\ IsFiniteSet(L(p)) /\ Cardinality(L(p)) \in Nat /\ Cardinality(L(p)) <= F
             /\ IsFiniteSet(H(p)) /\ Cardinality(H(p)) \in Nat
             /\ Cardinality(H(p)) <= Len(B) - F
  <2>1. /\ IsFiniteSet(1 .. F) /\ Cardinality(1 .. F) = F
        /\ IsFiniteSet(F + 1 .. Len(B)) /\ Cardinality(F + 1 .. Len(B)) = Len(B) - F
    <3>1. F \in Nat /\ Len(B) \in Nat /\ F <= Len(B)
      BY <1>0
    <3> DEFINE e == Len(B)
               d == F + 1
    <3>0. d \in Int /\ e \in Int /\ F \in Int /\ 1 \in Int
      BY <3>1
    <3> HIDE DEF d, e
    <3>2. IsFiniteSet(1 .. F) /\ Cardinality(1 .. F) = IF 1 > F THEN 0 ELSE F - 1 + 1
      BY <3>0, FS_Interval
    <3>3. IsFiniteSet(d .. e) /\ Cardinality(d .. e) = IF d > e THEN 0 ELSE e - d + 1
      BY <3>0, FS_Interval
    <3> QED BY <3>1, <3>2, <3>3 DEF d, e
  <2>2. L(p) \in SUBSET (1 .. F) /\ H(p) \in SUBSET (F + 1 .. Len(B))
    OBVIOUS
  <2> HIDE DEF L, H
  <2> QED BY <2>1, <2>2, FS_Subset, FS_CardinalityType
\* One block more than up to q.
<1>5. ASSUME NEW b \in D, NEW q, \A c \in D : pos[c] <= q => pos[c] < pos[b],
             \A c \in D : pos[c] <= q => pos[c] <= pos[b]
      PROVE  Bound(q) + Used(B[b]) <= Bound(pos[b]) /\ Bound(q) \in Nat
  <2> DEFINE l == Cardinality(L(q))
             h == Cardinality(H(q))
             l2 == Cardinality(L(pos[b]))
             h2 == Cardinality(H(pos[b]))
  <2>0. l \in Nat /\ h \in Nat /\ l2 \in Nat /\ h2 \in Nat /\ b \in 1 .. Len(B)
        /\ Used(B[b]) \in Nat /\ pos[b] \in Nat
    BY <1>0, <1>2, <1>3, <1>4
  <2>1. L(q) \subseteq L(pos[b]) /\ H(q) \subseteq H(pos[b]) /\ b \notin L(q) /\ b \notin H(q)
    BY <1>5, <2>0
  <2>2. l <= l2 /\ h <= h2
    <3> HIDE DEF L, H
    <3> QED BY <1>4, <2>1, FS_Subset
  <2>3. CASE b <= F
    <3>1. b \in L(pos[b]) /\ Used(B[b]) <= A
      BY <2>0, <2>3, <1>0
    <3>2. L(q) \cup {b} \in SUBSET L(pos[b])
      BY <2>1, <3>1
    <3>3. l + 1 <= l2
      <4> HIDE DEF L
      <4>1. Cardinality(L(q) \cup {b}) = l + 1
        BY <1>4, <2>1, FS_AddElement
      <4>2. Cardinality(L(q) \cup {b}) <= l2
        <5> DEFINE T == L(q) \cup {b}
                   U == L(pos[b])
        <5>1. T \in SUBSET U /\ IsFiniteSet(U)
          BY <1>4, <3>2
        <5> HIDE DEF T, U
        <5>2. Cardinality(T) <= Cardinality(U)
          BY <5>1, FS_Subset
        <5> QED BY <5>2 DEF T, U
      <4> QED BY <4>1, <4>2
    <3> HIDE DEF l, h, l2, h2
    <3>4. A * l + A <= A * l2 /\ C * h <= C * h2 /\ A * l \in Nat /\ C * h \in Nat
          /\ A * l2 \in Nat /\ C * h2 \in Nat
      <4>1. A * (l + 1) = A * l + A /\ A * (l + 1) <= A * l2 /\ A * l \in Nat /\ A * l2 \in Nat
        BY <2>0, <3>3, Times
      <4>2. C * h <= C * h2 /\ C * h \in Nat /\ C * h2 \in Nat
        BY <2>0, <2>2, Times
      <4> QED BY <4>1, <4>2
    <3>5. (A * l + C * h) + Used(B[b]) <= A * l2 + C * h2 /\ A * l + C * h \in Nat
      <4> DEFINE x == A * l
                 y == C * h
                 x2 == A * l2
                 y2 == C * h2
      <4>1. x \in Nat /\ y \in Nat /\ x2 \in Nat /\ y2 \in Nat
        BY <3>4
      <4>2. x + A <= x2 /\ y <= y2
        BY <3>4
      <4>3. Used(B[b]) \in Nat
        BY <2>0
      <4> HIDE DEF x, y, x2, y2
      <4>4. x + y + Used(B[b]) <= x2 + y2 /\ x + y \in Nat
        BY <3>1, <4>1, <4>2, <4>3
      <4> QED BY <4>4 DEF x, y, x2, y2
    <3> QED BY <3>5 DEF l, h, l2, h2
  <2>4. CASE ~(b <= F)
    <3>1. b \in H(pos[b]) /\ Used(B[b]) <= C
      BY <2>0, <2>4, <1>0
    <3>2. H(q) \cup {b} \in SUBSET H(pos[b])
      BY <2>1, <3>1
    <3>3. h + 1 <= h2
      <4> HIDE DEF H
      <4>1. Cardinality(H(q) \cup {b}) = h + 1
        BY <1>4, <2>1, FS_AddElement
      <4>2. Cardinality(H(q) \cup {b}) <= h2
        <5> DEFINE T == H(q) \cup {b}
                   U == H(pos[b])
        <5>1. T \in SUBSET U /\ IsFiniteSet(U)
          BY <1>4, <3>2
        <5> HIDE DEF T, U
        <5>2. Cardinality(T) <= Cardinality(U)
          BY <5>1, FS_Subset
        <5> QED BY <5>2 DEF T, U
      <4> QED BY <4>1, <4>2
    <3> HIDE DEF l, h, l2, h2
    <3>4. C * h + C <= C * h2 /\ A * l <= A * l2 /\ A * l \in Nat /\ C * h \in Nat
          /\ A * l2 \in Nat /\ C * h2 \in Nat
      <4>1. C * (h + 1) = C * h + C /\ C * (h + 1) <= C * h2 /\ C * h \in Nat /\ C * h2 \in Nat
        BY <2>0, <3>3, Times
      <4>2. A * l <= A * l2 /\ A * l \in Nat /\ A * l2 \in Nat
        BY <2>0, <2>2, Times
      <4> QED BY <4>1, <4>2
    <3>5. (A * l + C * h) + Used(B[b]) <= A * l2 + C * h2 /\ A * l + C * h \in Nat
      <4> DEFINE x == A * l
                 y == C * h
                 x2 == A * l2
                 y2 == C * h2
      <4>1. x \in Nat /\ y \in Nat /\ x2 \in Nat /\ y2 \in Nat
        BY <3>4
      <4>2. x <= x2 /\ y + C <= y2
        BY <3>4
      <4>3. Used(B[b]) \in Nat
        BY <2>0
      <4> HIDE DEF x, y, x2, y2
      <4>4. x + y + Used(B[b]) <= x2 + y2 /\ x + y \in Nat
        BY <3>1, <4>1, <4>2, <4>3
      <4> QED BY <4>4 DEF x, y, x2, y2
    <3> QED BY <3>5 DEF l, h, l2, h2
  <2> QED BY <2>3, <2>4
<1>6. ASSUME NEW b \in D, b = tl PROVE Len(f[b]) <= Bound(pos[b])
  <2>1. \A c \in D : pos[c] \in Nat
    BY <1>2
  <2>2. Bound(0 - 1) + Used(B[b]) <= Bound(pos[b]) /\ Bound(0 - 1) \in Nat
    <3>1. \A c \in D : pos[c] <= 0 - 1 => pos[c] < pos[b]
      BY <2>1
    <3>2. \A c \in D : pos[c] <= 0 - 1 => pos[c] <= pos[b]
      BY <2>1
    <3> HIDE DEF Bound
    <3> QED BY <1>5, <3>1, <3>2
  <2>3. Bound(pos[b]) \in Nat
    <3> DEFINE p == pos[b]
    <3>1. Cardinality(L(p)) \in Nat /\ Cardinality(H(p)) \in Nat
      BY <1>4
    <3> HIDE DEF p, L, H
    <3>2. Bound(p) \in Nat
      BY <3>1, Times
    <3> QED BY <3>2 DEF p
  <2> HIDE DEF Bound
  <2> QED BY <1>3, <1>6, <2>2, <2>3
<1>7. 0 \in S
  <2>1. \A b \in D : pos[b] <= 0 => b = tl
    BY <1>2
  <2> QED BY <1>6, <2>1
<1>8. ASSUME NEW k \in Nat, k \in S PROVE k + 1 \in S
  <2> HIDE DEF Bound
  <2> SUFFICES ASSUME NEW b \in D, pos[b] <= k + 1 PROVE Len(f[b]) <= Bound(pos[b])
    OBVIOUS
  <2> USE DEF Bound
  <2>1. CASE b = tl
    BY <1>6, <2>1
  <2>2. CASE b # tl
    <3> DEFINE n == B[b].next
               q == pos[n]
    <3>1. n \in D /\ q \in Nat /\ pos[b] = q + 1 /\ q <= k
      BY <1>2, <2>2
    <3>2. Len(f[n]) <= Bound(q) /\ Len(f[n]) \in Nat
      BY <1>3, <1>8, <3>1
    <3>3. Bound(q) + Used(B[b]) <= Bound(pos[b]) /\ Bound(q) \in Nat
      <4>1. \A c \in D : pos[c] \in Nat
        BY <1>2
      <4>2. ASSUME NEW c \in D, pos[c] <= q PROVE pos[c] < pos[b]
        <5> HIDE DEF Bound, q
        <5>1. pos[c] \in Nat
          BY <4>1
        <5> QED BY <3>1, <4>2, <5>1
      <4>3. \A c \in D : pos[c] <= q => pos[c] <= pos[b]
        BY <3>1, <4>1
      <4> HIDE DEF Bound, q
      <4> QED BY <1>5, <4>2, <4>3
    <3>4. Bound(pos[b]) \in Nat
      <4> DEFINE p == pos[b]
      <4>1. Cardinality(L(p)) \in Nat /\ Cardinality(H(p)) \in Nat
        BY <1>4
      <4> HIDE DEF p, L, H
      <4>2. Bound(p) \in Nat
        BY <4>1, Times
      <4> QED BY <4>2 DEF p
    <3>5. Len(f[b]) = Used(B[b]) + Len(f[n]) /\ Used(B[b]) \in Nat
      BY <1>3, <2>2
    <3> HIDE DEF Bound, q, n
    <3> QED BY <3>2, <3>3, <3>4, <3>5
  <2> QED BY <2>1, <2>2
<1>9. Len(f[fr]) <= Bound(pos[fr])
  <2> HIDE DEF Bound
  <2>1. pos[fr] \in Nat
    BY <1>2
  <2>2. pos[fr] \in S
    <3> HIDE DEF S
    <3> QED BY <1>7, <1>8, <2>1, NatInd
  <2> QED BY <2>1, <2>2
<1>10. Bound(pos[fr]) <= A * F + C * (Len(B) - F) /\ Bound(pos[fr]) \in Nat
  <2> DEFINE l == Cardinality(L(pos[fr]))
             h == Cardinality(H(pos[fr]))
             d == Len(B) - F
  <2>1. l \in Nat /\ h \in Nat /\ l <= F /\ h <= d /\ d \in Nat /\ F \in Nat
    <3>1. d \in Nat
      BY <1>0
    <3> QED BY <1>0, <1>4, <3>1
  <2> HIDE DEF l, h, d
  <2>2. A * l <= A * F /\ C * h <= C * d /\ A * l \in Nat /\ A * F \in Nat /\ C * h \in Nat
        /\ C * d \in Nat
    BY <2>1, Times
  <2>3. A * l + C * h <= A * F + C * d /\ A * l + C * h \in Nat
    BY <2>2
  <2> QED BY <2>3 DEF l, h, d
<1>11. A * F + C * (Len(B) - F) \in Int /\ Len(f[fr]) \in Nat
  BY <1>0, <1>3
<1> HIDE DEF Bound
<1> QED BY <1>1, <1>9, <1>10, <1>11

-----------------------------------------------------------------------------
(***************************************************************************)
(* One field of one block changes.                                         *)
(***************************************************************************)
BlockArray(B) == B \in Seq(BlockRecords) /\ BlocksOK(B)

LEMMA ArrayFacts ==
    ASSUME NEW B, BlockArray(B)
    PROVE  /\ Len(B) \in Nat
           /\ \A b \in 1 .. Len(B) : BlockOK(B[b]) /\ B[b] \in BlockRecords
  BY LenProperties, ElementOfSeq DEF BlockArray, BlocksOK

Put(B, x, r) == [B EXCEPT ![x] = r]

LEMMA SetBlock ==
    ASSUME NEW B, BlockArray(B), NEW x \in 1 .. Len(B), NEW r, BlockOK(r)
    PROVE  /\ BlockArray(Put(B, x, r)) /\ Len(Put(B, x, r)) = Len(B) /\ Put(B, x, r)[x] = r
           /\ \A b \in 1 .. Len(B) : b # x => Put(B, x, r)[b] = B[b]
<1> DEFINE C == [B EXCEPT ![x] = r]
<1>1. r \in BlockRecords /\ B \in Seq(BlockRecords)
  BY DEF BlockOK, BlockArray
<1>2. /\ C \in Seq(BlockRecords) /\ Len(C) = Len(B)
      /\ \A b \in 1 .. Len(B) : C[b] = IF b = x THEN r ELSE B[b]
  BY <1>1, ExceptSeq
<1> HIDE DEF C
<1>3. BlocksOK(C)
  BY <1>2, ArrayFacts DEF BlocksOK
<1>4. /\ BlockArray(C) /\ Len(C) = Len(B) /\ C[x] = r
      /\ \A b \in 1 .. Len(B) : b # x => C[b] = B[b]
  BY <1>2, <1>3 DEF BlockArray
<1> QED BY <1>4 DEF Put, C

LEMMA WithLocalFront ==
    ASSUME NEW b, BlockOK(b), NEW v \in 0 .. b.size - 1, NEW r, r = [b EXCEPT !.localFront = v]
    PROVE  /\ BlockOK(r) /\ SameItems(r, b) /\ r.next = b.next
           /\ r.localTail = b.localTail /\ r.localFront = v
<1>1. b.size \in Nat
  BY BlockFields
<1>2. /\ r \in BlockRecords /\ SameItems(r, b) /\ r.next = b.next
      /\ r.localTail = b.localTail /\ r.localFront = v
  BY <1>1 DEF BlockOK, BlockRecords, SameItems
<1> QED BY <1>2 DEF BlockOK, SameItems

LEMMA WithLocalTail ==
    ASSUME NEW b, BlockOK(b), NEW v \in 0 .. b.size - 1, NEW r, r = [b EXCEPT !.localTail = v]
    PROVE  /\ BlockOK(r) /\ SameItems(r, b) /\ r.next = b.next
           /\ r.localTail = v /\ r.localFront = b.localFront
<1>1. b.size \in Nat
  BY BlockFields
<1>2. /\ r \in BlockRecords /\ SameItems(r, b) /\ r.next = b.next
      /\ r.localTail = v /\ r.localFront = b.localFront
  BY <1>1 DEF BlockOK, BlockRecords, SameItems
<1> QED BY <1>2 DEF BlockOK, SameItems

LEMMA WithTail ==
    ASSUME NEW b, BlockOK(b), NEW v \in 0 .. b.size - 1, NEW r, r = [b EXCEPT !.tail = v]
    PROVE  /\ BlockOK(r) /\ r.tail = v /\ r.front = b.front /\ r.size = b.size
           /\ r.data = b.data /\ r.next = b.next
           /\ r.localTail = b.localTail /\ r.localFront = b.localFront
<1>1. b.size \in Nat
  BY BlockFields
<1>2. /\ r \in BlockRecords /\ r.tail = v /\ r.front = b.front /\ r.size = b.size
      /\ r.data = b.data /\ r.next = b.next
      /\ r.localTail = b.localTail /\ r.localFront = b.localFront
  BY <1>1 DEF BlockOK, BlockRecords
<1> QED BY <1>2 DEF BlockOK

LEMMA WithFront ==
    ASSUME NEW b, BlockOK(b), NEW v \in 0 .. b.size - 1, NEW r, r = [b EXCEPT !.front = v]
    PROVE  /\ BlockOK(r) /\ r.front = v /\ r.tail = b.tail /\ r.size = b.size
           /\ r.data = b.data /\ r.next = b.next
           /\ r.localTail = b.localTail /\ r.localFront = b.localFront
<1>1. b.size \in Nat
  BY BlockFields
<1>2. /\ r \in BlockRecords /\ r.front = v /\ r.tail = b.tail /\ r.size = b.size
      /\ r.data = b.data /\ r.next = b.next
      /\ r.localTail = b.localTail /\ r.localFront = b.localFront
  BY <1>1 DEF BlockOK, BlockRecords
<1> QED BY <1>2 DEF BlockOK

LEMMA WithNext ==
    ASSUME NEW b, BlockOK(b), NEW v \in Nat, NEW r, r = [b EXCEPT !.next = v]
    PROVE  /\ BlockOK(r) /\ SameItems(r, b) /\ r.next = v
           /\ r.localTail = b.localTail /\ r.localFront = b.localFront
<1>2. /\ r \in BlockRecords /\ SameItems(r, b) /\ r.next = v
      /\ r.localTail = b.localTail /\ r.localFront = b.localFront
  BY DEF BlockOK, BlockRecords, SameItems
<1> QED BY <1>2 DEF BlockOK, SameItems

Fill(b, i, v) == [b EXCEPT !.data[i] = v]

LEMMA WithData ==
    ASSUME NEW b, BlockOK(b), NEW i \in 0 .. b.size - 1, NEW v \in Values,
           NEW r, r = Fill(b, i, v)
    PROVE  /\ BlockOK(r) /\ r.data = [b.data EXCEPT ![i] = v]
           /\ r.front = b.front /\ r.tail = b.tail /\ r.size = b.size /\ r.next = b.next
           /\ r.localTail = b.localTail /\ r.localFront = b.localFront
<1> DEFINE d == [b.data EXCEPT ![i] = v]
<1>1. b.size \in Nat /\ d \in [0 .. b.size - 1 -> Values]
  BY BlockFields
<1>2. d \in Slots
  <2> HIDE DEF d
  <2> QED BY <1>1 DEF Slots
<1>3. r = [b EXCEPT !.data = d]
  BY DEF BlockOK, BlockRecords, Fill
<1> HIDE DEF d
<1>4. /\ r \in BlockRecords /\ r.data = d
      /\ r.front = b.front /\ r.tail = b.tail /\ r.size = b.size /\ r.next = b.next
      /\ r.localTail = b.localTail /\ r.localFront = b.localFront
  BY <1>2, <1>3 DEF BlockOK, BlockRecords
<1>5. BlockOK(r)
  BY <1>1, <1>4 DEF BlockOK
<1> QED BY <1>4, <1>5 DEF d

LEMMA NewBlock ==
    ASSUME NEW s \in Nat, s >= 2, NEW n \in Nat, NEW b, b = Block(s, n)
    PROVE  /\ BlockOK(b) /\ b.size = s /\ b.next = n
           /\ b.front = 0 /\ b.tail = 0 /\ b.localTail = 0 /\ b.localFront = 0
<1> DEFINE d == [i \in 0 .. s - 1 |-> NoData]
<1>1. d \in [0 .. s - 1 -> Values] /\ d \in Slots
  BY DEF Values, Slots
<1> HIDE DEF d
<1>2. b = [front |-> 0, localTail |-> 0, tail |-> 0, localFront |-> 0, next |-> n,
           size |-> s, data |-> d]
  BY DEF Block, d
<1>3. /\ b.size = s /\ b.next = n /\ b.data = d
      /\ b.front = 0 /\ b.tail = 0 /\ b.localTail = 0 /\ b.localFront = 0
  BY <1>2
<1>4. b \in BlockRecords
  BY <1>1, <1>2 DEF BlockRecords
<1>5. BlockOK(b)
  BY <1>1, <1>3, <1>4 DEF BlockOK
<1> QED BY <1>3, <1>5

-----------------------------------------------------------------------------
(***************************************************************************)
(* ReaderWriterQueue: the inductive invariant.                             *)
(***************************************************************************)
\* The queue is constructed for at least one element.
Sized == \A c \in Configs : c.size > 0

Blocks == 1 .. Len(block)
CircleSize == IF enqueuePc = "link" THEN Len(block) - 1 ELSE Len(block)

FirstSize == InitialBlockSize(config)
LastSize == Max({FirstSize, config.maxBlockSize})

RWQTypeOK ==
    /\ config \in Configs
    /\ BlockArray(block)
    /\ frontBlock \in 1 .. CircleSize
    /\ enqueuePc \in {"idle", "loadFront", "construct", "publishTail", "checkNext",
                      "loadNextFront", "constructNext", "publishNextTail", "allocate",
                      "link", "publishTailBlock"}
    /\ dequeuePc \in {"idle", "loadTail", "loadTailBlock", "recheck", "loadNext",
                      "advance", "read", "publishFront"}
    /\ op \in {"remove", "peek"}
    /\ canAlloc \in BOOLEAN /\ enqueueOk \in BOOLEAN /\ dequeueOk \in BOOLEAN
    /\ element \in 0 .. config.serials - 1
    /\ lengthSeen \in Nat

SizesOK ==
    /\ Len(block) >= InitialBlockCount(config)
    /\ Len(block) <= InitialBlockCount(config) + config.blocksLeft
    /\ \A b \in Blocks : /\ block[b].size >= FirstSize /\ block[b].size <= LastSize
                         /\ b <= InitialBlockCount(config) => block[b].size = FirstSize
    /\ largestBlockSize >= FirstSize /\ largestBlockSize <= LastSize
    /\ largestBlockSize \in Powers

Ring(pos) == RingOf(pos, block, tailBlock, CircleSize)

\* The blocks beyond the front block are empty, but for the element with which the
\* producer is about to move on to the next.
BeyondFront(pos) ==
    \A b \in 1 .. CircleSize : pos[b] > pos[frontBlock] =>
        IF enqueuePc = "publishTailBlock" /\ b = NextOfTail
        THEN /\ block[b].tail = After(block[b], block[b].front)
             /\ block[b].data[block[b].front] = element
        ELSE block[b].tail = block[b].front

\* Those between the front block and the tail block are full.
BehindTail(pos) ==
    \A b \in Blocks : 0 < pos[b] /\ pos[b] < pos[frontBlock] =>
        After(block[b], block[b].tail) = block[b].front

TailFilled == frontBlock # tailBlock => TailBlock.tail # TailBlock.front

\* Where there should be an object there is one, but for the one being removed.
Objects ==
    \A b \in Blocks : \A k \in 1 .. Used(block[b]) :
        \/ dequeuePc = "publishFront" /\ b = frontBlock /\ k = 1
        \/ BlockItems(block[b])[k] # NoData

Placed(pos) == Ring(pos) /\ BeyondFront(pos) /\ BehindTail(pos) /\ TailFilled /\ Objects

MovesOn == enqueuePc \in {"loadNextFront", "constructNext", "publishNextTail",
                          "publishTailBlock"}
TailFull == After(TailBlock, TailBlock.tail) = TailBlock.front

\* What the producer has found out is still so.
ProducerKnows ==
    /\ Gap(TailBlock, TailBlock.localFront) >= Used(TailBlock)
    /\ enqueuePc \in {"construct", "publishTail"} =>
           After(TailBlock, TailBlock.tail) # TailBlock.localFront
    /\ enqueuePc = "publishTail" => TailBlock.data[TailBlock.tail] = element
    /\ enqueuePc \in {"checkNext", "allocate", "link"} \/ MovesOn =>
           tailBlock = frontBlock \/ TailFull
    /\ enqueuePc \in {"loadNextFront", "constructNext", "publishNextTail"} =>
           NextOfTail # frontBlock
    /\ enqueuePc = "publishTailBlock" => NextOfTail # frontBlock
    /\ enqueuePc \in {"constructNext", "publishNextTail", "publishTailBlock"} =>
           block[NextOfTail].localFront = block[NextOfTail].front
    /\ enqueuePc = "publishNextTail" =>
           block[NextOfTail].data[block[NextOfTail].tail] = element

\* The block that is about to be linked in.
NewIsFilled ==
    enqueuePc = "link" =>
        LET new == block[Len(block)]
        IN  /\ Len(block) > 1
            /\ new.front = 0 /\ new.localFront = 0 /\ new.tail = 1
            /\ new.data[0] = element /\ new.next = NextOfTail

\* What the consumer has found out is still so.
ConsumerKnows ==
    /\ Seen(FrontBlock) <= Used(FrontBlock)
    /\ dequeuePc \in {"read", "publishFront"} => FrontBlock.localTail # FrontBlock.front
    /\ dequeuePc \in {"recheck", "loadNext", "advance"} => frontBlock # tailBlock
    /\ dequeuePc \in {"loadNext", "advance"} => FrontBlock.tail = FrontBlock.front
    /\ dequeuePc = "advance" =>
           /\ block[NextOfFront].localTail # block[NextOfFront].front
           /\ Seen(block[NextOfFront]) <= Used(block[NextOfFront])
    /\ dequeuePc = "publishFront" => op = "remove"

\* Before the queue is found full and nothing can be added, it held what it was
\* constructed for.
RoomSeen ==
    /\ RoomForSize
    /\ enqueuePc = "checkNext" /\ Len(block) = 1 => lengthSeen >= config.size

PeekFound ==
    dequeuePc = "idle" /\ op = "peek" /\ dequeueOk => Items # <<>> /\ result = Head(Items)

RWQInv ==
    /\ RWQTypeOK /\ SizesOK
    /\ \E pos : Placed(pos)
    /\ ProducerKnows /\ NewIsFilled /\ ConsumerKnows /\ RoomSeen /\ PeekFound

LEMMA ContentsAre == Contents = ContentsOf(block, frontBlock, tailBlock)
  BY DEF Contents, ContentsOf

LEMMA ContentsArePrimed == Contents' = ContentsOf(block', frontBlock', tailBlock')
  BY DEF Contents, ContentsOf

-----------------------------------------------------------------------------
(***************************************************************************)
(* Where the blocks are.                                                   *)
(***************************************************************************)
LEMMA Positions ==
    ASSUME RWQTypeOK, NEW pos, Ring(pos)
    PROVE  /\ Len(block) \in Nat /\ Len(block) >= 1
           /\ CircleSize \in 1 .. Len(block) /\ CircleSize \in Nat
           /\ tailBlock \in 1 .. CircleSize /\ tailBlock \in Blocks
           /\ frontBlock \in 1 .. CircleSize /\ frontBlock \in Blocks
           /\ pos[tailBlock] = 0
           /\ \A b \in Blocks : /\ BlockOK(block[b]) /\ pos[b] \in Nat
                                /\ block[b].next \in 1 .. CircleSize
                                /\ block[b].next \in Blocks
                                /\ b # tailBlock => pos[b] = pos[block[b].next] + 1
           /\ \A b \in 1 .. CircleSize : b \in Blocks /\ pos[b] <= pos[NextOfTail]
           /\ \A b, c \in 1 .. CircleSize : pos[b] = pos[c] => b = c
           /\ pos[NextOfTail] = CircleSize - 1
           /\ NextOfTail \in 1 .. CircleSize /\ NextOfTail \in Blocks
           /\ NextOfFront \in 1 .. CircleSize /\ NextOfFront \in Blocks
           /\ frontBlock # tailBlock => NextOfFront # NextOfTail
           /\ frontBlock # tailBlock => pos[frontBlock] = pos[NextOfFront] + 1
           /\ NextOfTail # frontBlock => NextOfTail # tailBlock
           /\ NextOfTail # frontBlock => pos[NextOfTail] > pos[frontBlock]
<1> DEFINE n == CircleSize
<1>1. /\ Len(block) \in Nat /\ n \in 1 .. Len(block)
      /\ tailBlock \in 1 .. n
      /\ \A b \in 1 .. Len(block) : block[b].next \in 1 .. n
      /\ pos \in [1 .. Len(block) -> Nat]
      /\ pos[tailBlock] = 0
      /\ \A b \in 1 .. Len(block) : b # tailBlock => pos[b] = pos[block[b].next] + 1
      /\ \A b, c \in 1 .. n : pos[b] = pos[c] => b = c
      /\ \A b \in 1 .. n : pos[b] <= n - 1
      /\ pos[NextOfTail] = n - 1
  BY DEF Ring, RingOf, NextOfTail, TailBlock
<1>2. frontBlock \in 1 .. n /\ \A b \in Blocks : BlockOK(block[b])
  BY ArrayFacts DEF RWQTypeOK, Blocks
<1> HIDE DEF n
<1>3. /\ n \in Nat /\ Len(block) >= 1 /\ tailBlock \in Blocks /\ frontBlock \in Blocks
      /\ \A b \in 1 .. n : b \in Blocks
  BY <1>1, <1>2 DEF Blocks
<1>4. \A b \in Blocks : /\ pos[b] \in Nat /\ block[b].next \in 1 .. n
                        /\ block[b].next \in Blocks
                        /\ b # tailBlock => pos[b] = pos[block[b].next] + 1
  BY <1>1, <1>3 DEF Blocks
<1>5. /\ NextOfTail \in 1 .. n /\ NextOfTail \in Blocks
      /\ NextOfFront \in 1 .. n /\ NextOfFront \in Blocks
      /\ frontBlock # tailBlock => pos[frontBlock] = pos[NextOfFront] + 1
  BY <1>3, <1>4 DEF NextOfTail, NextOfFront, TailBlock, FrontBlock
<1>6. \A b \in 1 .. n : pos[b] <= pos[NextOfTail]
  BY <1>1
<1>7. frontBlock # tailBlock => NextOfFront # NextOfTail
  <2> SUFFICES ASSUME frontBlock # tailBlock, NextOfFront = NextOfTail PROVE FALSE
    OBVIOUS
  <2>1. pos[frontBlock] = pos[NextOfTail] + 1 /\ pos[frontBlock] <= pos[NextOfTail]
        /\ pos[NextOfTail] \in Nat
    BY <1>2, <1>4, <1>5, <1>6
  <2> QED BY <2>1
<1>8. NextOfTail # frontBlock => pos[NextOfTail] > pos[frontBlock] /\ NextOfTail # tailBlock
  <2> SUFFICES ASSUME NextOfTail # frontBlock
               PROVE  pos[NextOfTail] > pos[frontBlock] /\ NextOfTail # tailBlock
    OBVIOUS
  <2>1. pos[NextOfTail] # pos[frontBlock]
    BY <1>1, <1>2, <1>5
  <2>2. pos[frontBlock] <= pos[NextOfTail] /\ pos[frontBlock] \in Nat /\ pos[NextOfTail] \in Nat
    BY <1>2, <1>3, <1>4, <1>5, <1>6
  <2> QED BY <1>1, <2>1, <2>2
<1>9. n = CircleSize
  BY DEF n
<1> QED BY <1>1, <1>2, <1>3, <1>4, <1>5, <1>6, <1>7, <1>8, <1>9

-----------------------------------------------------------------------------
(***************************************************************************)
(* Steps after which every block has the items it had.                     *)
(***************************************************************************)
SameView(c, b) ==
    /\ c.front = b.front /\ c.tail = b.tail /\ c.size = b.size /\ c.next = b.next
    /\ BlockItems(c) = BlockItems(b)

QuietStep ==
    /\ Len(block') = Len(block)
    /\ \A b \in Blocks : SameView(block'[b], block[b])
    /\ frontBlock' = frontBlock /\ tailBlock' = tailBlock
    /\ enqueuePc' = "link" <=> enqueuePc = "link"
    /\ enqueuePc' = "publishTailBlock" <=> enqueuePc = "publishTailBlock"
    /\ enqueuePc = "publishTailBlock" =>
           element' = element /\ \A b \in Blocks : block'[b].data = block[b].data
    /\ dequeuePc' = "publishFront" <=> dequeuePc = "publishFront"

LEMMA SameRing ==
    ASSUME NEW pos, NEW B, NEW tl, NEW n, RingOf(pos, B, tl, n),
           NEW C, Len(C) = Len(B), \A b \in 1 .. Len(B) : C[b].next = B[b].next
    PROVE  RingOf(pos, C, tl, n)
<1>1. tl \in 1 .. Len(B)
  BY RingFacts
<1>2. C[tl].next = B[tl].next
  BY <1>1
<1> QED BY <1>2 DEF RingOf

LEMMA QuietPlaced ==
    ASSUME RWQTypeOK, NEW pos, Placed(pos), QuietStep
    PROVE  Placed(pos)' /\ Contents' = Contents /\ Items' = Items
<1>0. /\ Ring(pos) /\ Len(block') = Len(block) /\ frontBlock' = frontBlock
      /\ tailBlock' = tailBlock /\ CircleSize' = CircleSize /\ Blocks' = Blocks
  BY DEF Placed, QuietStep, CircleSize, Blocks
<1>1. ASSUME NEW b \in Blocks
      PROVE  /\ block'[b].front = block[b].front /\ block'[b].tail = block[b].tail
             /\ block'[b].size = block[b].size /\ block'[b].next = block[b].next
             /\ BlockItems(block'[b]) = BlockItems(block[b])
             /\ Used(block'[b]) = Used(block[b])
             /\ After(block'[b], block'[b].front) = After(block[b], block[b].front)
             /\ After(block'[b], block'[b].tail) = After(block[b], block[b].tail)
  BY DEF QuietStep, SameView, Used, Gap, After
<1>2. Ring(pos)'
  <2>1. RingOf(pos, block, tailBlock, CircleSize)
    BY <1>0 DEF Ring
  <2>2. RingOf(pos, block', tailBlock, CircleSize)
    BY <1>0, <1>1, <2>1, SameRing DEF Blocks
  <2> QED BY <1>0, <2>2 DEF Ring
<1>3. /\ tailBlock \in Blocks /\ frontBlock \in Blocks
      /\ \A b \in 1 .. CircleSize : b \in Blocks
  BY <1>0, Positions
<1>4. NextOfTail' = NextOfTail
  BY <1>0, <1>1, <1>3 DEF NextOfTail, TailBlock
<1>5. BeyondFront(pos)'
  <2>1. ASSUME NEW b \in 1 .. CircleSize, pos[b] > pos[frontBlock]
        PROVE  IF enqueuePc' = "publishTailBlock" /\ b = NextOfTail
               THEN /\ block'[b].tail = After(block'[b], block'[b].front)
                    /\ block'[b].data[block'[b].front] = element'
               ELSE block'[b].tail = block'[b].front
    <3>1. IF enqueuePc = "publishTailBlock" /\ b = NextOfTail
          THEN /\ block[b].tail = After(block[b], block[b].front)
               /\ block[b].data[block[b].front] = element
          ELSE block[b].tail = block[b].front
      BY <2>1 DEF Placed, BeyondFront
    <3>2. b \in Blocks
      BY <1>3
    <3>3. enqueuePc = "publishTailBlock" => element' = element /\ block'[b].data = block[b].data
      BY <3>2 DEF QuietStep
    <3>4. enqueuePc' = "publishTailBlock" <=> enqueuePc = "publishTailBlock"
      BY DEF QuietStep
    <3> QED BY <1>1, <3>1, <3>2, <3>3, <3>4
  <2> QED BY <1>0, <1>4, <2>1 DEF BeyondFront
<1>6. BehindTail(pos)'
  <2>1. BehindTail(pos)
    BY DEF Placed
  <2> QED BY <1>0, <1>1, <2>1 DEF BehindTail
<1>7. TailFilled'
  <2>1. TailFilled
    BY DEF Placed
  <2> QED BY <1>0, <1>1, <1>3, <2>1 DEF TailFilled, TailBlock
<1>8. Objects'
  <2>1. Objects /\ (dequeuePc' = "publishFront" <=> dequeuePc = "publishFront")
    BY DEF Placed, QuietStep
  <2> QED BY <1>0, <1>1, <2>1 DEF Objects
<1>9. Contents' = Contents
  <2>1. RingOf(pos, block, tailBlock, CircleSize) /\ RingOf(pos, block', tailBlock, CircleSize)
    BY <1>0, <1>2 DEF Ring
  <2>2. ContentsOf(block', frontBlock, tailBlock) = ContentsOf(block, frontBlock, tailBlock)
    BY <1>0, <1>1, <1>3, <2>1, ContentsKept DEF Blocks
  <2> QED BY <1>0, <2>2, ContentsAre, ContentsArePrimed
<1>10. Items' = Items
  <2>1. dequeuePc' = "publishFront" <=> dequeuePc = "publishFront"
    BY DEF QuietStep
  <2> QED BY <1>9, <2>1 DEF Items
<1> QED BY <1>2, <1>5, <1>6, <1>7, <1>8, <1>9, <1>10 DEF Placed

\* What the producer knows, when only the consumer's own fields change.
LEMMA ProducerKnowsKept ==
    ASSUME RWQTypeOK, NEW pos, Ring(pos), ProducerKnows, NewIsFilled,
           Len(block') = Len(block),
           \A b \in Blocks : SameItems(block'[b], block[b]) /\ block'[b].next = block[b].next
                             /\ block'[b].localFront = block[b].localFront,
           frontBlock' = frontBlock, tailBlock' = tailBlock, enqueuePc' = enqueuePc,
           element' = element \/ enqueuePc = "idle"
    PROVE  ProducerKnows' /\ NewIsFilled'
<1>1. /\ tailBlock \in Blocks /\ NextOfTail \in Blocks /\ Len(block) \in Blocks
  BY Positions DEF Blocks
<1>2. TailBlock' = block'[tailBlock] /\ TailBlock = block[tailBlock]
  BY DEF TailBlock
<1>3. /\ SameItems(TailBlock', TailBlock) /\ TailBlock'.next = TailBlock.next
      /\ TailBlock'.localFront = TailBlock.localFront
  BY <1>1, <1>2
<1>4. NextOfTail' = NextOfTail
  BY <1>3 DEF NextOfTail
<1>5. /\ SameItems(block'[NextOfTail], block[NextOfTail])
      /\ block'[NextOfTail].localFront = block[NextOfTail].localFront
      /\ SameItems(block'[Len(block)], block[Len(block)])
      /\ block'[Len(block)].localFront = block[Len(block)].localFront
      /\ block'[Len(block)].next = block[Len(block)].next
  BY <1>1
<1>6. ProducerKnows'
  <2> HIDE DEF TailBlock, NextOfTail
  <2> QED BY <1>3, <1>4, <1>5
       DEF ProducerKnows, MovesOn, TailFull, SameItems, Gap, Used, After
<1>7. NewIsFilled'
  BY <1>4, <1>5 DEF NewIsFilled, SameItems
<1> QED BY <1>6, <1>7

\* What the consumer knows, when only the producer's own fields change.
LEMMA ConsumerKnowsKept ==
    ASSUME RWQTypeOK, NEW pos, Ring(pos), ConsumerKnows,
           \A b \in Blocks : /\ block'[b].front = block[b].front
                             /\ block'[b].tail = block[b].tail
                             /\ block'[b].size = block[b].size
                             /\ block'[b].next = block[b].next
                             /\ block'[b].localTail = block[b].localTail,
           frontBlock' = frontBlock, tailBlock' = tailBlock,
           dequeuePc' = dequeuePc, op' = op
    PROVE  ConsumerKnows'
<1>1. /\ frontBlock \in Blocks /\ NextOfFront \in Blocks
  BY Positions
<1>2. FrontBlock' = block'[frontBlock] /\ FrontBlock = block[frontBlock]
  BY DEF FrontBlock
<1>3. /\ FrontBlock'.front = FrontBlock.front /\ FrontBlock'.tail = FrontBlock.tail
      /\ FrontBlock'.size = FrontBlock.size /\ FrontBlock'.next = FrontBlock.next
      /\ FrontBlock'.localTail = FrontBlock.localTail
  BY <1>1, <1>2
<1>4. NextOfFront' = NextOfFront
  BY <1>3 DEF NextOfFront
<1>5. /\ block'[NextOfFront].front = block[NextOfFront].front
      /\ block'[NextOfFront].tail = block[NextOfFront].tail
      /\ block'[NextOfFront].size = block[NextOfFront].size
      /\ block'[NextOfFront].localTail = block[NextOfFront].localTail
  BY <1>1
<1> QED BY <1>3, <1>4, <1>5 DEF ConsumerKnows, Seen, Used, Gap

\* The sizes, when blocks keep theirs.
LEMMA SizesKept ==
    ASSUME SizesOK, Len(block') = Len(block), config' = config,
           largestBlockSize' = largestBlockSize,
           \A b \in Blocks : block'[b].size = block[b].size
    PROVE  SizesOK'
  BY DEF SizesOK, Blocks, FirstSize, LastSize

\* A step that changes neither config nor what is in the blocks but for their
\* local indices.
RoomVars == <<enqueuePc, enqueueOk, lengthSeen, config>>
LEMMA RoomSeenKept ==
    ASSUME RoomSeen, Len(block') = Len(block), UNCHANGED RoomVars
    PROVE  RoomSeen'
  BY DEF RoomSeen, RoomForSize, RoomVars

LEMMA PeekFoundKept ==
    ASSUME PeekFound, Items' = Items, UNCHANGED <<dequeuePc, op, dequeueOk, result>>
    PROVE  PeekFound'
  BY DEF PeekFound

-----------------------------------------------------------------------------
(***************************************************************************)
(* What the constructor computes.                                          *)
(***************************************************************************)
LEMMA LargerOf ==
    ASSUME NEW a \in Nat, NEW b \in Nat
    PROVE  Max({a, b}) \in {a, b} /\ Max({a, b}) >= a /\ Max({a, b}) >= b
<1>1. \E x \in {a, b} : \A y \in {a, b} : x >= y
  <2>1. CASE a >= b
    BY <2>1
  <2>2. CASE b >= a
    BY <2>2
  <2> QED BY <2>1, <2>2
<1>2. Max({a, b}) \in {a, b} /\ \A y \in {a, b} : Max({a, b}) >= y
  BY <1>1 DEF Max
<1> QED BY <1>2

LEMMA Divided ==
    ASSUME NEW d \in Nat, d > 0, NEW s \in Nat, s > 0
    PROVE  LET q == (s + 2 * d - 1) \div d
           IN  q \in Nat /\ q >= 2 /\ d * (q - 1) >= s
<1> DEFINE x == s + 2 * d - 1
           q == x \div d
           r == x % d
<1>1. x \in Nat
  OBVIOUS
<1>2. x = d * q + r /\ q \in Int /\ r \in 0 .. d - 1
  <2> HIDE DEF x
  <2> QED BY <1>1
<1> HIDE DEF q, r
<1>3. d * q \in Int /\ d * (q - 1) = d * q - d
  BY <1>2
<1>4. d * (q - 1) >= s
  BY <1>2, <1>3
<1>5. q >= 2
  <2> SUFFICES ASSUME q <= 1 PROVE FALSE
    BY <1>2
  <2>1. d * (q - 1) <= 0
    BY <1>2
  <2> QED BY <1>2, <1>4, <2>1
<1>6. q \in Nat
  BY <1>2, <1>5
<1> QED BY <1>4, <1>5, <1>6 DEF q

LEMMA ConfigFacts ==
    ASSUME Sized, NEW c \in Configs
    PROVE  /\ c.size \in Nat /\ c.size > 0 /\ c.maxBlockSize \in Nat /\ c.maxBlockSize >= 2
           /\ c.blocksLeft \in Nat /\ c.serials \in Nat /\ c.serials >= 1
           /\ c.maxBlockSize \in Powers
           /\ InitialBlockSize(c) \in Nat /\ InitialBlockSize(c) >= 2
           /\ InitialBlockSize(c) \in Powers
           /\ InitialBlockCount(c) \in Nat /\ InitialBlockCount(c) >= 1
           /\ \/ InitialBlockCount(c) = 1 /\ InitialBlockSize(c) - 1 >= c.size
              \/ /\ InitialBlockCount(c) >= 2
                 /\ (InitialBlockSize(c) - 1) * (InitialBlockCount(c) - 1) >= c.size
<1> DEFINE m == c.maxBlockSize
           s == c.size
           p == CeilToPow2(s + 1)
<1>1. /\ s \in Nat /\ s > 0 /\ m \in Nat /\ m >= 2 /\ m = CeilToPow2(m)
      /\ c.blocksLeft \in Nat /\ c.serials \in Nat /\ c.serials >= 1
  BY RWQAssumption DEF Sized
<1> HIDE DEF m, s
<1>2. m \in Powers
  BY <1>1, CeilToPow2Is
<1>3. p \in Powers /\ p >= s + 1 /\ p \in Nat
  <2>1. s + 1 \in Nat /\ s + 1 > 0
    BY <1>1
  <2>2. p \in Powers /\ p >= s + 1
    BY <2>1, CeilToPow2Is
  <2> QED BY <2>2, PowersFrom
<1> HIDE DEF p
<1>4. InitialBlockCount(c) = IF p > m * 2 THEN (s + m * 2 - 3) \div (m - 1) ELSE 1
  BY DEF InitialBlockCount, m, s, p
<1>5. InitialBlockSize(c) = IF p > m * 2 THEN m ELSE p
  BY DEF InitialBlockSize, m, s, p
<1>6. CASE p > m * 2
  <2> DEFINE d == m - 1
             q == (s + 2 * d - 1) \div d
  <2>1. d \in Nat /\ d > 0 /\ s + m * 2 - 3 = s + 2 * d - 1
    BY <1>1
  <2>2. InitialBlockCount(c) = q
    BY <1>4, <1>6, <2>1
  <2> HIDE DEF d
  <2>3. q \in Nat /\ q >= 2 /\ d * (q - 1) >= s
    BY <1>1, <2>1, Divided
  <2> HIDE DEF q
  <2>4. InitialBlockSize(c) = m /\ m - 1 = d
    BY <1>5, <1>6 DEF d
  <2> QED BY <1>1, <1>2, <2>2, <2>3, <2>4 DEF m, s
<1>7. CASE ~(p > m * 2)
  <2>1. InitialBlockCount(c) = 1 /\ InitialBlockSize(c) = p
    BY <1>4, <1>5, <1>7
  <2> QED BY <1>1, <1>2, <1>3, <2>1 DEF m, s
<1> QED BY <1>6, <1>7

LEMMA SizeFacts ==
    ASSUME Sized, config \in Configs
    PROVE  /\ FirstSize \in Nat /\ FirstSize >= 2 /\ FirstSize \in Powers
           /\ LastSize \in Nat /\ LastSize >= FirstSize /\ LastSize >= config.maxBlockSize
           /\ LastSize \in {FirstSize, config.maxBlockSize}
<1>1. FirstSize \in Nat /\ FirstSize >= 2 /\ FirstSize \in Powers /\ config.maxBlockSize \in Nat
  BY ConfigFacts DEF FirstSize
<1>2. LastSize \in {FirstSize, config.maxBlockSize} /\ LastSize >= FirstSize
      /\ LastSize >= config.maxBlockSize
  BY <1>1, LargerOf DEF LastSize
<1> QED BY <1>1, <1>2

-----------------------------------------------------------------------------
(***************************************************************************)
(* The steps of the producer that leave the items as they are.             *)
(***************************************************************************)
Keeps == Items' = Items /\ delivered' = delivered /\ config' = config

LEMMA TypeFacts ==
    ASSUME RWQInv
    PROVE  /\ RWQTypeOK /\ SizesOK /\ ProducerKnows /\ NewIsFilled /\ ConsumerKnows
           /\ RoomSeen /\ PeekFound /\ BlockArray(block) /\ Len(block) \in Nat
           /\ \A b \in Blocks : BlockOK(block[b])
  BY ArrayFacts DEF RWQInv, RWQTypeOK, Blocks

\* Only control changes.
LEMMA NothingMoved ==
    ASSUME RWQInv, NEW pos, Placed(pos), block' = block,
           frontBlock' = frontBlock, tailBlock' = tailBlock,
           enqueuePc' = "link" <=> enqueuePc = "link",
           enqueuePc' = "publishTailBlock" <=> enqueuePc = "publishTailBlock",
           element' = element \/ enqueuePc = "idle",
           dequeuePc' = "publishFront" <=> dequeuePc = "publishFront"
    PROVE  Placed(pos)' /\ Items' = Items /\ Contents' = Contents /\ CircleSize' = CircleSize
<1>1. QuietStep
  BY DEF QuietStep, SameView
<1> QED BY <1>1, TypeFacts, QuietPlaced DEF CircleSize

LEMMA EnqueueBeginStep ==
    ASSUME RWQInv, NEW mode \in BOOLEAN, EnqueueBegin(mode)
    PROVE  RWQInv' /\ Keeps
<1> USE DEF EnqueueBegin, consumerVars
<1>1. PICK pos : Placed(pos)
  BY DEF RWQInv
<1>2. Placed(pos)' /\ Items' = Items /\ CircleSize' = CircleSize
  BY <1>1, NothingMoved
<1>3. RWQTypeOK'
  BY <1>2, TypeFacts DEF RWQTypeOK
<1>4. SizesOK'
  BY TypeFacts DEF SizesOK, Blocks, FirstSize, LastSize
<1>5. ProducerKnows' /\ NewIsFilled'
  BY TypeFacts DEF ProducerKnows, MovesOn, TailFull, NewIsFilled, TailBlock, NextOfTail
<1>6. ConsumerKnows'
  BY TypeFacts DEF ConsumerKnows, FrontBlock, NextOfFront
<1>7. RoomSeen'
  BY DEF RoomSeen, RoomForSize
<1>8. PeekFound'
  BY <1>2, TypeFacts DEF PeekFound
<1> QED BY <1>2, <1>3, <1>4, <1>5, <1>6, <1>7, <1>8 DEF RWQInv, Keeps

LEMMA EnqueueReturnedStep ==
    ASSUME Sized, RWQInv, EnqueueReturned
    PROVE  RWQInv' /\ Keeps
<1> USE DEF EnqueueReturned, consumerVars
<1>1. PICK pos : Placed(pos)
  BY DEF RWQInv
<1>2. Placed(pos)' /\ Items' = Items /\ CircleSize' = CircleSize
  BY <1>1, NothingMoved
<1>3. RWQTypeOK'
  <2>1. config \in Configs /\ element \in 0 .. config.serials - 1
    BY TypeFacts DEF RWQTypeOK
  <2>2. config.serials \in Nat /\ config.serials >= 1
    BY <2>1, ConfigFacts
  <2>3. (element + 1) % config.serials \in 0 .. config.serials - 1
    BY <2>1, <2>2
  <2> HIDE DEF EnqueueReturned
  <2>4. element' \in 0 .. config.serials - 1
    BY <2>1, <2>3 DEF EnqueueReturned
  <2> QED BY <1>2, <2>4, TypeFacts DEF RWQTypeOK, EnqueueReturned
<1>4. SizesOK'
  BY TypeFacts DEF SizesOK, Blocks, FirstSize, LastSize
<1>5. ProducerKnows' /\ NewIsFilled'
  BY TypeFacts DEF ProducerKnows, MovesOn, TailFull, NewIsFilled, TailBlock, NextOfTail
<1>6. ConsumerKnows'
  BY TypeFacts DEF ConsumerKnows, FrontBlock, NextOfFront
<1>7. RoomSeen'
  BY DEF RoomSeen, RoomForSize
<1>8. PeekFound'
  BY <1>2, TypeFacts DEF PeekFound
<1> QED BY <1>2, <1>3, <1>4, <1>5, <1>6, <1>7, <1>8 DEF RWQInv, Keeps

LEMMA BlockPut ==
    ASSUME BlockArray(block), NEW x \in Blocks, NEW r, BlockOK(r),
           block' = Put(block, x, r)
    PROVE  /\ BlockArray(block') /\ Len(block') = Len(block) /\ block'[x] = r
           /\ \A b \in 1 .. Len(block) : b # x => block'[b] = block[b]
<1>1. x \in 1 .. Len(block)
  BY DEF Blocks
<1>2. BlockArray(Put(block, x, r))
  BY <1>1, SetBlock
<1>3. \A b \in 1 .. Len(block) : b # x => Put(block, x, r)[b] = block[b]
  BY <1>1, SetBlock
<1>4. Len(Put(block, x, r)) = Len(block) /\ Put(block, x, r)[x] = r
  BY <1>1, SetBlock
<1> QED BY <1>2, <1>3, <1>4

\* The blocks, after a look at the front of one by the producer.
LEMMA FrontLooked ==
    ASSUME RWQInv, NEW x \in Blocks,
           block' = [block EXCEPT ![x].localFront = block[x].front]
    PROVE  /\ BlockArray(block') /\ Len(block') = Len(block)
           /\ \A b \in Blocks : /\ SameItems(block'[b], block[b])
                                /\ SameView(block'[b], block[b])
                                /\ block'[b].localTail = block[b].localTail
                                /\ b # x => block'[b] = block[b]
           /\ block'[x].localFront = block[x].front
<1> DEFINE v == block[x].front
           r == [block[x] EXCEPT !.localFront = v]
<1>1. BlockOK(block[x]) /\ v \in 0 .. block[x].size - 1 /\ BlockArray(block)
  BY TypeFacts, BlockFields
<1> HIDE DEF v
<1>2. /\ BlockOK(r) /\ SameItems(r, block[x]) /\ r.next = block[x].next
      /\ r.localTail = block[x].localTail /\ r.localFront = v
  BY <1>1, WithLocalFront
<1>3. block' = Put(block, x, r)
  BY DEF v, Put
<1> HIDE DEF r
<1>4. /\ BlockArray(block') /\ Len(block') = Len(block) /\ block'[x] = r
      /\ \A b \in 1 .. Len(block) : b # x => block'[b] = block[b]
  BY <1>1, <1>2, <1>3, BlockPut
<1>5. ASSUME NEW b \in Blocks
      PROVE  /\ SameItems(block'[b], block[b]) /\ block'[b].next = block[b].next
             /\ block'[b].localTail = block[b].localTail
  BY <1>2, <1>4 DEF Blocks, SameItems
<1>6. ASSUME NEW b \in Blocks PROVE SameView(block'[b], block[b])
  BY <1>5, SameBlockItems DEF SameView, SameItems
<1> QED BY <1>2, <1>4, <1>5, <1>6 DEF Blocks, v

LEMMA EnqueueLoadFrontStep ==
    ASSUME Sized, RWQInv, EnqueueLoadFront
    PROVE  RWQInv' /\ Keeps
<1>1. PICK pos : Placed(pos)
  BY DEF RWQInv
<1>0. /\ enqueuePc = "loadFront" /\ lengthSeen' = Len(Contents)
      /\ enqueuePc' = (IF After(TailBlock, TailBlock.tail) # TailBlock.front
                       THEN "construct" ELSE "checkNext")
      /\ block' = [block EXCEPT ![tailBlock].localFront = block[tailBlock].front]
      /\ UNCHANGED <<config, frontBlock, tailBlock, largestBlockSize,
                   canAlloc, element, enqueueOk, consumerVars>>
  BY DEF EnqueueLoadFront, TailBlock
<1>2. /\ Ring(pos) /\ tailBlock \in Blocks /\ frontBlock \in Blocks /\ NextOfTail \in Blocks
      /\ RWQTypeOK /\ BlockOK(TailBlock)
  BY <1>1, TypeFacts, Positions DEF Placed, TailBlock
<1>3. /\ BlockArray(block') /\ Len(block') = Len(block)
      /\ \A b \in Blocks : /\ SameItems(block'[b], block[b])
                           /\ SameView(block'[b], block[b])
                           /\ block'[b].localTail = block[b].localTail
                           /\ b # tailBlock => block'[b] = block[b]
      /\ block'[tailBlock].localFront = block[tailBlock].front
  BY <1>0, <1>2, FrontLooked
<1>4. QuietStep
  BY <1>0, <1>3 DEF QuietStep, consumerVars
<1>5. Placed(pos)' /\ Contents' = Contents /\ Items' = Items
  BY <1>1, <1>2, <1>4, QuietPlaced
<1>6. Contents \in Seq(Values)
  <2>1. RingOf(pos, block, tailBlock, CircleSize) /\ BlocksOK(block)
    BY <1>2 DEF Ring, RWQTypeOK, BlockArray
  <2> QED BY <1>2, <2>1, ContentsFrom, ContentsAre DEF Blocks
<1>7. RWQTypeOK'
  <2>1. Len(Contents) \in Nat
    BY <1>6, LenProperties
  <2> QED BY <1>0, <1>2, <1>3, <2>1 DEF RWQTypeOK, CircleSize, consumerVars
<1>8. SizesOK'
  BY <1>0, <1>3, SizesKept, TypeFacts DEF SameItems
<1>9. TailBlock' = block'[tailBlock] /\ SameItems(TailBlock', TailBlock)
      /\ TailBlock'.localFront = TailBlock.front /\ TailBlock'.next = TailBlock.next
  BY <1>0, <1>2, <1>3 DEF TailBlock, SameView
<1>10. ProducerKnows' /\ NewIsFilled'
  <2>1. Gap(TailBlock', TailBlock'.localFront) = Used(TailBlock')
    BY <1>9 DEF Gap, Used, SameItems
  <2>2. Used(TailBlock') \in Nat
    <3>1. BlockOK(TailBlock')
      BY <1>2, <1>3, <1>9 DEF BlockArray, BlocksOK, Blocks
    <3> QED BY <3>1, ItemsOfBlock
  <2>3. After(TailBlock', TailBlock'.tail) = After(TailBlock, TailBlock.tail)
    BY <1>9 DEF SameItems, After
  <2> QED BY <1>0, <1>9, <2>1, <2>2, <2>3
       DEF ProducerKnows, MovesOn, TailFull, NewIsFilled, SameItems
<1>11. ConsumerKnows'
  <2>1. \A b \in Blocks : /\ block'[b].front = block[b].front
                          /\ block'[b].tail = block[b].tail
                          /\ block'[b].size = block[b].size
                          /\ block'[b].next = block[b].next
                          /\ block'[b].localTail = block[b].localTail
    BY <1>3 DEF SameView
  <2> QED BY <1>0, <1>2, <2>1, TypeFacts, ConsumerKnowsKept DEF consumerVars
<1>12. RoomSeen'
  <2>1. ASSUME enqueuePc' = "checkNext", Len(block) = 1 PROVE Len(Contents) >= config.size
    <3>1. TailFull
      BY <1>0, <2>1 DEF TailFull
    <3>2. tailBlock = 1 /\ frontBlock = 1
      BY <1>2, <2>1 DEF Blocks
    <3>3. Contents = BlockItems(TailBlock)
      <4>1. RingOf(pos, block, tailBlock, CircleSize) /\ BlocksOK(block)
        BY <1>2 DEF Ring, RWQTypeOK, BlockArray
      <4> QED BY <1>2, <3>2, <4>1, ContentsFrom, ContentsAre DEF Blocks, TailBlock
    <3>4. Len(Contents) = Used(TailBlock)
      BY <1>2, <3>3, ItemsOfBlock
    <3>5. Used(TailBlock) = TailBlock.size - 1
      BY <1>2, <3>1, BlockFields, GapFacts DEF TailFull, Used
    <3>6. /\ config \in Configs
          /\ InitialBlockCount(config) <= 1
          /\ 1 <= InitialBlockCount(config) => TailBlock.size = InitialBlockSize(config)
      BY <1>2, <2>1, <3>2, TypeFacts DEF SizesOK, Blocks, FirstSize, TailBlock, RWQTypeOK
    <3>7. InitialBlockSize(config) - 1 >= config.size /\ InitialBlockCount(config) >= 1
      BY <3>6, ConfigFacts
    <3> QED BY <3>4, <3>5, <3>6, <3>7
  <2> QED BY <1>0, <1>3, <2>1 DEF RoomSeen, RoomForSize
<1>13. PeekFound'
  BY <1>0, <1>5, TypeFacts DEF PeekFound, consumerVars
<1> QED BY <1>0, <1>5, <1>7, <1>8, <1>10, <1>11, <1>12, <1>13 DEF RWQInv, Keeps, consumerVars

\* The blocks, after an object has been constructed at the tail of one.
LEMMA DataWritten ==
    ASSUME RWQInv, NEW x \in Blocks, enqueuePc # "publishTailBlock",
           block' = [block EXCEPT ![x].data[block[x].tail] = element]
    PROVE  /\ BlockArray(block') /\ Len(block') = Len(block)
           /\ \A b \in Blocks : /\ SameView(block'[b], block[b])
                                /\ block'[b].localTail = block[b].localTail
                                /\ block'[b].localFront = block[b].localFront
                                /\ b # x => block'[b] = block[b]
           /\ block'[x].data[block[x].tail] = element
<1> DEFINE v == block[x].tail
           r == Fill(block[x], v, element)
<1>1. BlockOK(block[x]) /\ v \in 0 .. block[x].size - 1 /\ BlockArray(block)
  BY TypeFacts, BlockFields
<1>2. element \in Values
  <2>1. config \in Configs /\ element \in 0 .. config.serials - 1
    BY TypeFacts DEF RWQTypeOK
  <2> QED BY <2>1, ConfigFacts, RWQAssumption DEF Values
<1> HIDE DEF v
<1>3. /\ BlockOK(r) /\ r.data = [block[x].data EXCEPT ![v] = element]
      /\ r.front = block[x].front /\ r.tail = block[x].tail
      /\ r.size = block[x].size /\ r.next = block[x].next
      /\ r.localTail = block[x].localTail /\ r.localFront = block[x].localFront
  BY <1>1, <1>2, WithData
<1>4. block' = Put(block, x, r)
  BY DEF v, Put, Fill
<1> HIDE DEF r
<1>5. /\ BlockArray(block') /\ Len(block') = Len(block) /\ block'[x] = r
      /\ \A b \in 1 .. Len(block) : b # x => block'[b] = block[b]
  BY <1>1, <1>3, <1>4, BlockPut
<1>6. BlockItems(r) = BlockItems(block[x])
  BY <1>1, <1>3, ItemsConstruct DEF v
<1>7. ASSUME NEW b \in Blocks
      PROVE  /\ SameView(block'[b], block[b])
             /\ block'[b].localTail = block[b].localTail
             /\ block'[b].localFront = block[b].localFront
             /\ b # x => block'[b] = block[b]
  BY <1>3, <1>5, <1>6 DEF SameView, Blocks
<1>8. r.data[v] = element
  <2>1. block[x].data \in [0 .. block[x].size - 1 -> Values]
    BY <1>1, BlockFields
  <2> QED BY <1>1, <1>3, <2>1
<1> QED BY <1>5, <1>7, <1>8 DEF v

LEMMA EnqueueConstructStep ==
    ASSUME Sized, RWQInv, EnqueueConstruct
    PROVE  RWQInv' /\ Keeps
<1>1. PICK pos : Placed(pos)
  BY DEF RWQInv
<1>0. /\ enqueuePc = "construct" /\ enqueuePc' = "publishTail"
      /\ block' = [block EXCEPT ![tailBlock].data[block[tailBlock].tail] = element]
      /\ UNCHANGED <<config, frontBlock, tailBlock, largestBlockSize,
                   canAlloc, element, enqueueOk, lengthSeen, consumerVars>>
  BY DEF EnqueueConstruct, TailBlock
<1>2. /\ Ring(pos) /\ tailBlock \in Blocks /\ frontBlock \in Blocks /\ NextOfTail \in Blocks
      /\ RWQTypeOK /\ BlockOK(TailBlock)
  BY <1>1, TypeFacts, Positions DEF Placed, TailBlock
<1>3. /\ BlockArray(block') /\ Len(block') = Len(block)
      /\ \A b \in Blocks : /\ SameView(block'[b], block[b])
                           /\ block'[b].localTail = block[b].localTail
                           /\ block'[b].localFront = block[b].localFront
      /\ block'[tailBlock].data[block[tailBlock].tail] = element
  BY <1>0, <1>2, DataWritten
<1>4. QuietStep
  BY <1>0, <1>3 DEF QuietStep, consumerVars
<1>5. Placed(pos)' /\ Contents' = Contents /\ Items' = Items
  BY <1>1, <1>2, <1>4, QuietPlaced
<1>7. RWQTypeOK'
  BY <1>0, <1>2, <1>3 DEF RWQTypeOK, CircleSize, consumerVars
<1>8. SizesOK'
  BY <1>0, <1>3, SizesKept, TypeFacts DEF SameView
<1>9. /\ TailBlock' = block'[tailBlock] /\ SameView(TailBlock', TailBlock)
      /\ TailBlock'.localFront = TailBlock.localFront
      /\ TailBlock'.data[TailBlock.tail] = element
  BY <1>0, <1>2, <1>3 DEF TailBlock
<1>10. ProducerKnows' /\ NewIsFilled'
  <2>1. /\ Gap(TailBlock, TailBlock.localFront) >= Used(TailBlock)
        /\ After(TailBlock, TailBlock.tail) # TailBlock.localFront
    BY <1>0, TypeFacts DEF ProducerKnows
  <2>2. /\ Gap(TailBlock', TailBlock'.localFront) = Gap(TailBlock, TailBlock.localFront)
        /\ Used(TailBlock') = Used(TailBlock)
        /\ After(TailBlock', TailBlock'.tail) = After(TailBlock, TailBlock.tail)
        /\ TailBlock'.tail = TailBlock.tail
    BY <1>9 DEF SameView, After, Gap, Used
  <2> QED BY <1>0, <1>9, <2>1, <2>2 DEF ProducerKnows, MovesOn, NewIsFilled
<1>11. ConsumerKnows'
  <2>1. \A b \in Blocks : /\ block'[b].front = block[b].front
                          /\ block'[b].tail = block[b].tail
                          /\ block'[b].size = block[b].size
                          /\ block'[b].next = block[b].next
                          /\ block'[b].localTail = block[b].localTail
    BY <1>3 DEF SameView
  <2> QED BY <1>0, <1>2, <2>1, TypeFacts, ConsumerKnowsKept DEF consumerVars
<1>12. RoomSeen'
  BY <1>0 DEF RoomSeen, RoomForSize
<1>13. PeekFound'
  BY <1>0, <1>5, TypeFacts, PeekFoundKept DEF consumerVars
<1> QED BY <1>0, <1>5, <1>7, <1>8, <1>10, <1>11, <1>12, <1>13 DEF RWQInv, Keeps, consumerVars

LEMMA EnqueueConstructNextStep ==
    ASSUME Sized, RWQInv, EnqueueConstructNext
    PROVE  RWQInv' /\ Keeps
<1>1. PICK pos : Placed(pos)
  BY DEF RWQInv
<1>0. /\ enqueuePc = "constructNext" /\ enqueuePc' = "publishNextTail"
      /\ block' = [block EXCEPT ![NextOfTail].data[block[NextOfTail].tail] = element]
      /\ UNCHANGED <<config, frontBlock, tailBlock, largestBlockSize,
                   canAlloc, element, enqueueOk, lengthSeen, consumerVars>>
  BY DEF EnqueueConstructNext
<1>2. /\ Ring(pos) /\ tailBlock \in Blocks /\ frontBlock \in Blocks /\ NextOfTail \in Blocks
      /\ RWQTypeOK /\ (NextOfTail # frontBlock => NextOfTail # tailBlock)
  BY <1>1, TypeFacts, Positions DEF Placed
<1>3. /\ BlockArray(block') /\ Len(block') = Len(block)
      /\ \A b \in Blocks : /\ SameView(block'[b], block[b])
                           /\ block'[b].localTail = block[b].localTail
                           /\ block'[b].localFront = block[b].localFront
                           /\ b # NextOfTail => block'[b] = block[b]
      /\ block'[NextOfTail].data[block[NextOfTail].tail] = element
  BY <1>0, <1>2, DataWritten
<1>4. QuietStep
  BY <1>0, <1>3 DEF QuietStep, consumerVars
<1>5. Placed(pos)' /\ Contents' = Contents /\ Items' = Items
  BY <1>1, <1>2, <1>4, QuietPlaced
<1>7. RWQTypeOK'
  BY <1>0, <1>2, <1>3 DEF RWQTypeOK, CircleSize, consumerVars
<1>8. SizesOK'
  BY <1>0, <1>3, SizesKept, TypeFacts DEF SameView
<1>9. /\ NextOfTail # frontBlock
      /\ block[NextOfTail].localFront = block[NextOfTail].front
      /\ tailBlock = frontBlock \/ TailFull
      /\ Gap(TailBlock, TailBlock.localFront) >= Used(TailBlock)
  BY <1>0, TypeFacts DEF ProducerKnows, MovesOn
<1>14. TailBlock' = TailBlock /\ NextOfTail' = NextOfTail
  BY <1>0, <1>2, <1>3, <1>9 DEF TailBlock, NextOfTail
<1>10. ProducerKnows' /\ NewIsFilled'
  <2>1. /\ SameView(block'[NextOfTail], block[NextOfTail])
        /\ block'[NextOfTail].localFront = block[NextOfTail].localFront
    BY <1>2, <1>3
  <2> HIDE DEF TailBlock, NextOfTail
  <2> QED BY <1>0, <1>3, <1>9, <1>14, <2>1
       DEF ProducerKnows, MovesOn, NewIsFilled, TailFull, SameView
<1>11. ConsumerKnows'
  <2>1. \A b \in Blocks : /\ block'[b].front = block[b].front
                          /\ block'[b].tail = block[b].tail
                          /\ block'[b].size = block[b].size
                          /\ block'[b].next = block[b].next
                          /\ block'[b].localTail = block[b].localTail
    BY <1>3 DEF SameView
  <2> QED BY <1>0, <1>2, <2>1, TypeFacts, ConsumerKnowsKept DEF consumerVars
<1>12. RoomSeen'
  BY <1>0 DEF RoomSeen, RoomForSize
<1>13. PeekFound'
  BY <1>0, <1>5, TypeFacts, PeekFoundKept DEF consumerVars
<1> QED BY <1>0, <1>5, <1>7, <1>8, <1>10, <1>11, <1>12, <1>13 DEF RWQInv, Keeps, consumerVars

LEMMA EnqueueLoadNextFrontStep ==
    ASSUME Sized, RWQInv, EnqueueLoadNextFront
    PROVE  RWQInv' /\ Keeps
<1>1. PICK pos : Placed(pos)
  BY DEF RWQInv
<1>0. /\ enqueuePc = "loadNextFront" /\ enqueuePc' = "constructNext"
      /\ block' = [block EXCEPT ![NextOfTail].localFront = block[NextOfTail].front]
      /\ UNCHANGED <<config, frontBlock, tailBlock, largestBlockSize,
                   canAlloc, element, enqueueOk, lengthSeen, consumerVars>>
  BY DEF EnqueueLoadNextFront
<1>2. /\ Ring(pos) /\ tailBlock \in Blocks /\ frontBlock \in Blocks /\ NextOfTail \in Blocks
      /\ RWQTypeOK /\ (NextOfTail # frontBlock => NextOfTail # tailBlock)
  BY <1>1, TypeFacts, Positions DEF Placed
<1>3. /\ BlockArray(block') /\ Len(block') = Len(block)
      /\ \A b \in Blocks : /\ SameView(block'[b], block[b])
                           /\ block'[b].localTail = block[b].localTail
                           /\ b # NextOfTail => block'[b] = block[b]
      /\ block'[NextOfTail].localFront = block[NextOfTail].front
  BY <1>0, <1>2, FrontLooked
<1>4. QuietStep
  BY <1>0, <1>3 DEF QuietStep, consumerVars
<1>5. Placed(pos)' /\ Contents' = Contents /\ Items' = Items
  BY <1>1, <1>2, <1>4, QuietPlaced
<1>7. RWQTypeOK'
  BY <1>0, <1>2, <1>3 DEF RWQTypeOK, CircleSize, consumerVars
<1>8. SizesOK'
  BY <1>0, <1>3, SizesKept, TypeFacts DEF SameView
<1>9. /\ NextOfTail # frontBlock
      /\ tailBlock = frontBlock \/ TailFull
      /\ Gap(TailBlock, TailBlock.localFront) >= Used(TailBlock)
  BY <1>0, TypeFacts DEF ProducerKnows, MovesOn
<1>14. TailBlock' = TailBlock /\ NextOfTail' = NextOfTail
  BY <1>0, <1>2, <1>3, <1>9 DEF TailBlock, NextOfTail
<1>10. ProducerKnows' /\ NewIsFilled'
  <2>1. SameView(block'[NextOfTail], block[NextOfTail])
    BY <1>2, <1>3
  <2> HIDE DEF TailBlock, NextOfTail
  <2> QED BY <1>0, <1>3, <1>9, <1>14, <2>1
       DEF ProducerKnows, MovesOn, NewIsFilled, TailFull, SameView
<1>11. ConsumerKnows'
  <2>1. \A b \in Blocks : /\ block'[b].front = block[b].front
                          /\ block'[b].tail = block[b].tail
                          /\ block'[b].size = block[b].size
                          /\ block'[b].next = block[b].next
                          /\ block'[b].localTail = block[b].localTail
    BY <1>3 DEF SameView
  <2> QED BY <1>0, <1>2, <2>1, TypeFacts, ConsumerKnowsKept DEF consumerVars
<1>12. RoomSeen'
  BY <1>0 DEF RoomSeen, RoomForSize
<1>13. PeekFound'
  BY <1>0, <1>5, TypeFacts, PeekFoundKept DEF consumerVars
<1> QED BY <1>0, <1>5, <1>7, <1>8, <1>10, <1>11, <1>12, <1>13 DEF RWQInv, Keeps, consumerVars

\* With the consumer in the block after the full tail block, the others are full.
LEMMA FullCircle ==
    ASSUME Sized, RWQInv, enqueuePc = "checkNext", NextOfTail = frontBlock,
           Len(block) > 1
    PROVE  Len(Contents) >= config.size
<1>1. PICK pos : Placed(pos)
  BY DEF RWQInv
<1> DEFINE N == Len(block)
           A == FirstSize - 1
<1>2. /\ Ring(pos) /\ CircleSize = N /\ N \in Nat /\ N > 1
      /\ tailBlock \in Blocks /\ frontBlock \in Blocks
      /\ pos[tailBlock] = 0 /\ pos[frontBlock] = N - 1
      /\ \A b \in Blocks : BlockOK(block[b]) /\ pos[b] \in Nat
      /\ \A b, c \in 1 .. CircleSize : pos[b] = pos[c] => b = c
  BY <1>1, TypeFacts, Positions DEF Placed, CircleSize
<1>3. frontBlock # tailBlock
  BY <1>2
<1>4. TailFull
  BY <1>3, TypeFacts DEF ProducerKnows
<1>5. /\ config \in Configs /\ N >= InitialBlockCount(config)
      /\ \A b \in Blocks : block[b].size >= FirstSize
  BY TypeFacts DEF SizesOK, RWQTypeOK
<1>6. FirstSize \in Nat /\ FirstSize >= 2
  BY <1>5, SizeFacts
<1>7. ASSUME NEW b \in Blocks, pos[b] < pos[frontBlock]
      PROVE  Used(block[b]) >= A
  <2>1. After(block[b], block[b].tail) = block[b].front
    <3>1. CASE pos[b] = 0
      <4>1. b = tailBlock
        BY <1>2, <3>1 DEF Blocks
      <4> QED BY <1>4, <4>1 DEF TailFull, TailBlock
    <3>2. CASE pos[b] # 0
      <4>1. 0 < pos[b]
        BY <1>2, <3>2
      <4> QED BY <1>1, <1>7, <4>1 DEF Placed, BehindTail
    <3> QED BY <3>1, <3>2
  <2>2. Used(block[b]) = block[b].size - 1
    BY <1>2, <2>1, BlockFields, GapFacts DEF Used
  <2> QED BY <1>2, <1>5, <1>6, <2>2, BlockFields
<1>8. A \in Nat
  BY <1>6
<1>9. RingOf(pos, block, tailBlock, CircleSize) /\ BlocksOK(block)
  BY <1>2, TypeFacts DEF Ring, BlockArray
<1> HIDE DEF A
<1>10. Len(Contents) >= A * pos[frontBlock]
  BY <1>2, <1>7, <1>8, <1>9, ContentsAtLeast, ContentsAre DEF Blocks
<1>11. Len(Contents) >= A * (N - 1) /\ Len(Contents) \in Nat
  <2>1. Contents \in Seq(Values)
    BY <1>2, <1>9, ContentsFrom, ContentsAre DEF Blocks
  <2> QED BY <1>2, <1>10, <2>1, LenProperties
<1> DEFINE q == InitialBlockCount(config)
<1>12. /\ q \in Nat /\ q >= 1 /\ config.size \in Nat
       /\ \/ q = 1 /\ A >= config.size
          \/ q >= 2 /\ A * (q - 1) >= config.size
  BY <1>5, ConfigFacts DEF A, FirstSize
<1> HIDE DEF q, N
<1>13. CASE q = 1 /\ A >= config.size
  <2>1. A * 1 <= A * (N - 1) /\ A * 1 = A /\ A * (N - 1) \in Nat
    BY <1>2, <1>8, Times
  <2> QED BY <1>8, <1>11, <1>12, <1>13, <2>1
<1>14. CASE q >= 2 /\ A * (q - 1) >= config.size
  <2>1. q - 1 \in Nat /\ N - 1 \in Nat /\ q - 1 <= N - 1
    BY <1>2, <1>5, <1>12, <1>14 DEF q, N
  <2>2. A * (q - 1) <= A * (N - 1) /\ A * (q - 1) \in Nat /\ A * (N - 1) \in Nat
    BY <1>8, <2>1, Times
  <2> QED BY <1>11, <1>12, <1>14, <2>2
<1> QED BY <1>12, <1>13, <1>14

LEMMA EnqueueCheckNextStep ==
    ASSUME Sized, RWQInv, EnqueueCheckNext
    PROVE  RWQInv' /\ Keeps
<1>1. PICK pos : Placed(pos)
  BY DEF RWQInv
<1>0. /\ enqueuePc = "checkNext" /\ lengthSeen' = Max({lengthSeen, Len(Contents)})
      /\ \/ NextOfTail # frontBlock /\ enqueuePc' = "loadNextFront" /\ enqueueOk' = enqueueOk
         \/ NextOfTail = frontBlock /\ enqueuePc' = "allocate" /\ enqueueOk' = enqueueOk
         \/ NextOfTail = frontBlock /\ enqueuePc' = "idle" /\ enqueueOk' = FALSE
      /\ UNCHANGED <<config, block, frontBlock, tailBlock, largestBlockSize,
                   canAlloc, element, consumerVars>>
  BY DEF EnqueueCheckNext
<1>2. Placed(pos)' /\ Items' = Items /\ CircleSize' = CircleSize
  BY <1>0, <1>1, NothingMoved DEF consumerVars
<1>3. Len(Contents) \in Nat /\ lengthSeen \in Nat
  <2>1. /\ RingOf(pos, block, tailBlock, CircleSize) /\ BlocksOK(block)
        /\ frontBlock \in Blocks /\ lengthSeen \in Nat
    BY <1>1, TypeFacts, Positions DEF Placed, Ring, RWQTypeOK, BlockArray
  <2>2. Contents \in Seq(Values)
    BY <2>1, ContentsFrom, ContentsAre DEF Blocks
  <2> QED BY <2>1, <2>2, LenProperties
<1>4. lengthSeen' \in Nat /\ lengthSeen' >= lengthSeen /\ lengthSeen' >= Len(Contents)
  BY <1>0, <1>3, LargerOf
<1>5. RWQTypeOK'
  BY <1>0, <1>2, <1>4, TypeFacts DEF RWQTypeOK, consumerVars
<1>6. SizesOK'
  BY <1>0, TypeFacts DEF SizesOK, Blocks, FirstSize, LastSize
<1>7. ProducerKnows' /\ NewIsFilled'
  <2>1. TailBlock' = TailBlock /\ NextOfTail' = NextOfTail
    BY <1>0 DEF TailBlock, NextOfTail
  <2> HIDE DEF TailBlock, NextOfTail
  <2> QED BY <1>0, <2>1, TypeFacts DEF ProducerKnows, MovesOn, TailFull, NewIsFilled
<1>8. ConsumerKnows'
  BY <1>0, TypeFacts DEF ConsumerKnows, FrontBlock, NextOfFront, consumerVars
<1>9. RoomSeen'
  <2>1. ASSUME NextOfTail = frontBlock PROVE lengthSeen' >= config.size
    <3>1. config.size \in Nat
      BY TypeFacts, ConfigFacts DEF RWQTypeOK
    <3>2. CASE Len(block) = 1
      <4>1. lengthSeen >= config.size
        BY <1>0, <3>2, TypeFacts DEF RoomSeen
      <4> QED BY <1>3, <1>4, <3>1, <4>1
    <3>3. CASE Len(block) # 1
      <4>1. Len(block) > 1
        <5>1. Len(block) \in Nat /\ Len(block) >= 1
          <6>1. RWQTypeOK /\ Ring(pos)
            BY <1>1, TypeFacts DEF Placed
          <6> QED BY <6>1, Positions
        <5> DEFINE n == Len(block)
        <5>2. n \in Nat /\ n >= 1 /\ n # 1
          BY <3>3, <5>1
        <5> HIDE DEF n
        <5>3. n > 1
          BY <5>2
        <5> QED BY <5>3 DEF n
      <4>2. Len(Contents) >= config.size
        BY <1>0, <2>1, <4>1, FullCircle
      <4> QED BY <1>3, <1>4, <3>1, <4>2
    <3> QED BY <3>2, <3>3
  <2>2. enqueueOk' = enqueueOk \/ NextOfTail = frontBlock
    BY <1>0
  <2> QED BY <1>0, <2>1 DEF RoomSeen, RoomForSize
<1>10. PeekFound'
  BY <1>0, <1>2, TypeFacts DEF PeekFound, consumerVars
<1> QED BY <1>0, <1>2, <1>5, <1>6, <1>7, <1>8, <1>9, <1>10 DEF RWQInv, Keeps, consumerVars

-----------------------------------------------------------------------------
(***************************************************************************)
(* The steps of the producer that fill the next block or link in a new one.*)
(***************************************************************************)
\* The first item is there while the consumer reads it or moves it out.
LEMMA FrontHasItems ==
    ASSUME RWQInv, NEW pos, Placed(pos)
    PROVE  /\ Contents \in Seq(Values) /\ BlockOK(FrontBlock) /\ frontBlock \in Blocks
           /\ RingOf(pos, block, tailBlock, CircleSize) /\ BlocksOK(block)
           /\ dequeuePc \in {"read", "publishFront"} =>
                  FrontBlock.tail # FrontBlock.front /\ Contents # <<>> /\ Len(Contents) >= 1
<1>1. /\ RingOf(pos, block, tailBlock, CircleSize) /\ BlocksOK(block)
      /\ frontBlock \in Blocks /\ BlockOK(FrontBlock) /\ Seen(FrontBlock) <= Used(FrontBlock)
  <2>1. RWQTypeOK /\ Ring(pos)
    BY TypeFacts DEF Placed
  <2>2. frontBlock \in Blocks
    BY <2>1, Positions
  <2> QED BY <2>1, <2>2, TypeFacts DEF Ring, RWQTypeOK, BlockArray, FrontBlock, ConsumerKnows
<1>2. Contents \in Seq(Values)
  BY <1>1, ContentsFrom, ContentsAre DEF Blocks
<1>3. ASSUME dequeuePc \in {"read", "publishFront"}
      PROVE  FrontBlock.tail # FrontBlock.front /\ Contents # <<>> /\ Len(Contents) >= 1
  <2>1. FrontBlock.localTail # FrontBlock.front
    BY <1>3, TypeFacts DEF ConsumerKnows
  <2>2. Seen(FrontBlock) \in Nat /\ Seen(FrontBlock) # 0
    <3>1. /\ FrontBlock.size \in Nat /\ FrontBlock.size >= 2
          /\ FrontBlock.localTail \in 0 .. FrontBlock.size - 1
          /\ FrontBlock.front \in 0 .. FrontBlock.size - 1
      BY <1>1, BlockFields
    <3> DEFINE s == FrontBlock.size
               t == FrontBlock.localTail
               i == FrontBlock.front
    <3> HIDE DEF s, t, i
    <3>2. Ahead(s, t, i) \in 0 .. s - 1 /\ (Ahead(s, t, i) = 0 <=> t = i)
      BY <3>1, AheadFacts DEF s, t, i
    <3>3. Ahead(s, t, i) \in Nat /\ Ahead(s, t, i) # 0
      BY <2>1, <3>1, <3>2 DEF s, t, i
    <3> QED BY <3>3 DEF Seen, s, t, i
  <2>3. Used(FrontBlock) \in Nat /\ Used(FrontBlock) # 0 /\ Used(FrontBlock) >= 1
    BY <1>1, <2>2, ItemsOfBlock
  <2>4. FrontBlock.tail # FrontBlock.front
    BY <1>1, <2>3, ItemsOfBlock
  <2>5. /\ BlockItems(FrontBlock) \in Seq(Values)
        /\ Len(BlockItems(FrontBlock)) = Used(FrontBlock)
    BY <1>1, ItemsOfBlock
  <2>6. PICK rest \in Seq(Values) :
            ContentsOf(block, frontBlock, tailBlock) = Cat(BlockItems(block[frontBlock]), rest)
    BY <1>1, ContentsAtFront DEF Blocks
  <2>7. Contents = Cat(BlockItems(FrontBlock), rest)
    BY <2>6, ContentsAre DEF FrontBlock
  <2>8. Len(Contents) = Used(FrontBlock) + Len(rest) /\ Len(rest) \in Nat
    <3>1. Joins(Contents, BlockItems(FrontBlock), rest, Len(BlockItems(FrontBlock)), Len(rest))
      BY <2>5, <2>7, CatItems
    <3> QED BY <2>5, <3>1 DEF Joins
  <2>9. Len(Contents) >= 1
    BY <2>3, <2>8
  <2>10. Contents # <<>>
    BY <2>3, <2>8, <2>9, EmptySeq
  <2> QED BY <2>4, <2>9, <2>10
<1> QED BY <1>1, <1>2, <1>3

\* One element more inside.
Adds == Items' = Append(Items, element) /\ element \in 0 .. config.serials - 1
        /\ delivered' = delivered /\ config' = config

LEMMA TailOfAdd ==
    ASSUME NEW S, NEW s \in Seq(S), s # <<>>, NEW v \in S
    PROVE  Tail(Append(s, v)) = Append(Tail(s), v)
<1> DEFINE n == Len(s)
           a == Append(s, v)
           t == Tail(s)
           u == Tail(a)
           w == Append(t, v)
<1>1. n \in Nat /\ n # 0 /\ n >= 1
  BY LenProperties, EmptySeq
<1>2. /\ a \in Seq(S) /\ Len(a) = n + 1 /\ a # <<>> /\ a[n + 1] = v
      /\ \A i \in 1 .. n : a[i] = s[i]
  BY AppendProperties
<1>3. /\ t \in Seq(S) /\ Len(t) = n - 1
      /\ \A i \in 1 .. n - 1 : t[i] = s[i + 1]
  BY HeadTailProperties
<1> HIDE DEF a, t, n
<1>4. /\ u \in Seq(S) /\ Len(u) = n /\ \A i \in 1 .. n : u[i] = a[i + 1]
  <2>1. u \in Seq(S) /\ Len(u) = Len(a) - 1 /\ \A i \in 1 .. Len(u) : u[i] = a[i + 1]
    BY <1>2, HeadTailProperties
  <2> QED BY <1>1, <1>2, <2>1
<1>5. /\ w \in Seq(S) /\ Len(w) = n /\ w[n] = v /\ \A i \in 1 .. n - 1 : w[i] = t[i]
  <2>1. w \in Seq(S) /\ Len(w) = Len(t) + 1 /\ w[Len(t) + 1] = v
        /\ \A i \in 1 .. Len(t) : w[i] = t[i]
    BY <1>3, AppendProperties
  <2>2. Len(t) + 1 = n
    BY <1>1, <1>3
  <2> QED BY <1>3, <2>1, <2>2
<1> HIDE DEF u, w
<1>6. \A i \in 1 .. n : u[i] = w[i]
  <2> SUFFICES ASSUME NEW i \in 1 .. n PROVE u[i] = w[i]
    OBVIOUS
  <2>1. CASE i = n
    BY <1>1, <1>2, <1>4, <1>5, <2>1
  <2>2. CASE i # n
    <3>1. i \in 1 .. n - 1 /\ i + 1 \in 1 .. n
      BY <1>1, <2>2
    <3> QED BY <1>2, <1>3, <1>4, <1>5, <3>1
  <2> QED BY <2>1, <2>2
<1>7. u = w
  BY <1>1, <1>4, <1>5, <1>6, SameSeq
<1> QED BY <1>7 DEF u, w, a, t

LEMMA ItemsTyped ==
    ASSUME RWQInv
    PROVE  /\ Items \in Seq(Values) /\ Contents \in Seq(Values)
           /\ Len(Items) \in Nat /\ Len(Items) <= Len(Contents) /\ Len(Contents) \in Nat
<1>1. PICK pos : Placed(pos)
  BY DEF RWQInv
<1>2. /\ Contents \in Seq(Values)
      /\ dequeuePc = "publishFront" => Contents # <<>>
  BY <1>1, FrontHasItems
<1>3. CASE dequeuePc = "publishFront"
  <2>1. Items = Tail(Contents)
    BY <1>3 DEF Items
  <2>2. Tail(Contents) \in Seq(Values) /\ Len(Tail(Contents)) = Len(Contents) - 1
    BY <1>2, <1>3, HeadTailProperties
  <2> QED BY <1>2, <2>1, <2>2, LenProperties
<1>4. CASE dequeuePc # "publishFront"
  <2>1. Items = Contents
    BY <1>4 DEF Items
  <2> QED BY <1>2, <2>1, LenProperties
<1> QED BY <1>3, <1>4

LEMMA ItemsGrow ==
    ASSUME Sized, RWQInv, Contents' = Add(Contents, element), dequeuePc' = dequeuePc,
           delivered' = delivered, config' = config, op' = op, dequeueOk' = dequeueOk,
           result' = result
    PROVE  Adds /\ PeekFound'
<1>1. /\ config \in Configs /\ element \in 0 .. config.serials - 1
  BY TypeFacts DEF RWQTypeOK
<1>2. element \in Values
  BY <1>1, ConfigFacts DEF Values
<1>3. Items' = Append(Items, element)
  <2>1. PICK pos : Placed(pos)
    BY DEF RWQInv
  <2>2. Contents \in Seq(Values) /\ (dequeuePc = "publishFront" => Contents # <<>>)
    BY <2>1, FrontHasItems
  <2>3. CASE dequeuePc = "publishFront"
    <3>1. Tail(Append(Contents, element)) = Append(Tail(Contents), element)
      BY <1>2, <2>2, <2>3, TailOfAdd
    <3>2. Items' = Tail(Contents') /\ Items = Tail(Contents)
      BY <2>3 DEF Items
    <3>3. Contents' = Append(Contents, element)
      BY DEF Add
    <3> QED BY <3>1, <3>2, <3>3
  <2>4. CASE dequeuePc # "publishFront"
    BY <2>4 DEF Items, Add
  <2> QED BY <2>3, <2>4
<1>4. Items # <<>> => Items' # <<>> /\ Head(Items') = Head(Items)
  <2> SUFFICES ASSUME Items # <<>> PROVE Items' # <<>> /\ Head(Items') = Head(Items)
    OBVIOUS
  <2>1. Items \in Seq(Values) /\ Len(Items) \in Nat
    BY ItemsTyped
  <2> DEFINE s == Items
             a == Items'
  <2>2. s \in Seq(Values) /\ s # <<>> /\ a = Append(s, element)
    BY <1>3, <2>1
  <2> HIDE DEF s, a
  <2>3. a \in Seq(Values) /\ a # <<>> /\ Len(s) >= 1 /\ \A i \in 1 .. Len(s) : a[i] = s[i]
    BY <1>2, <2>2, AppendProperties, EmptySeq, LenProperties
  <2>4. a[1] = s[1]
    BY <2>2, <2>3, LenProperties
  <2>5. Head(a) = a[1] /\ Head(s) = s[1]
    BY <2>2, <2>3 DEF Head
  <2> QED BY <2>3, <2>4, <2>5 DEF s, a
<1>5. PeekFound'
  BY <1>4, TypeFacts DEF PeekFound
<1> QED BY <1>1, <1>3, <1>5 DEF Adds

\* The blocks, after the tail of one has been moved on.
LEMMA TailMoved ==
    ASSUME RWQInv, NEW x \in Blocks,
           After(block[x], block[x].tail) # block[x].front,
           block' = [block EXCEPT ![x].tail = After(block[x], block[x].tail)]
    PROVE  /\ BlockArray(block') /\ Len(block') = Len(block)
           /\ \A b \in Blocks : /\ block'[b].front = block[b].front
                                /\ block'[b].size = block[b].size
                                /\ block'[b].next = block[b].next
                                /\ block'[b].data = block[b].data
                                /\ block'[b].localTail = block[b].localTail
                                /\ block'[b].localFront = block[b].localFront
                                /\ Used(block'[b]) >= Used(block[b])
                                /\ b # x => block'[b] = block[b]
           /\ block'[x].tail = After(block[x], block[x].tail)
           /\ BlockItems(block'[x]) = Add(BlockItems(block[x]), block[x].data[block[x].tail])
           /\ Used(block'[x]) = Used(block[x]) + 1
           /\ \A i \in 0 .. block[x].size - 1 : After(block[x], block[x].tail) # i =>
                  Gap(block'[x], i) = Gap(block[x], i) + 1
<1> DEFINE v == After(block[x], block[x].tail)
           r == [block[x] EXCEPT !.tail = v]
<1>1. /\ BlockOK(block[x]) /\ v \in 0 .. block[x].size - 1 /\ BlockArray(block)
      /\ \A b \in Blocks : BlockOK(block[b])
  BY TypeFacts, BlockFields
<1> HIDE DEF v
<1>2. /\ BlockOK(r) /\ r.tail = v /\ r.front = block[x].front /\ r.size = block[x].size
      /\ r.data = block[x].data /\ r.next = block[x].next
      /\ r.localTail = block[x].localTail /\ r.localFront = block[x].localFront
  BY <1>1, WithTail
<1>3. block' = Put(block, x, r)
  BY DEF v, Put
<1> HIDE DEF r
<1>4. /\ BlockArray(block') /\ Len(block') = Len(block) /\ block'[x] = r
      /\ \A b \in 1 .. Len(block) : b # x => block'[b] = block[b]
  BY <1>1, <1>2, <1>3, BlockPut
<1>5. /\ BlockItems(r) = Append(BlockItems(block[x]), block[x].data[block[x].tail])
      /\ Used(r) = Used(block[x]) + 1
  BY <1>1, <1>2, ItemsPublish DEF v
<1>6. Used(block[x]) \in Nat
  BY <1>1, ItemsOfBlock
<1>7. ASSUME NEW b \in Blocks
      PROVE  /\ block'[b].front = block[b].front
             /\ block'[b].size = block[b].size
             /\ block'[b].next = block[b].next
             /\ block'[b].data = block[b].data
             /\ block'[b].localTail = block[b].localTail
             /\ block'[b].localFront = block[b].localFront
             /\ Used(block'[b]) >= Used(block[b])
             /\ b # x => block'[b] = block[b]
  <2>1. Used(block[b]) \in Nat
    BY <1>1, ItemsOfBlock
  <2> QED BY <1>2, <1>4, <1>5, <1>6, <2>1 DEF Blocks
<1>8. ASSUME NEW i \in 0 .. block[x].size - 1, v # i
      PROVE  Gap(r, i) = Gap(block[x], i) + 1
  BY <1>1, <1>2, <1>8, GapFacts DEF v
<1> QED BY <1>2, <1>4, <1>5, <1>7, <1>8 DEF v, Add

\* What the consumer knows, when a tail has been moved on.
LEMMA ConsumerKnowsGrown ==
    ASSUME RWQInv, NEW x \in Blocks, x # frontBlock \/ frontBlock = tailBlock,
           BlockArray(block'), Len(block') = Len(block), \A b \in Blocks :
               /\ block'[b].front = block[b].front
               /\ block'[b].size = block[b].size
               /\ block'[b].next = block[b].next
               /\ block'[b].localTail = block[b].localTail
               /\ Used(block'[b]) >= Used(block[b])
               /\ b # x => block'[b] = block[b],
           frontBlock' = frontBlock, tailBlock' = tailBlock,
           dequeuePc' = dequeuePc, op' = op
    PROVE  ConsumerKnows'
<1>1. PICK pos : Placed(pos)
  BY DEF RWQInv
<1>2. RWQTypeOK /\ Ring(pos) /\ ConsumerKnows /\ \A b \in Blocks : BlockOK(block[b])
  BY <1>1, TypeFacts DEF Placed
<1>3. frontBlock \in Blocks /\ NextOfFront \in Blocks
  BY <1>2, Positions
<1>4. \A b \in Blocks : /\ Seen(block'[b]) = Seen(block[b]) /\ Seen(block[b]) \in Nat
                        /\ Used(block[b]) \in Nat
  <2> SUFFICES ASSUME NEW b \in Blocks
               PROVE  /\ Seen(block'[b]) = Seen(block[b]) /\ Seen(block[b]) \in Nat
                      /\ Used(block[b]) \in Nat
    OBVIOUS
  <2>1. /\ block[b].size \in Nat /\ block[b].size >= 2
        /\ block[b].localTail \in 0 .. block[b].size - 1
        /\ block[b].front \in 0 .. block[b].size - 1
        /\ Used(block[b]) \in Nat
    BY <1>2, BlockFields, ItemsOfBlock
  <2> DEFINE s == block[b].size
             t == block[b].localTail
             i == block[b].front
  <2>2. Ahead(s, t, i) \in 0 .. s - 1 /\ s \in Nat
    <3> HIDE DEF s, t, i
    <3> QED BY <2>1, AheadFacts DEF s, t, i
  <2> HIDE DEF s, t, i
  <2>3. Ahead(s, t, i) \in Nat
    BY <2>2
  <2>4. Seen(block'[b]) = Ahead(s, t, i) /\ Seen(block[b]) = Ahead(s, t, i)
    BY DEF Seen, s, t, i
  <2> QED BY <2>1, <2>3, <2>4
<1> DEFINE f == frontBlock
           g == NextOfFront
<1>5. FrontBlock' = block'[f] /\ FrontBlock = block[f] /\ NextOfFront' = g
  BY <1>3 DEF FrontBlock, NextOfFront
<1>6. frontBlock # tailBlock => block'[f] = block[f]
  BY <1>3
<1>7. \A b \in Blocks : Seen(block[b]) <= Used(block[b]) => Seen(block'[b]) <= Used(block'[b])
  <2>1. \A b \in Blocks : Used(block'[b]) \in Nat
    <3>1. \A b \in Blocks : BlockOK(block'[b])
      BY ArrayFacts DEF Blocks
    <3> QED BY <3>1, ItemsOfBlock
  <2> QED BY <1>4, <2>1
<1>8. f \in Blocks /\ g \in Blocks
  BY <1>3
<1>9. /\ block'[f].front = block[f].front /\ block'[f].localTail = block[f].localTail
      /\ block'[g].front = block[g].front /\ block'[g].localTail = block[g].localTail
      /\ Seen(block[f]) <= Used(block[f]) => Seen(block'[f]) <= Used(block'[f])
      /\ Seen(block[g]) <= Used(block[g]) => Seen(block'[g]) <= Used(block'[g])
  BY <1>7, <1>8
<1>10. NextOfFront = g
  BY DEF g
<1> HIDE DEF g
<1> QED BY <1>2, <1>5, <1>6, <1>9, <1>10 DEF ConsumerKnows, f

LEMMA EnqueuePublishNextTailStep ==
    ASSUME Sized, RWQInv, EnqueuePublishNextTail
    PROVE  RWQInv' /\ Keeps
<1>1. PICK pos : Placed(pos)
  BY DEF RWQInv
<1> DEFINE x == NextOfTail
<1>0. /\ enqueuePc = "publishNextTail" /\ enqueuePc' = "publishTailBlock"
      /\ block' = [block EXCEPT ![x].tail = After(block[x], block[x].tail)]
      /\ UNCHANGED <<config, frontBlock, tailBlock, largestBlockSize,
                   canAlloc, element, enqueueOk, lengthSeen, consumerVars>>
  BY DEF EnqueuePublishNextTail
<1>9. /\ NextOfTail # frontBlock
      /\ block[NextOfTail].localFront = block[NextOfTail].front
      /\ block[NextOfTail].data[block[NextOfTail].tail] = element
      /\ tailBlock = frontBlock \/ TailFull
      /\ Gap(TailBlock, TailBlock.localFront) >= Used(TailBlock)
  BY <1>0, TypeFacts DEF ProducerKnows, MovesOn
<1>2. /\ Ring(pos) /\ RWQTypeOK /\ x \in 1 .. CircleSize /\ x \in Blocks
      /\ frontBlock \in Blocks /\ tailBlock \in Blocks
      /\ x # tailBlock /\ x # frontBlock /\ pos[x] > pos[frontBlock]
      /\ BlockOK(block[x]) /\ pos[x] \in Nat /\ pos[frontBlock] \in Nat
      /\ \A b \in 1 .. CircleSize : b \in Blocks
  <2>1. RWQTypeOK /\ Ring(pos)
    BY <1>1, TypeFacts DEF Placed
  <2> QED BY <1>9, <2>1, Positions
<1>3. block[x].tail = block[x].front /\ Used(block[x]) = 0
      /\ After(block[x], block[x].tail) # block[x].front
  <2>1. block[x].tail = block[x].front
    BY <1>0, <1>1, <1>2 DEF Placed, BeyondFront
  <2>2. Used(block[x]) = 0 /\ block[x].size \in Nat /\ block[x].size >= 2
    BY <1>2, <2>1, ItemsOfBlock, BlockFields
  <2>3. 0 # block[x].size - 1
    BY <2>2
  <2>4. After(block[x], block[x].tail) # block[x].front
    BY <1>2, <2>2, <2>3, GapFacts, BlockFields DEF Used
  <2> QED BY <2>1, <2>2, <2>4
<1>4. /\ BlockArray(block') /\ Len(block') = Len(block)
      /\ \A b \in Blocks : /\ block'[b].front = block[b].front
                           /\ block'[b].size = block[b].size
                           /\ block'[b].next = block[b].next
                           /\ block'[b].data = block[b].data
                           /\ block'[b].localTail = block[b].localTail
                           /\ block'[b].localFront = block[b].localFront
                           /\ Used(block'[b]) >= Used(block[b])
                           /\ b # x => block'[b] = block[b]
      /\ block'[x].tail = After(block[x], block[x].tail)
      /\ BlockItems(block'[x]) = Add(BlockItems(block[x]), block[x].data[block[x].tail])
      /\ Used(block'[x]) = Used(block[x]) + 1
  BY <1>0, <1>2, <1>3, TailMoved
<1>5. /\ TailBlock' = TailBlock /\ NextOfTail' = NextOfTail
      /\ CircleSize' = CircleSize /\ Blocks' = Blocks
  BY <1>0, <1>2, <1>4 DEF TailBlock, NextOfTail, CircleSize, Blocks
<1>6. Placed(pos)'
  <2>1. Ring(pos)'
    <3>1. RingOf(pos, block, tailBlock, CircleSize)
      BY <1>2 DEF Ring
    <3>2. RingOf(pos, block', tailBlock, CircleSize)
      BY <1>4, <3>1, SameRing DEF Blocks
    <3> QED BY <1>0, <1>5, <3>2 DEF Ring
  <2>2. BeyondFront(pos)'
    <3>1. ASSUME NEW b \in 1 .. CircleSize, pos[b] > pos[frontBlock]
          PROVE  IF b = x
                 THEN /\ block'[b].tail = After(block'[b], block'[b].front)
                      /\ block'[b].data[block'[b].front] = element
                 ELSE block'[b].tail = block'[b].front
      <4>1. CASE b = x
        BY <1>2, <1>3, <1>4, <1>9, <4>1 DEF After
      <4>2. CASE b # x
        <5>1. block[b].tail = block[b].front
          BY <1>0, <1>1, <3>1 DEF Placed, BeyondFront
        <5> QED BY <1>2, <1>4, <4>2, <5>1
      <4> QED BY <4>1, <4>2
    <3> QED BY <1>0, <1>5, <3>1 DEF BeyondFront
  <2>3. BehindTail(pos)'
    <3>1. ASSUME NEW b \in Blocks, 0 < pos[b], pos[b] < pos[frontBlock]
          PROVE  After(block'[b], block'[b].tail) = block'[b].front
      <4>1. b # x
        BY <1>2, <3>1
      <4>2. After(block[b], block[b].tail) = block[b].front
        BY <1>1, <3>1 DEF Placed, BehindTail
      <4> QED BY <1>4, <4>1, <4>2
    <3> QED BY <1>0, <1>5, <3>1 DEF BehindTail
  <2>4. TailFilled'
    BY <1>0, <1>1, <1>5 DEF Placed, TailFilled
  <2>5. Objects'
    <3>1. ASSUME NEW b \in Blocks, NEW k \in 1 .. Used(block'[b])
          PROVE  \/ dequeuePc = "publishFront" /\ b = frontBlock /\ k = 1
                 \/ BlockItems(block'[b])[k] # NoData
      <4>1. CASE b = x
        <5>1. k = 1
          BY <1>3, <1>4, <4>1
        <5>2. /\ BlockItems(block[x]) \in Seq(Values) /\ Len(BlockItems(block[x])) = 0
              /\ config \in Configs /\ element \in 0 .. config.serials - 1
          BY <1>2, <1>3, ItemsOfBlock DEF RWQTypeOK
        <5>3. element \in Nat /\ element \in Values /\ element # NoData
          BY <5>2, ConfigFacts, RWQAssumption DEF Values
        <5>4. Add(BlockItems(block[x]), element)[Len(BlockItems(block[x])) + 1] = element
          BY <5>2, <5>3, AddTyped
        <5> QED BY <1>4, <1>9, <4>1, <5>1, <5>2, <5>3, <5>4
      <4>2. CASE b # x
        BY <1>1, <1>4, <4>2 DEF Placed, Objects
      <4> QED BY <4>1, <4>2
    <3>2. dequeuePc' = dequeuePc /\ frontBlock' = frontBlock
      BY <1>0 DEF consumerVars
    <3> QED BY <1>5, <3>1, <3>2 DEF Objects
  <2> QED BY <2>1, <2>2, <2>3, <2>4, <2>5 DEF Placed
<1>7. Contents' = Contents /\ Items' = Items
  <2>1. RingOf(pos, block, tailBlock, CircleSize) /\ RingOf(pos, block', tailBlock, CircleSize)
    BY <1>0, <1>2, <1>5, <1>6 DEF Placed, Ring
  <2>2. ASSUME NEW b \in 1 .. Len(block'), pos[b] <= pos[frontBlock]
        PROVE  /\ b \in 1 .. Len(block)
               /\ BlockItems(block'[b]) = BlockItems(block[b])
               /\ block'[b].next = block[b].next
    <3>1. b \in Blocks
      BY <1>4 DEF Blocks
    <3>2. b # x
      BY <1>2, <2>2
    <3> QED BY <1>4, <3>1, <3>2 DEF Blocks
  <2>3. frontBlock \in 1 .. Len(block) /\ frontBlock \in 1 .. Len(block')
    BY <1>2, <1>4 DEF Blocks
  <2>4. ContentsOf(block', frontBlock, tailBlock) = ContentsOf(block, frontBlock, tailBlock)
    BY <2>1, <2>2, <2>3, ContentsKept
  <2> QED BY <1>0, <2>4, ContentsAre, ContentsArePrimed DEF Items, consumerVars
<1>8. RWQTypeOK'
  BY <1>0, <1>2, <1>4, <1>5 DEF RWQTypeOK, consumerVars
<1>10. SizesOK'
  BY <1>0, <1>4, SizesKept, TypeFacts
<1>11. ProducerKnows' /\ NewIsFilled'
  <2>1. block'[x].localFront = block[x].localFront /\ block'[x].front = block[x].front
    BY <1>2, <1>4
  <2> HIDE DEF TailBlock, NextOfTail
  <2> QED BY <1>0, <1>5, <1>9, <2>1
       DEF ProducerKnows, MovesOn, NewIsFilled, TailFull
<1>12. ConsumerKnows'
  BY <1>0, <1>2, <1>4, ConsumerKnowsGrown DEF consumerVars
<1>13. RoomSeen'
  BY <1>0 DEF RoomSeen, RoomForSize
<1>14. PeekFound'
  BY <1>0, <1>7, TypeFacts, PeekFoundKept DEF consumerVars
<1> QED BY <1>0, <1>6, <1>7, <1>8, <1>10, <1>11, <1>12, <1>13, <1>14
        DEF RWQInv, Keeps, consumerVars

\* An object that has been constructed.
LEMMA ElementFacts ==
    ASSUME Sized, RWQInv
    PROVE  element \in Nat /\ element \in Values /\ element # NoData
<1>1. config \in Configs /\ element \in 0 .. config.serials - 1
  BY TypeFacts DEF RWQTypeOK
<1> QED BY <1>1, ConfigFacts, RWQAssumption DEF Values

LEMMA ItemsAdd ==
    ASSUME NEW s \in Seq(Values), NEW v \in Values
    PROVE  /\ \A i \in 1 .. Len(s) : Add(s, v)[i] = s[i]
           /\ Add(s, v)[Len(s) + 1] = v
  BY AddTyped

LEMMA EnqueuePublishTailStep ==
    ASSUME Sized, RWQInv, EnqueuePublishTail
    PROVE  RWQInv' /\ Adds
<1>1. PICK pos : Placed(pos)
  BY DEF RWQInv
<1> DEFINE x == tailBlock
<1>0. /\ enqueuePc = "publishTail" /\ enqueuePc' = "idle" /\ enqueueOk' = TRUE
      /\ block' = [block EXCEPT ![x].tail = After(block[x], block[x].tail)]
      /\ UNCHANGED <<config, frontBlock, tailBlock, largestBlockSize,
                   canAlloc, element, lengthSeen, consumerVars>>
  BY DEF EnqueuePublishTail, TailBlock
<1>2. /\ RWQTypeOK /\ Ring(pos) /\ x \in Blocks /\ frontBlock \in Blocks /\ pos[x] = 0
      /\ BlockOK(block[x]) /\ \A b \in Blocks : pos[b] \in Nat
  <2>1. RWQTypeOK /\ Ring(pos)
    BY <1>1, TypeFacts DEF Placed
  <2> QED BY <2>1, Positions
<1>3. /\ Gap(block[x], block[x].localFront) >= Used(block[x])
      /\ After(block[x], block[x].tail) # block[x].localFront
      /\ block[x].data[block[x].tail] = element
  BY <1>0, TypeFacts DEF ProducerKnows, TailBlock
<1>4. /\ block[x].size \in Nat /\ block[x].localFront \in 0 .. block[x].size - 1
      /\ block[x].front \in 0 .. block[x].size - 1
  BY <1>2, BlockFields
<1>5. After(block[x], block[x].tail) # block[x].front
  <2>1. /\ Gap(block[x], block[x].localFront) \in 0 .. block[x].size - 1
        /\ Gap(block[x], block[x].localFront) # block[x].size - 1
    BY <1>2, <1>3, <1>4, GapFacts
  <2>2. Used(block[x]) \in Nat
    BY <1>2, ItemsOfBlock
  <2>3. Used(block[x]) # block[x].size - 1
    BY <1>3, <1>4, <2>1, <2>2
  <2> QED BY <1>2, <1>4, <2>3, GapFacts DEF Used
<1>6. /\ BlockArray(block') /\ Len(block') = Len(block)
      /\ \A b \in Blocks : /\ block'[b].front = block[b].front
                           /\ block'[b].size = block[b].size
                           /\ block'[b].next = block[b].next
                           /\ block'[b].data = block[b].data
                           /\ block'[b].localTail = block[b].localTail
                           /\ block'[b].localFront = block[b].localFront
                           /\ Used(block'[b]) >= Used(block[b])
                           /\ b # x => block'[b] = block[b]
      /\ block'[x].tail = After(block[x], block[x].tail)
      /\ BlockItems(block'[x]) = Add(BlockItems(block[x]), block[x].data[block[x].tail])
      /\ Used(block'[x]) = Used(block[x]) + 1
      /\ \A i \in 0 .. block[x].size - 1 : After(block[x], block[x].tail) # i =>
             Gap(block'[x], i) = Gap(block[x], i) + 1
  BY <1>0, <1>2, <1>5, TailMoved
<1>7. /\ TailBlock' = block'[x] /\ NextOfTail' = NextOfTail
      /\ CircleSize' = CircleSize /\ Blocks' = Blocks
  BY <1>0, <1>2, <1>6 DEF TailBlock, NextOfTail, CircleSize, Blocks
<1>8. Placed(pos)'
  <2>1. Ring(pos)'
    <3>1. RingOf(pos, block, tailBlock, CircleSize)
      BY <1>2 DEF Ring
    <3>2. RingOf(pos, block', tailBlock, CircleSize)
      BY <1>6, <3>1, SameRing DEF Blocks
    <3> QED BY <1>0, <1>7, <3>2 DEF Ring
  <2>2. BeyondFront(pos)'
    <3>1. ASSUME NEW b \in 1 .. CircleSize, pos[b] > pos[frontBlock]
          PROVE  block'[b].tail = block'[b].front
      <4>1. block[b].tail = block[b].front
        BY <1>0, <1>1, <3>1 DEF Placed, BeyondFront
      <4>2. b \in Blocks
        BY <1>2, Positions
      <4>3. b # x
        BY <1>2, <3>1
      <4> QED BY <1>6, <4>1, <4>2, <4>3
    <3> QED BY <1>0, <1>7, <3>1 DEF BeyondFront
  <2>3. BehindTail(pos)'
    <3>1. ASSUME NEW b \in Blocks, 0 < pos[b], pos[b] < pos[frontBlock]
          PROVE  After(block'[b], block'[b].tail) = block'[b].front
      <4>1. b # x
        BY <1>2, <3>1
      <4>2. After(block[b], block[b].tail) = block[b].front
        BY <1>1, <3>1 DEF Placed, BehindTail
      <4> QED BY <1>6, <4>1, <4>2
    <3> QED BY <1>0, <1>7, <3>1 DEF BehindTail
  <2>4. TailFilled'
    BY <1>0, <1>2, <1>5, <1>6, <1>7 DEF TailFilled
  <2>5. Objects'
    <3>1. ASSUME NEW b \in Blocks, NEW k \in 1 .. Used(block'[b])
          PROVE  \/ dequeuePc = "publishFront" /\ b = frontBlock /\ k = 1
                 \/ BlockItems(block'[b])[k] # NoData
      <4>1. CASE b = x
        <5> DEFINE s == BlockItems(block[x])
                   n == Used(block[x])
        <5>1. s \in Seq(Values) /\ Len(s) = n /\ n \in Nat
          BY <1>2, ItemsOfBlock
        <5>7. element \in Values /\ element # NoData
          BY ElementFacts
        <5>8. /\ \A i \in 1 .. Len(s) : Add(s, element)[i] = s[i]
              /\ Add(s, element)[Len(s) + 1] = element
          <6> HIDE DEF s, n
          <6> QED BY <5>1, <5>7, ItemsAdd
        <5>2. /\ \A i \in 1 .. n : Add(s, element)[i] = s[i]
              /\ Add(s, element)[n + 1] = element /\ element # NoData
          <6> HIDE DEF s, n
          <6> QED BY <5>1, <5>7, <5>8
        <5>3. BlockItems(block'[b]) = Add(s, element) /\ k \in 1 .. n + 1
          BY <1>3, <1>6, <4>1
        <5>4. \A i \in 1 .. n : \/ dequeuePc = "publishFront" /\ x = frontBlock /\ i = 1
                                \/ s[i] # NoData
          BY <1>1, <1>2 DEF Placed, Objects
        <5> HIDE DEF s, n
        <5>5. CASE k = n + 1
          BY <5>2, <5>3, <5>5
        <5>6. CASE k # n + 1
          <6>1. k \in 1 .. n
            BY <5>1, <5>3, <5>6
          <6> QED BY <4>1, <5>2, <5>3, <5>4, <6>1
        <5> QED BY <5>5, <5>6
      <4>2. CASE b # x
        BY <1>1, <1>6, <4>2 DEF Placed, Objects
      <4> QED BY <4>1, <4>2
    <3>2. dequeuePc' = dequeuePc /\ frontBlock' = frontBlock
      BY <1>0 DEF consumerVars
    <3> QED BY <1>7, <3>1, <3>2 DEF Objects
  <2> QED BY <2>1, <2>2, <2>3, <2>4, <2>5 DEF Placed
<1>9. Contents' = Add(Contents, element)
  <2>1. RingOf(pos, block, tailBlock, CircleSize) /\ RingOf(pos, block', tailBlock, CircleSize)
    BY <1>0, <1>2, <1>7, <1>8 DEF Placed, Ring
  <2>2. BlocksOK(block) /\ element \in Values /\ frontBlock \in 1 .. Len(block)
    BY <1>2, TypeFacts, ElementFacts DEF BlockArray, Blocks
  <2>3. \A b \in 1 .. Len(block) : b # tailBlock =>
            BlockItems(block'[b]) = BlockItems(block[b]) /\ block'[b].next = block[b].next
    BY <1>6 DEF Blocks
  <2>4. BlockItems(block'[tailBlock]) = Add(BlockItems(block[tailBlock]), element)
    BY <1>3, <1>6
  <2>5. ContentsOf(block', frontBlock, tailBlock) =
            Add(ContentsOf(block, frontBlock, tailBlock), element)
    BY <1>6, <2>1, <2>2, <2>3, <2>4, ContentsAdded
  <2> QED BY <1>0, <2>5, ContentsAre, ContentsArePrimed
<1>10. Adds /\ PeekFound'
  BY <1>0, <1>9, ItemsGrow DEF consumerVars
<1>11. RWQTypeOK'
  BY <1>0, <1>2, <1>6, <1>7 DEF RWQTypeOK, consumerVars
<1>12. SizesOK'
  BY <1>0, <1>6, SizesKept, TypeFacts
<1>13. ProducerKnows' /\ NewIsFilled'
  <2>1. Gap(block'[x], block[x].localFront) = Gap(block[x], block[x].localFront) + 1
    BY <1>3, <1>4, <1>6
  <2>2. Gap(block[x], block[x].localFront) \in 0 .. block[x].size - 1 /\ Used(block[x]) \in Nat
    BY <1>2, <1>4, GapFacts, ItemsOfBlock
  <2>3. Gap(block'[x], block'[x].localFront) >= Used(block'[x])
    BY <1>2, <1>3, <1>4, <1>6, <2>1, <2>2
  <2> QED BY <1>0, <1>7, <2>3 DEF ProducerKnows, MovesOn, NewIsFilled
<1>14. ConsumerKnows'
  BY <1>0, <1>2, <1>6, ConsumerKnowsGrown DEF consumerVars
<1>15. RoomSeen'
  BY <1>0 DEF RoomSeen, RoomForSize
<1> QED BY <1>8, <1>10, <1>11, <1>12, <1>13, <1>14, <1>15 DEF RWQInv

\* A block with one object.
LEMMA OneItem ==
    ASSUME NEW b, BlockOK(b), NEW v \in Values,
           b.tail = After(b, b.front), b.data[b.front] = v
    PROVE  Used(b) = 1 /\ b.tail # b.front /\ BlockItems(b) = Add(<<>>, v)
<1>1. /\ b.size \in Nat /\ b.size >= 2
      /\ b.front \in 0 .. b.size - 1
  BY BlockFields
<1> DEFINE s == b.size
           i == b.front
           t == (i + 1) % s
<1>2. s \in Nat /\ s >= 2 /\ i \in 0 .. s - 1
  BY <1>1
<1> HIDE DEF s, i
<1>3. t = (IF i + 1 = s THEN 0 ELSE i + 1) /\ t \in 0 .. s - 1
  BY <1>2, NextSlot
<1> HIDE DEF t
<1>4. Ahead(s, t, i) = IF t >= i THEN t - i ELSE t + s - i
  BY <1>2, <1>3, AheadCases
<1>5. Ahead(s, t, i) = 1
  BY <1>2, <1>3, <1>4
<1>6. b.tail = t
  BY DEF After, s, i, t
<1>7. Used(b) = 1
  BY <1>5, <1>6 DEF Used, Gap, s, i
<1>8. b.tail # b.front
  BY <1>7, ItemsOfBlock
<1>9. BlockItems(b)[1] = v
  BY <1>8, FirstItem
<1>10. BlockItems(b) \in Seq(Values) /\ Len(BlockItems(b)) = 1
  BY <1>7, ItemsOfBlock
<1> DEFINE e == <<>>
<1>11. e \in Seq(Values) /\ Len(e) = 0
  BY EmptySeq
<1>13. Add(<<>>, v) \in Seq(Values) /\ Len(Add(<<>>, v)) = 1
       /\ Add(<<>>, v)[1] = v
  <2> HIDE DEF e
  <2>1. /\ Add(e, v) \in Seq(Values) /\ Len(Add(e, v)) = Len(e) + 1
        /\ Add(e, v)[Len(e) + 1] = v
    <3>1. Add(e, v) \in Seq(Values) /\ Len(Add(e, v)) = Len(e) + 1
      BY ONLY <1>11, v \in Values, AddTyped
    <3>2. Add(e, v)[Len(e) + 1] = v
      BY <1>11, ItemsAdd
    <3> QED BY <3>1, <3>2
  <2>2. /\ Add(e, v) \in Seq(Values) /\ Len(Add(e, v)) = 1
        /\ Add(e, v)[1] = v
    BY <1>11, <2>1
  <2> QED BY <2>2 DEF e
<1> DEFINE p == BlockItems(b)
           q == Add(<<>>, v)
<1>14. \A j \in 1 .. 1 : p[j] = q[j]
  BY <1>9, <1>13
<1> HIDE DEF p, q
<1>15. p = q
  BY <1>10, <1>13, <1>14, SameSeq DEF p, q
<1> QED BY <1>7, <1>8, <1>15 DEF p, q

LEMMA EnqueuePublishTailBlockStep ==
    ASSUME Sized, RWQInv, EnqueuePublishTailBlock
    PROVE  RWQInv' /\ Adds
<1>1. PICK pos : Placed(pos)
  BY DEF RWQInv
<1> DEFINE x == NextOfTail
           N == Len(block)
<1>0. /\ enqueuePc = "publishTailBlock" /\ enqueuePc' = "idle" /\ enqueueOk' = TRUE
      /\ tailBlock' = x
      /\ UNCHANGED <<config, block, frontBlock, largestBlockSize,
                   canAlloc, element, lengthSeen, consumerVars>>
  BY DEF EnqueuePublishTailBlock
<1>3. /\ x # frontBlock /\ block[x].localFront = block[x].front
      /\ tailBlock = frontBlock \/ TailFull
  BY <1>0, TypeFacts DEF ProducerKnows, MovesOn
<1>2. /\ RWQTypeOK /\ Ring(pos) /\ CircleSize = N /\ N \in Nat
      /\ tailBlock \in Blocks /\ frontBlock \in Blocks /\ x \in Blocks
      /\ x = block[tailBlock].next
      /\ pos[tailBlock] = 0 /\ pos[x] = N - 1 /\ x # tailBlock /\ pos[x] > pos[frontBlock]
      /\ BlockOK(block[x])
      /\ \A b \in Blocks : pos[b] \in Nat /\ block[b].next \in Blocks
      /\ \A b \in Blocks : b # tailBlock => pos[b] = pos[block[b].next] + 1
      /\ \A b, c \in Blocks : pos[b] = pos[c] => b = c
      /\ \A b \in Blocks : pos[b] <= N - 1
  <2>1. RWQTypeOK /\ Ring(pos) /\ CircleSize = N
    BY <1>0, <1>1, TypeFacts DEF Placed, CircleSize
  <2> QED BY <1>3, <2>1, Positions DEF Blocks, NextOfTail, TailBlock
<1>4. /\ block[x].tail = After(block[x], block[x].front)
      /\ block[x].data[block[x].front] = element
  BY <1>0, <1>1, <1>2 DEF Placed, BeyondFront, Blocks
<1> HIDE DEF x
<1>5. Used(block[x]) = 1 /\ block[x].tail # block[x].front
      /\ BlockItems(block[x]) = Add(<<>>, element)
  <2>1. element \in Values
    BY ElementFacts
  <2> QED BY <1>2, <1>4, <2>1, OneItem
<1> HIDE DEF N
<1>18. PICK new : new = [b \in Blocks |-> IF b = x THEN 0 ELSE pos[b] + 1]
  OBVIOUS
<1>6. /\ new \in [Blocks -> Nat] /\ new[x] = 0
      /\ \A b \in Blocks : b # x => new[b] = pos[b] + 1
  BY <1>2, <1>18
<1>7. RingOf(new, block, x, N)
  <2>1. ASSUME NEW b \in Blocks, b # x PROVE new[b] = new[block[b].next] + 1
    <3>1. CASE b = tailBlock
      BY <1>2, <1>6, <2>1, <3>1
    <3>2. CASE b # tailBlock
      <4> DEFINE c == block[b].next
      <4>1. c \in Blocks /\ pos[b] = pos[c] + 1 /\ pos[b] <= N - 1 /\ pos[c] \in Nat
        BY <1>2, <3>2
      <4> HIDE DEF c
      <4>2. c # x
        BY <1>2, <4>1
      <4> QED BY <1>6, <2>1, <4>1, <4>2 DEF c
    <3> QED BY <3>1, <3>2
  <2>2. ASSUME NEW b \in Blocks, NEW c \in Blocks, new[b] = new[c] PROVE b = c
    <3>1. pos[b] \in Nat /\ pos[c] \in Nat
      BY <1>2
    <3>2. CASE b = x \/ c = x
      BY <1>6, <2>2, <3>1, <3>2
    <3>3. CASE b # x /\ c # x
      <4>1. pos[b] = pos[c]
        BY <1>6, <2>2, <3>1, <3>3
      <4> QED BY <1>2, <4>1
    <3> QED BY <3>2, <3>3
  <2>3. ASSUME NEW b \in Blocks PROVE new[b] <= N - 1
    <3>1. CASE b = x
      BY <1>2, <1>6, <3>1
    <3>2. CASE b # x
      <4>1. pos[b] # pos[x]
        BY <1>2, <3>2
      <4> QED BY <1>2, <1>6, <3>2, <4>1
    <3> QED BY <3>1, <3>2
  <2>4. new[block[x].next] = N - 1
    <3> DEFINE c == block[x].next
    <3>1. c \in Blocks /\ pos[x] = pos[c] + 1 /\ pos[c] \in Nat
      BY <1>2
    <3> HIDE DEF c
    <3>2. c # x
      BY <3>1
    <3> QED BY <1>2, <1>6, <3>1, <3>2 DEF c
  <2>5. x \in 1 .. N /\ N \in 1 .. N /\ Blocks = 1 .. N /\ N = Len(block)
    BY <1>2 DEF Blocks, N
  <2> QED BY <1>2, <1>6, <2>1, <2>2, <2>3, <2>4, <2>5 DEF RingOf
<1>8. /\ CircleSize' = N /\ Blocks' = Blocks /\ TailBlock' = block[x] /\ Blocks = 1 .. N
      /\ frontBlock' = frontBlock /\ block' = block
  BY <1>0, <1>2 DEF CircleSize, Blocks, TailBlock, N
<1>9. pos[frontBlock] \in Nat /\ new[frontBlock] = pos[frontBlock] + 1
  BY <1>2, <1>3, <1>6 DEF x
<1>10. Placed(new)'
  <2>1. Ring(new)'
    BY <1>0, <1>7, <1>8 DEF Ring
  <2>2. BeyondFront(new)'
    <3>1. ASSUME NEW b \in 1 .. N, new[b] > new[frontBlock]
          PROVE  block[b].tail = block[b].front
      <4>1. b \in Blocks /\ b # x
        BY <1>6, <1>8, <1>9, <3>1
      <4>2. pos[b] > pos[frontBlock]
        BY <1>2, <1>6, <1>9, <3>1, <4>1
      <4> QED BY <1>1, <1>2, <1>8, <4>1, <4>2 DEF Placed, BeyondFront, x
    <3> QED BY <1>0, <1>8, <3>1 DEF BeyondFront
  <2>3. BehindTail(new)'
    <3>1. ASSUME NEW b \in Blocks, 0 < new[b], new[b] < new[frontBlock]
          PROVE  After(block[b], block[b].tail) = block[b].front
      <4>1. b # x
        BY <1>6, <3>1
      <4>2. pos[b] < pos[frontBlock] /\ pos[b] \in Nat
        BY <1>2, <1>6, <1>9, <3>1, <4>1
      <4>3. CASE pos[b] = 0
        <5>1. b = tailBlock
          BY <1>2, <4>3
        <5>2. frontBlock # tailBlock
          BY <1>2, <4>2
        <5> QED BY <1>3, <5>1, <5>2 DEF TailFull, TailBlock
      <4>4. CASE pos[b] # 0
        <5>1. 0 < pos[b]
          BY <4>2, <4>4
        <5> QED BY <1>1, <4>2, <5>1 DEF Placed, BehindTail
      <4> QED BY <4>3, <4>4
    <3> QED BY <1>8, <3>1 DEF BehindTail
  <2>4. TailFilled'
    BY <1>5, <1>8 DEF TailFilled
  <2>5. Objects'
    <3>1. dequeuePc' = dequeuePc /\ Objects
      BY <1>0, <1>1 DEF consumerVars, Placed
    <3> QED BY <1>8, <3>1 DEF Objects
  <2> QED BY <2>1, <2>2, <2>3, <2>4, <2>5 DEF Placed
<1>11. Contents' = Add(Contents, element)
  <2> DEFINE tl == tailBlock
  <2>1. RingOf(pos, block, tl, Len(block)) /\ RingOf(new, block, block[tl].next, Len(block))
    BY <1>2, <1>7 DEF Ring, N
  <2>2. BlocksOK(block) /\ element \in Values /\ frontBlock \in 1 .. Len(block)
    BY <1>2, TypeFacts, ElementFacts DEF BlockArray, Blocks
  <2>3. /\ tl # block[tl].next /\ frontBlock # block[tl].next
        /\ BlockItems(block[block[tl].next]) = Add(<<>>, element)
    BY <1>2, <1>3, <1>5 DEF x
  <2>7. block[tl].next = x
    BY <1>2
  <2> HIDE DEF tl
  <2>4. ContentsOf(block, frontBlock, block[tl].next) =
            Add(ContentsOf(block, frontBlock, tl), element)
    BY <2>1, <2>2, <2>3, ContentsMoved
  <2>5. Contents' = ContentsOf(block, frontBlock, x)
    BY <1>0, <1>8, ContentsArePrimed
  <2>6. Contents = ContentsOf(block, frontBlock, tl)
    BY ContentsAre DEF tl
  <2> QED BY <2>4, <2>5, <2>6, <2>7
<1>12. Adds /\ PeekFound'
  BY <1>0, <1>11, ItemsGrow DEF consumerVars
<1>13. RWQTypeOK'
  <2>1. x \in 1 .. N /\ frontBlock \in 1 .. N
    BY <1>2, <1>8
  <2> QED BY <1>0, <1>2, <1>8, <2>1 DEF RWQTypeOK, consumerVars
<1>14. SizesOK'
  BY <1>0, SizesKept, TypeFacts
<1>15. ProducerKnows' /\ NewIsFilled'
  <2>1. Gap(block[x], block[x].localFront) >= Used(block[x])
    <3>1. Used(block[x]) \in Nat
      BY <1>2, ItemsOfBlock
    <3> QED BY <1>3, <3>1 DEF Used, x
  <2> QED BY <1>0, <1>8, <2>1 DEF ProducerKnows, MovesOn, NewIsFilled
<1>16. ConsumerKnows'
  <2>1. FrontBlock' = FrontBlock /\ NextOfFront' = NextOfFront
    BY <1>0 DEF FrontBlock, NextOfFront
  <2>2. frontBlock' # tailBlock'
    BY <1>0, <1>3 DEF x
  <2> HIDE DEF FrontBlock, NextOfFront
  <2> QED BY <1>0, <2>1, <2>2, TypeFacts DEF ConsumerKnows, consumerVars
<1>17. RoomSeen'
  BY <1>0 DEF RoomSeen, RoomForSize
<1> QED BY <1>10, <1>12, <1>13, <1>14, <1>15, <1>16, <1>17 DEF RWQInv

\* A new block with its first element.
Filled(s, n, v) == [Block(s, n) EXCEPT !.data[0] = v, !.tail = 1, !.localTail = 1]

LEMMA FilledBlock ==
    ASSUME NEW s \in Nat, s >= 2, NEW n \in Nat, NEW v \in Values,
           NEW b, b = Filled(s, n, v)
    PROVE  /\ BlockOK(b) /\ b.size = s /\ b.next = n
           /\ b.front = 0 /\ b.localFront = 0 /\ b.tail = 1 /\ b.data[0] = v
           /\ BlockItems(b) = Add(<<>>, v) /\ Used(b) = 1
<1> DEFINE d == [[i \in 0 .. s - 1 |-> NoData] EXCEPT ![0] = v]
<1>1. d \in [0 .. s - 1 -> Values] /\ d[0] = v
  BY DEF Values
<1> HIDE DEF d
<1>2. d \in Slots
  BY <1>1 DEF Slots
<1>3. b = [front |-> 0, localTail |-> 1, tail |-> 1, localFront |-> 0, next |-> n,
           size |-> s, data |-> d]
  BY DEF Filled, Block, d
<1>4. /\ b.size = s /\ b.next = n /\ b.data = d
      /\ b.front = 0 /\ b.tail = 1 /\ b.localTail = 1 /\ b.localFront = 0
  BY <1>3
<1>5. b \in BlockRecords
  BY <1>2, <1>3 DEF BlockRecords
<1>6. BlockOK(b)
  BY <1>1, <1>4, <1>5 DEF BlockOK
<1>7. b.tail = After(b, b.front)
  <2>1. (0 + 1) % s = 1
    BY NextSlot
  <2> QED BY <1>4, <2>1 DEF After
<1>8. Used(b) = 1 /\ BlockItems(b) = Add(<<>>, v)
  <2>1. b.data[b.front] = v
    BY <1>1, <1>4
  <2> QED BY <1>6, <1>7, <2>1, OneItem
<1> QED BY <1>1, <1>4, <1>6, <1>8

LEMMA EnqueueAllocateFailed ==
    ASSUME Sized, RWQInv, enqueuePc = "allocate", enqueuePc' = "idle", enqueueOk' = FALSE,
           UNCHANGED <<block, largestBlockSize, config, frontBlock, tailBlock, canAlloc,
                       element, lengthSeen, consumerVars>>
    PROVE  RWQInv' /\ Keeps
<1> USE DEF consumerVars
<1>1. PICK pos : Placed(pos)
  BY DEF RWQInv
<1>2. Placed(pos)' /\ Items' = Items /\ CircleSize' = CircleSize
  BY <1>1, NothingMoved
<1>3. RWQTypeOK'
  BY <1>2, TypeFacts DEF RWQTypeOK
<1>4. SizesOK'
  BY TypeFacts DEF SizesOK, Blocks, FirstSize, LastSize
<1>5. ProducerKnows' /\ NewIsFilled'
  BY TypeFacts DEF ProducerKnows, MovesOn, TailFull, NewIsFilled, TailBlock, NextOfTail
<1>6. ConsumerKnows'
  BY TypeFacts DEF ConsumerKnows, FrontBlock, NextOfFront
<1>7. RoomSeen'
  <2>1. lengthSeen >= config.size
    BY TypeFacts DEF RoomSeen, RoomForSize
  <2> QED BY <2>1 DEF RoomSeen, RoomForSize
<1>8. PeekFound'
  BY <1>2, TypeFacts DEF PeekFound
<1> QED BY <1>2, <1>3, <1>4, <1>5, <1>6, <1>7, <1>8 DEF RWQInv, Keeps

\* The size of a new block.
NewSize == IF largestBlockSize >= config.maxBlockSize
           THEN largestBlockSize ELSE largestBlockSize * 2

LEMMA NewSizeFacts ==
    ASSUME Sized, RWQInv
    PROVE  /\ NewSize \in Nat /\ NewSize >= 2 /\ NewSize >= FirstSize /\ NewSize <= LastSize
           /\ NewSize \in Powers
<1> DEFINE l == largestBlockSize
           m == config.maxBlockSize
<1>1. config \in Configs /\ l >= FirstSize /\ l <= LastSize /\ l \in Powers
  BY TypeFacts DEF RWQTypeOK, SizesOK
<1>2. /\ FirstSize \in Nat /\ FirstSize >= 2 /\ LastSize \in Nat /\ LastSize >= m
      /\ m \in Nat /\ m \in Powers
  BY <1>1, SizeFacts, ConfigFacts
<1>3. l \in Nat
  BY <1>1, PowersFrom
<1> HIDE DEF l, m
<1>4. CASE l >= m
  <2>1. NewSize = l
    BY <1>4 DEF NewSize, l, m
  <2> QED BY <1>1, <1>2, <1>3, <2>1
<1>5. CASE ~(l >= m)
  <2>1. NewSize = 2 * l
    BY <1>3, <1>5 DEF NewSize, l, m
  <2>2. 2 * l <= m
    BY <1>1, <1>2, <1>3, <1>5, PowersApart
  <2>3. 2 * l \in Powers
    BY <1>1, PowersGrow
  <2> QED BY <1>1, <1>2, <1>3, <2>1, <2>2, <2>3
<1> QED BY <1>4, <1>5

\* The blocks, when there is one more.
LEMMA BlockAdded ==
    ASSUME BlockArray(block), NEW r, BlockOK(r), block' = Append(block, r)
    PROVE  /\ BlockArray(block') /\ Len(block') = Len(block) + 1
           /\ block'[Len(block) + 1] = r
           /\ \A b \in Blocks : block'[b] = block[b]
<1> DEFINE B == block
           C == block'
<1>1. B \in Seq(BlockRecords) /\ r \in BlockRecords
  BY DEF BlockArray, BlockOK
<1>2. C = Append(B, r) /\ \A b \in 1 .. Len(B) : BlockOK(B[b])
  BY ArrayFacts
<1> HIDE DEF B, C
<1>3. /\ C \in Seq(BlockRecords) /\ Len(C) = Len(B) + 1 /\ C[Len(B) + 1] = r
      /\ \A b \in 1 .. Len(B) : C[b] = B[b]
  BY <1>1, <1>2, AppendProperties
<1>4. Len(B) \in Nat
  BY <1>1, LenProperties
<1>5. BlocksOK(C)
  <2> SUFFICES ASSUME NEW b \in 1 .. Len(B) + 1 PROVE BlockOK(C[b])
    BY <1>3 DEF BlocksOK
  <2>1. CASE b = Len(B) + 1
    BY <1>3, <2>1
  <2>2. CASE b # Len(B) + 1
    <3>1. b \in 1 .. Len(B)
      BY <1>4, <2>2
    <3> QED BY <1>2, <1>3, <3>1
  <2> QED BY <2>1, <2>2
<1> QED BY <1>3, <1>5 DEF BlockArray, Blocks, B, C

LEMMA EnqueueAllocated ==
    ASSUME Sized, RWQInv, enqueuePc = "allocate", enqueuePc' = "link",
           Len(block) < InitialBlockCount(config) + config.blocksLeft,
           NEW r, r = Filled(NewSize, NextOfTail, element),
           block' = Append(block, r), largestBlockSize' = NewSize,
           UNCHANGED <<config, frontBlock, tailBlock, canAlloc, element, enqueueOk,
                       lengthSeen, consumerVars>>
    PROVE  RWQInv' /\ Keeps
<1>1. PICK pos : Placed(pos)
  BY DEF RWQInv
<1> DEFINE N == Len(block)
           x == NextOfTail
<1>2. /\ RWQTypeOK /\ Ring(pos) /\ CircleSize = N /\ N \in Nat /\ N >= 1
      /\ tailBlock \in Blocks /\ frontBlock \in Blocks /\ x \in Blocks /\ x \in Nat
      /\ pos[tailBlock] = 0 /\ pos[x] = N - 1 /\ pos[frontBlock] <= N - 1
      /\ \A b \in Blocks : BlockOK(block[b]) /\ pos[b] \in Nat /\ block[b].next \in Blocks
      /\ Blocks = 1 .. N
  <2>1. RWQTypeOK /\ Ring(pos) /\ CircleSize = N
    BY <1>1, TypeFacts DEF Placed, CircleSize
  <2> QED BY <2>1, Positions DEF Blocks
<1>3. /\ BlockOK(r) /\ r.size = NewSize /\ r.next = x
      /\ r.front = 0 /\ r.localFront = 0 /\ r.tail = 1 /\ r.data[0] = element
      /\ BlockItems(r) = Add(<<>>, element) /\ Used(r) = 1
  <2>1. NewSize \in Nat /\ NewSize >= 2 /\ element \in Values /\ NextOfTail \in Nat
    BY <1>2, NewSizeFacts, ElementFacts
  <2>2. /\ BlockOK(r) /\ r.size = NewSize /\ r.next = NextOfTail
        /\ r.front = 0 /\ r.localFront = 0 /\ r.tail = 1 /\ r.data[0] = element
        /\ BlockItems(r) = Add(<<>>, element) /\ Used(r) = 1
    <3> DEFINE s == NewSize
               n == NextOfTail
    <3>1. s \in Nat /\ s >= 2 /\ n \in Nat /\ element \in Values /\ r = Filled(s, n, element)
      BY <2>1
    <3> HIDE DEF s, n
    <3>2. BlockOK(r) /\ r.size = s /\ r.next = n
      BY <3>1, FilledBlock
    <3>3. r.front = 0 /\ r.localFront = 0 /\ r.tail = 1 /\ r.data[0] = element
      BY <3>1, FilledBlock
    <3>4. BlockItems(r) = Add(<<>>, element) /\ Used(r) = 1
      BY <3>1, FilledBlock
    <3> QED BY <3>2, <3>3, <3>4 DEF s, n
  <2> QED BY <2>2
<1> HIDE DEF x
<1>4. /\ BlockArray(block') /\ Len(block') = N + 1 /\ block'[N + 1] = r
      /\ \A b \in Blocks : block'[b] = block[b]
  BY <1>3, TypeFacts, BlockAdded
<1> HIDE DEF N
<1>5. /\ CircleSize' = N /\ TailBlock' = TailBlock /\ NextOfTail' = x /\ Blocks' = 1 .. N + 1
  BY <1>2, <1>4 DEF CircleSize, TailBlock, NextOfTail, Blocks, x
<1>6. PICK new : new = [b \in 1 .. N + 1 |-> IF b = N + 1 THEN N ELSE pos[b]]
  OBVIOUS
<1>7. /\ new \in [1 .. N + 1 -> Nat] /\ new[N + 1] = N
      /\ \A b \in Blocks : new[b] = pos[b]
  BY <1>2, <1>6
<1>8. RingOf(new, block', tailBlock, N)
  <2>1. RingOf(pos, block, tailBlock, N)
    BY <1>2 DEF Ring
  <2>2. /\ \A b \in Blocks : b # tailBlock => pos[b] = pos[block[b].next] + 1
        /\ \A b, c \in Blocks : pos[b] = pos[c] => b = c
        /\ \A b \in Blocks : pos[b] <= N - 1
        /\ \A b \in Blocks : block[b].next \in 1 .. N
        /\ pos[block[tailBlock].next] = N - 1
    BY <1>2, <2>1 DEF RingOf
  <2>3. ASSUME NEW b \in 1 .. N + 1 PROVE b \in Blocks \/ b = N + 1
    BY <1>2
  <2>4. ASSUME NEW b \in Blocks PROVE b \in 1 .. N + 1 /\ b # N + 1
    BY <1>2
  <2>5. ASSUME NEW b \in 1 .. N + 1 PROVE block'[b].next \in 1 .. N
    BY <1>2, <1>3, <1>4, <2>2, <2>3
  <2>6. ASSUME NEW b \in 1 .. N + 1, b # tailBlock PROVE new[b] = new[block'[b].next] + 1
    <3>1. CASE b = N + 1
      <4>1. block'[b].next = x /\ new[b] = N /\ new[x] = N - 1
        BY <1>2, <1>3, <1>4, <1>7, <3>1
      <4>2. N = (N - 1) + 1
        BY <1>2
      <4> QED BY <4>1, <4>2
    <3>2. CASE b \in Blocks
      <4>1. block'[b].next = block[b].next /\ block[b].next \in Blocks
        BY <1>2, <1>4, <3>2
      <4> QED BY <1>7, <2>2, <2>6, <3>2, <4>1
    <3> QED BY <2>3, <3>1, <3>2
  <2>7. \A b, c \in 1 .. N : new[b] = new[c] => b = c
    BY <1>2, <1>7, <2>2
  <2>8. \A b \in 1 .. N : new[b] <= N - 1
    BY <1>2, <1>7, <2>2
  <2>9. new[block'[tailBlock].next] = N - 1
    BY <1>2, <1>4, <1>7, <2>2
  <2>10. Len(block') \in Nat /\ N \in 1 .. Len(block') /\ tailBlock \in 1 .. N
         /\ new[tailBlock] = 0
    BY <1>2, <1>4, <1>7
  <2> QED BY <1>4, <1>7, <2>5, <2>6, <2>7, <2>8, <2>9, <2>10 DEF RingOf
<1>9. new[frontBlock] = pos[frontBlock] /\ pos[frontBlock] \in Nat
  BY <1>2, <1>7
<1>10. Placed(new)'
  <2>1. Ring(new)'
    BY <1>5, <1>8 DEF Ring
  <2>2. BeyondFront(new)'
    <3>1. ASSUME NEW b \in 1 .. N, new[b] > new[frontBlock]
          PROVE  block'[b].tail = block'[b].front
      <4>1. b \in Blocks /\ pos[b] > pos[frontBlock]
        BY <1>2, <1>7, <1>9, <3>1
      <4>2. block[b].tail = block[b].front
        BY <1>1, <1>2, <4>1 DEF Placed, BeyondFront
      <4> QED BY <1>4, <4>1, <4>2
    <3> QED BY <1>5, <3>1 DEF BeyondFront
  <2>3. BehindTail(new)'
    <3>1. ASSUME NEW b \in 1 .. N + 1, 0 < new[b], new[b] < new[frontBlock]
          PROVE  After(block'[b], block'[b].tail) = block'[b].front
      <4>1. b # N + 1
        BY <1>2, <1>7, <1>9, <3>1
      <4>2. b \in Blocks
        BY <1>2, <4>1
      <4>3. After(block[b], block[b].tail) = block[b].front
        BY <1>1, <1>7, <1>9, <3>1, <4>2 DEF Placed, BehindTail
      <4> QED BY <1>4, <4>2, <4>3
    <3> QED BY <1>5, <3>1 DEF BehindTail
  <2>4. TailFilled'
    BY <1>1, <1>5 DEF Placed, TailFilled
  <2>5. Objects'
    <3>1. ASSUME NEW b \in 1 .. N + 1, NEW k \in 1 .. Used(block'[b])
          PROVE  \/ dequeuePc = "publishFront" /\ b = frontBlock /\ k = 1
                 \/ BlockItems(block'[b])[k] # NoData
      <4>1. CASE b = N + 1
        <5>1. k = 1 /\ BlockItems(block'[b]) = Add(<<>>, element)
          BY <1>3, <1>4, <4>1
        <5> DEFINE e == <<>>
        <5>2. e \in Seq(Values) /\ Len(e) = 0 /\ element \in Values /\ element # NoData
          BY EmptySeq, ElementFacts
        <5>3. Add(e, element)[1] = element
          <6> HIDE DEF e
          <6>1. Add(e, element)[Len(e) + 1] = element
            BY <5>2, ItemsAdd
          <6> QED BY <5>2, <6>1
        <5> QED BY <5>1, <5>2, <5>3
      <4>2. CASE b # N + 1
        <5>1. b \in Blocks
          BY <1>2, <4>2
        <5> QED BY <1>1, <1>4, <5>1 DEF Placed, Objects
      <4> QED BY <4>1, <4>2
    <3>2. dequeuePc' = dequeuePc /\ frontBlock' = frontBlock
      BY DEF consumerVars
    <3> QED BY <1>5, <3>1, <3>2 DEF Objects
  <2> QED BY <2>1, <2>2, <2>3, <2>4, <2>5 DEF Placed
<1>11. Items' = Items
  <2>1. RingOf(pos, block, tailBlock, N)
    BY <1>2 DEF Ring
  <2>2. ASSUME NEW b \in 1 .. Len(block'), new[b] <= new[frontBlock]
        PROVE  /\ b \in 1 .. Len(block)
               /\ BlockItems(block'[b]) = BlockItems(block[b])
               /\ block'[b].next = block[b].next
    <3>1. b # N + 1
      BY <1>2, <1>7, <1>9, <2>2
    <3>2. b \in Blocks
      BY <1>2, <1>4, <3>1
    <3> QED BY <1>4, <3>2 DEF Blocks
  <2>3. frontBlock \in 1 .. Len(block) /\ frontBlock \in 1 .. Len(block')
    BY <1>2, <1>4 DEF N
  <2>4. ContentsOf(block', frontBlock, tailBlock) = ContentsOf(block, frontBlock, tailBlock)
    <3> DEFINE B == block
               C == block'
               tl == tailBlock
               fr == frontBlock
    <3>1. /\ RingOf(pos, B, tl, N) /\ RingOf(new, C, tl, N)
          /\ fr \in 1 .. Len(B) /\ fr \in 1 .. Len(C)
      BY <1>8, <2>1, <2>3
    <3>2. \A b \in 1 .. Len(C) : new[b] <= new[fr] =>
              /\ b \in 1 .. Len(B)
              /\ BlockItems(C[b]) = BlockItems(B[b])
              /\ b # tl => C[b].next = B[b].next
      BY <2>2
    <3> HIDE DEF B, C, tl, fr
    <3>3. ContentsOf(C, fr, tl) = ContentsOf(B, fr, tl)
      BY <3>1, <3>2, ContentsKept
    <3> QED BY <3>3 DEF B, C, tl, fr
  <2> QED BY <2>4, ContentsAre, ContentsArePrimed DEF Items, consumerVars
<1>12. RWQTypeOK'
  <2>1. frontBlock \in 1 .. N
    BY <1>2
  <2> QED BY <1>2, <1>4, <1>5, <2>1 DEF RWQTypeOK, consumerVars
<1>13. SizesOK'
  <2> DEFINE q == InitialBlockCount(config)
  <2>1. /\ config \in Configs /\ N >= q /\ N < q + config.blocksLeft
        /\ \A b \in Blocks : /\ block[b].size >= FirstSize /\ block[b].size <= LastSize
                             /\ b <= q => block[b].size = FirstSize
    BY TypeFacts DEF RWQTypeOK, SizesOK, N
  <2>2. q \in Nat /\ config.blocksLeft \in Nat
    BY <2>1, ConfigFacts
  <2>3. FirstSize' = FirstSize /\ LastSize' = LastSize /\ InitialBlockCount(config)' = q
    BY DEF FirstSize, LastSize
  <2> HIDE DEF q
  <2>4. ASSUME NEW b \in 1 .. N + 1
        PROVE  /\ block'[b].size >= FirstSize /\ block'[b].size <= LastSize
               /\ b <= q => block'[b].size = FirstSize
    <3>1. CASE b = N + 1
      <4>1. ~(b <= q)
        BY <1>2, <2>1, <2>2, <3>1
      <4> QED BY <1>3, <1>4, <3>1, <4>1, NewSizeFacts
    <3>2. CASE b # N + 1
      <4>1. b \in Blocks
        BY <1>2, <3>2
      <4> QED BY <1>4, <2>1, <4>1
    <3> QED BY <3>1, <3>2
  <2>5. Len(block') >= q /\ Len(block') <= q + config.blocksLeft
    BY <1>2, <1>4, <2>1, <2>2
  <2>6. config' = config
    OBVIOUS
  <2> QED BY <1>5, <2>3, <2>4, <2>5, <2>6, NewSizeFacts DEF SizesOK, q
<1>14. ProducerKnows' /\ NewIsFilled'
  <2>1. /\ tailBlock = frontBlock \/ TailFull
        /\ Gap(TailBlock, TailBlock.localFront) >= Used(TailBlock)
    BY TypeFacts DEF ProducerKnows
  <2>2. ProducerKnows'
    <3> HIDE DEF TailBlock, NextOfTail
    <3> QED BY <1>5, <2>1 DEF ProducerKnows, MovesOn, TailFull
  <2>3. NewIsFilled'
    BY <1>2, <1>3, <1>4, <1>5 DEF NewIsFilled
  <2> QED BY <2>2, <2>3
<1>15. ConsumerKnows'
  <2>1. \A b \in Blocks : /\ block'[b].front = block[b].front
                          /\ block'[b].tail = block[b].tail
                          /\ block'[b].size = block[b].size
                          /\ block'[b].next = block[b].next
                          /\ block'[b].localTail = block[b].localTail
    BY <1>4
  <2> QED BY <1>2, <2>1, TypeFacts, ConsumerKnowsKept DEF consumerVars
<1>16. RoomSeen'
  BY DEF RoomSeen, RoomForSize
<1>17. PeekFound'
  BY <1>11, TypeFacts, PeekFoundKept DEF consumerVars
<1> QED BY <1>10, <1>11, <1>12, <1>13, <1>14, <1>15, <1>16, <1>17
        DEF RWQInv, Keeps, consumerVars

LEMMA EnqueueAllocateStep ==
    ASSUME Sized, RWQInv, EnqueueAllocate
    PROVE  RWQInv' /\ Keeps
<1> DEFINE r == Filled(NewSize, NextOfTail, element)
<1>1. /\ enqueuePc = "allocate"
      /\ \/ /\ Len(block) < InitialBlockCount(config) + config.blocksLeft
            /\ block' = Append(block, r)
            /\ largestBlockSize' = NewSize
            /\ enqueuePc' = "link"
            /\ UNCHANGED enqueueOk
         \/ /\ enqueuePc' = "idle"
            /\ enqueueOk' = FALSE
            /\ UNCHANGED <<block, largestBlockSize>>
      /\ UNCHANGED <<config, frontBlock, tailBlock, canAlloc, element,
                     lengthSeen, consumerVars>>
  BY DEF EnqueueAllocate, NewSize, Filled
<1>2. PICK new : new = r
  OBVIOUS
<1> HIDE DEF r
<1>3. CASE block' = Append(block, r) /\ enqueuePc' = "link"
  BY <1>1, <1>2, <1>3, EnqueueAllocated DEF r
<1>4. CASE enqueuePc' = "idle"
  BY <1>1, <1>4, EnqueueAllocateFailed
<1> QED BY <1>1, <1>3, <1>4

LEMMA EnqueueLinkStep ==
    ASSUME Sized, RWQInv, EnqueueLink
    PROVE  RWQInv' /\ Keeps
<1>1. PICK pos : Placed(pos)
  BY DEF RWQInv
<1> DEFINE N == Len(block)
           t == tailBlock
<1>0. /\ enqueuePc = "link" /\ enqueuePc' = "publishTailBlock"
      /\ block' = [block EXCEPT ![t].next = N]
      /\ UNCHANGED <<config, frontBlock, tailBlock, largestBlockSize,
                   canAlloc, element, enqueueOk, lengthSeen, consumerVars>>
  BY DEF EnqueueLink
<1>2. /\ RWQTypeOK /\ Ring(pos) /\ CircleSize = N - 1 /\ N \in Nat /\ N >= 2
      /\ t \in 1 .. N - 1 /\ t \in Blocks /\ frontBlock \in 1 .. N - 1 /\ frontBlock \in Blocks
      /\ N \in Blocks /\ Blocks = 1 .. N
      /\ \A b \in Blocks : BlockOK(block[b]) /\ pos[b] \in Nat
                           /\ block[b].next \in 1 .. N - 1 /\ block[b].next \in Blocks
  <2>1. RWQTypeOK /\ Ring(pos) /\ CircleSize = N - 1
    BY <1>0, <1>1, TypeFacts DEF Placed, CircleSize
  <2>2. /\ N \in Nat /\ N - 1 \in 1 .. N /\ N - 1 \in Nat
        /\ t \in 1 .. N - 1 /\ t \in Blocks /\ frontBlock \in 1 .. N - 1 /\ frontBlock \in Blocks
        /\ \A b \in Blocks : BlockOK(block[b]) /\ pos[b] \in Nat
                             /\ block[b].next \in 1 .. N - 1 /\ block[b].next \in Blocks
    BY <2>1, Positions
  <2> HIDE DEF N, t
  <2>3. N >= 2 /\ N \in 1 .. N
    BY <2>2
  <2> QED BY <2>1, <2>2, <2>3 DEF Blocks, N
<1>3. /\ block[N].front = 0 /\ block[N].localFront = 0 /\ block[N].tail = 1
      /\ block[N].data[0] = element /\ block[N].next = NextOfTail
  BY <1>0, TypeFacts DEF NewIsFilled
<1>4. /\ tailBlock = frontBlock \/ TailFull
      /\ Gap(TailBlock, TailBlock.localFront) >= Used(TailBlock)
  BY <1>0, TypeFacts DEF ProducerKnows
<1> DEFINE r == [block[t] EXCEPT !.next = N]
<1>5. /\ BlockOK(r) /\ SameItems(r, block[t]) /\ r.next = N
      /\ r.localTail = block[t].localTail /\ r.localFront = block[t].localFront
  <2>1. BlockOK(block[t]) /\ N \in Nat
    BY <1>2
  <2> HIDE DEF N, t
  <2> QED BY <2>1, WithNext
<1>6. block' = Put(block, t, r)
  BY <1>0 DEF Put
<1> HIDE DEF r
<1>7. /\ BlockArray(block') /\ Len(block') = N /\ block'[t] = r
      /\ \A b \in 1 .. N : b # t => block'[b] = block[b]
  <2>1. BlockArray(block) /\ t \in Blocks
    BY <1>2, TypeFacts
  <2> HIDE DEF t
  <2> QED BY <1>5, <1>6, <2>1, BlockPut
<1> HIDE DEF N
<1>8. \A b \in Blocks : /\ SameItems(block'[b], block[b])
                        /\ block'[b].localTail = block[b].localTail
                        /\ block'[b].localFront = block[b].localFront
                        /\ b # t => block'[b] = block[b]
                        /\ BlockItems(block'[b]) = BlockItems(block[b])
                        /\ Used(block'[b]) = Used(block[b])
  <2> SUFFICES ASSUME NEW b \in Blocks
               PROVE  /\ SameItems(block'[b], block[b])
                      /\ block'[b].localTail = block[b].localTail
                      /\ block'[b].localFront = block[b].localFront
                      /\ b # t => block'[b] = block[b]
                      /\ BlockItems(block'[b]) = BlockItems(block[b])
                      /\ Used(block'[b]) = Used(block[b])
    OBVIOUS
  <2>1. /\ SameItems(block'[b], block[b])
        /\ block'[b].localTail = block[b].localTail
        /\ block'[b].localFront = block[b].localFront
        /\ b # t => block'[b] = block[b]
    BY <1>2, <1>5, <1>7 DEF SameItems
  <2> QED BY <2>1, SameBlockItems
<1>9. /\ CircleSize' = N /\ Blocks' = Blocks /\ TailBlock' = r /\ NextOfTail' = N
      /\ tailBlock' = t /\ frontBlock' = frontBlock /\ dequeuePc' = dequeuePc
      /\ element' = element
  BY <1>0, <1>2, <1>5, <1>7 DEF CircleSize, Blocks, TailBlock, NextOfTail, consumerVars
<1>10. RingOf(pos, block', t, N) /\ RingOf(pos, block, t, N - 1)
       /\ (\A b \in 1 .. N - 1 : pos[b] <= N - 2) /\ pos[N] = N - 1 /\ t # N
  <2>1. RingOf(pos, block, t, N - 1)
    BY <1>2 DEF Ring
  <2>2. /\ pos \in [1 .. N -> Nat] /\ pos[t] = 0
        /\ \A b \in 1 .. N : b # t => pos[b] = pos[block[b].next] + 1
        /\ \A b, c \in 1 .. N - 1 : pos[b] = pos[c] => b = c
        /\ \A b \in 1 .. N - 1 : pos[b] <= (N - 1) - 1
        /\ pos[block[t].next] = (N - 1) - 1
    BY <2>1 DEF RingOf, N
  <2>3. t # N
    BY <1>2
  <2>4. pos[N] = N - 1
    <3>1. pos[N] = pos[NextOfTail] + 1 /\ pos[NextOfTail] = (N - 1) - 1
      BY <1>2, <1>3, <2>2, <2>3 DEF NextOfTail, TailBlock
    <3> QED BY <1>2, <3>1
  <2>5. ASSUME NEW b \in 1 .. N PROVE b = N \/ b \in 1 .. N - 1
    BY <1>2
  <2>6. \A b \in 1 .. N - 1 : pos[b] <= N - 2
    BY <1>2, <2>2
  <2>7. \A b \in 1 .. N : block'[b].next \in 1 .. N
    BY <1>2, <1>5, <1>7
  <2>8. \A b \in 1 .. N : b # t => pos[b] = pos[block'[b].next] + 1
    BY <1>7, <2>2
  <2>9. ASSUME NEW b \in 1 .. N, NEW c \in 1 .. N, pos[b] = pos[c] PROVE b = c
    <3>1. CASE b = N /\ c = N
      BY <3>1
    <3>2. CASE b = N /\ c \in 1 .. N - 1
      BY <1>2, <2>4, <2>6, <2>9, <3>2
    <3>3. CASE c = N /\ b \in 1 .. N - 1
      BY <1>2, <2>4, <2>6, <2>9, <3>3
    <3>4. CASE b \in 1 .. N - 1 /\ c \in 1 .. N - 1
      BY <2>2, <2>9, <3>4
    <3> QED BY <2>5, <3>1, <3>2, <3>3, <3>4
  <2>10. ASSUME NEW b \in 1 .. N PROVE pos[b] <= N - 1
    <3>1. CASE b = N
      BY <1>2, <2>4, <3>1
    <3>2. CASE b \in 1 .. N - 1
      BY <1>2, <2>6, <3>2
    <3> QED BY <2>5, <3>1, <3>2
  <2>11. pos[block'[t].next] = N - 1
    BY <1>5, <1>7, <2>4
  <2>12. N \in 1 .. N /\ t \in 1 .. N
    BY <1>2
  <2> QED BY <1>2, <1>7, <2>1, <2>2, <2>3, <2>4, <2>6, <2>7, <2>8, <2>9, <2>10, <2>11, <2>12
          DEF RingOf
<1>11. Placed(pos)'
  <2>1. Ring(pos)'
    BY <1>9, <1>10 DEF Ring
  <2>2. BeyondFront(pos)'
    <3>1. ASSUME NEW b \in 1 .. N, pos[b] > pos[frontBlock]
          PROVE  IF b = N
                 THEN /\ block'[b].tail = After(block'[b], block'[b].front)
                      /\ block'[b].data[block'[b].front] = element
                 ELSE block'[b].tail = block'[b].front
      <4>1. CASE b = N
        <5>1. block'[N] = block[N]
          BY <1>2, <1>7, <1>10
        <5>2. block[N].size \in Nat /\ block[N].size >= 2
          BY <1>2, BlockFields
        <5>3. (0 + 1) % block[N].size = 1
          <6> DEFINE s == block[N].size
          <6>1. s \in Nat /\ s >= 2 /\ 0 \in 0 .. s - 1
            BY <5>2
          <6> HIDE DEF s
          <6>2. (0 + 1) % s = 1
            BY <6>1, NextSlot
          <6> QED BY <6>2 DEF s
        <5> QED BY <1>3, <4>1, <5>1, <5>3 DEF After
      <4>2. CASE b # N
        <5>1. b \in 1 .. N - 1 /\ b \in Blocks
          BY <1>2, <4>2
        <5>2. block[b].tail = block[b].front
          BY <1>0, <1>1, <1>2, <3>1, <5>1 DEF Placed, BeyondFront
        <5> QED BY <1>8, <4>2, <5>1, <5>2 DEF SameItems
      <4> QED BY <4>1, <4>2
    <3> QED BY <1>0, <1>9, <3>1 DEF BeyondFront
  <2>3. BehindTail(pos)'
    <3>1. ASSUME NEW b \in Blocks, 0 < pos[b], pos[b] < pos[frontBlock]
          PROVE  After(block'[b], block'[b].tail) = block'[b].front
      <4>1. After(block[b], block[b].tail) = block[b].front
        BY <1>1, <3>1 DEF Placed, BehindTail
      <4> QED BY <1>8, <4>1 DEF SameItems, After
    <3> QED BY <1>9, <3>1 DEF BehindTail
  <2>4. TailFilled'
    BY <1>1, <1>5, <1>9 DEF Placed, TailFilled, TailBlock, SameItems
  <2>5. Objects'
    BY <1>1, <1>8, <1>9 DEF Placed, Objects
  <2> QED BY <2>1, <2>2, <2>3, <2>4, <2>5 DEF Placed
<1>12. Contents' = Contents /\ Items' = Items
  <2> DEFINE B == block
             C == block'
             f == frontBlock
  <2>1. /\ RingOf(pos, B, t, N - 1) /\ RingOf(pos, C, t, N)
        /\ f \in 1 .. Len(B) /\ f \in 1 .. Len(C)
    BY <1>2, <1>7, <1>10 DEF N
  <2>2. \A b \in 1 .. Len(C) : pos[b] <= pos[f] =>
            /\ b \in 1 .. Len(B)
            /\ BlockItems(C[b]) = BlockItems(B[b])
            /\ b # t => C[b].next = B[b].next
    BY <1>2, <1>7, <1>8 DEF N
  <2> HIDE DEF B, C, f
  <2>3. ContentsOf(C, f, t) = ContentsOf(B, f, t)
    BY <2>1, <2>2, ContentsKept
  <2>4. ContentsOf(block', frontBlock', tailBlock') = ContentsOf(block, frontBlock, tailBlock)
    BY <1>9, <2>3 DEF B, C, f
  <2> QED BY <1>9, <2>4, ContentsAre, ContentsArePrimed DEF Items
<1>13. RWQTypeOK'
  <2>1. frontBlock \in 1 .. N
    BY <1>2
  <2> QED BY <1>0, <1>2, <1>7, <1>9, <2>1 DEF RWQTypeOK, consumerVars
<1>14. SizesOK'
  BY <1>0, <1>7, <1>8, SizesKept, TypeFacts DEF SameItems, N
<1>15. ProducerKnows' /\ NewIsFilled'
  <2>1. /\ SameItems(r, TailBlock) /\ r.localFront = TailBlock.localFront
    BY <1>5 DEF TailBlock
  <2>2. Gap(r, r.localFront) >= Used(r)
        /\ (After(r, r.tail) = r.front <=> TailFull)
    BY <1>4, <2>1 DEF SameItems, Gap, Used, TailFull, After
  <2>3. block'[N].localFront = block'[N].front /\ N # frontBlock
    BY <1>2, <1>3, <1>7, <1>10
  <2> HIDE DEF TailBlock, NextOfTail
  <2> QED BY <1>0, <1>4, <1>9, <2>2, <2>3 DEF ProducerKnows, MovesOn, NewIsFilled, TailFull
<1>16. ConsumerKnows'
  <2> DEFINE f == frontBlock
             g == NextOfFront
  <2>1. ConsumerKnows /\ f \in Blocks /\ g \in Blocks
    BY <1>2, TypeFacts, Positions
  <2>2. FrontBlock' = block'[f] /\ FrontBlock = block[f]
        /\ (f # t => NextOfFront' = g) /\ NextOfFront = g
    BY <1>8, <1>9, <2>1 DEF FrontBlock, NextOfFront
  <2>3. /\ Seen(block'[f]) = Seen(block[f]) /\ Used(block'[f]) = Used(block[f])
        /\ Seen(block'[g]) = Seen(block[g]) /\ Used(block'[g]) = Used(block[g])
        /\ block'[f].localTail = block[f].localTail /\ block'[f].front = block[f].front
        /\ block'[f].tail = block[f].tail
        /\ block'[g].localTail = block[g].localTail /\ block'[g].front = block[g].front
    BY <1>8, <2>1 DEF Seen, SameItems
  <2> HIDE DEF f, g
  <2>4. dequeuePc' = dequeuePc /\ op' = op /\ (frontBlock # tailBlock <=> f # t)
        /\ frontBlock' = frontBlock /\ tailBlock' = tailBlock
    BY <1>0 DEF consumerVars, f
  <2> QED BY <2>1, <2>2, <2>3, <2>4 DEF ConsumerKnows
<1>17. RoomSeen'
  BY <1>0 DEF RoomSeen, RoomForSize
<1>18. PeekFound'
  BY <1>0, <1>12, TypeFacts, PeekFoundKept DEF consumerVars
<1> QED BY <1>0, <1>11, <1>12, <1>13, <1>14, <1>15, <1>16, <1>17, <1>18
        DEF RWQInv, Keeps, consumerVars

-----------------------------------------------------------------------------
(***************************************************************************)
(* The steps of the consumer that leave the items as they are.             *)
(***************************************************************************)
LEMMA DequeueBeginStep ==
    ASSUME RWQInv, NEW o \in {"remove", "peek"}, DequeueBegin(o)
    PROVE  RWQInv' /\ Keeps
<1> USE DEF DequeueBegin, producerVars
<1>1. PICK pos : Placed(pos)
  BY DEF RWQInv
<1>2. Placed(pos)' /\ Items' = Items /\ CircleSize' = CircleSize
  BY <1>1, NothingMoved
<1>3. RWQTypeOK'
  BY <1>2, TypeFacts DEF RWQTypeOK
<1>4. SizesOK'
  BY TypeFacts DEF SizesOK, Blocks, FirstSize, LastSize
<1>5. ProducerKnows' /\ NewIsFilled'
  BY TypeFacts DEF ProducerKnows, MovesOn, TailFull, NewIsFilled, TailBlock, NextOfTail
<1>6. ConsumerKnows'
  BY TypeFacts DEF ConsumerKnows, FrontBlock, NextOfFront
<1>7. RoomSeen'
  BY TypeFacts DEF RoomSeen, RoomForSize
<1>8. PeekFound'
  BY DEF PeekFound
<1> QED BY <1>2, <1>3, <1>4, <1>5, <1>6, <1>7, <1>8 DEF RWQInv, Keeps

LEMMA DequeueReturnedStep ==
    ASSUME RWQInv, DequeueReturned
    PROVE  RWQInv' /\ Keeps
<1> USE DEF DequeueReturned, producerVars
<1>1. PICK pos : Placed(pos)
  BY DEF RWQInv
<1>2. Placed(pos)' /\ Items' = Items /\ CircleSize' = CircleSize
  BY <1>1, NothingMoved
<1>3. RWQTypeOK'
  BY <1>2, TypeFacts DEF RWQTypeOK
<1>4. SizesOK'
  BY TypeFacts DEF SizesOK, Blocks, FirstSize, LastSize
<1>5. ProducerKnows' /\ NewIsFilled'
  BY TypeFacts DEF ProducerKnows, MovesOn, TailFull, NewIsFilled, TailBlock, NextOfTail
<1>6. ConsumerKnows'
  BY TypeFacts DEF ConsumerKnows, FrontBlock, NextOfFront
<1>7. RoomSeen'
  BY TypeFacts DEF RoomSeen, RoomForSize
<1>8. PeekFound'
  BY DEF PeekFound
<1> QED BY <1>2, <1>3, <1>4, <1>5, <1>6, <1>7, <1>8 DEF RWQInv, Keeps

LEMMA DequeueLoadTailBlockStep ==
    ASSUME RWQInv, DequeueLoadTailBlock
    PROVE  RWQInv' /\ Keeps
<1> USE DEF DequeueLoadTailBlock, producerVars
<1>1. PICK pos : Placed(pos)
  BY DEF RWQInv
<1>2. Placed(pos)' /\ Items' = Items /\ CircleSize' = CircleSize
  BY <1>1, NothingMoved
<1>3. RWQTypeOK'
  BY <1>2, TypeFacts DEF RWQTypeOK
<1>4. SizesOK'
  BY TypeFacts DEF SizesOK, Blocks, FirstSize, LastSize
<1>5. ProducerKnows' /\ NewIsFilled'
  BY TypeFacts DEF ProducerKnows, MovesOn, TailFull, NewIsFilled, TailBlock, NextOfTail
<1>6. ConsumerKnows'
  BY TypeFacts DEF ConsumerKnows, FrontBlock, NextOfFront
<1>7. RoomSeen'
  BY TypeFacts DEF RoomSeen, RoomForSize
<1>8. PeekFound'
  BY DEF PeekFound
<1> QED BY <1>2, <1>3, <1>4, <1>5, <1>6, <1>7, <1>8 DEF RWQInv, Keeps

\* The blocks, after a look at the tail of one by the consumer.
LEMMA TailLooked ==
    ASSUME RWQInv, NEW x \in Blocks,
           block' = [block EXCEPT ![x].localTail = block[x].tail]
    PROVE  /\ BlockArray(block') /\ Len(block') = Len(block)
           /\ \A b \in Blocks : /\ SameItems(block'[b], block[b])
                                /\ SameView(block'[b], block[b])
                                /\ block'[b].localFront = block[b].localFront
                                /\ b # x => block'[b] = block[b]
           /\ block'[x].localTail = block[x].tail
           /\ Seen(block'[x]) = Used(block[x]) /\ Used(block'[x]) = Used(block[x])
<1> DEFINE v == block[x].tail
           r == [block[x] EXCEPT !.localTail = v]
<1>1. BlockOK(block[x]) /\ v \in 0 .. block[x].size - 1 /\ BlockArray(block)
  BY TypeFacts, BlockFields
<1> HIDE DEF v
<1>2. /\ BlockOK(r) /\ SameItems(r, block[x]) /\ r.next = block[x].next
      /\ r.localTail = v /\ r.localFront = block[x].localFront
  BY <1>1, WithLocalTail
<1>3. block' = Put(block, x, r)
  BY DEF v, Put
<1> HIDE DEF r
<1>4. /\ BlockArray(block') /\ Len(block') = Len(block) /\ block'[x] = r
      /\ \A b \in 1 .. Len(block) : b # x => block'[b] = block[b]
  BY <1>1, <1>2, <1>3, BlockPut
<1>5. ASSUME NEW b \in Blocks
      PROVE  /\ SameItems(block'[b], block[b]) /\ block'[b].next = block[b].next
             /\ block'[b].localFront = block[b].localFront
  BY <1>2, <1>4 DEF Blocks, SameItems
<1>6. ASSUME NEW b \in Blocks PROVE SameView(block'[b], block[b])
  BY <1>5, SameBlockItems DEF SameView, SameItems
<1>7. Seen(r) = Used(block[x]) /\ Used(r) = Used(block[x])
  BY <1>2 DEF Seen, Used, Gap, SameItems, v
<1> QED BY <1>2, <1>4, <1>5, <1>6, <1>7 DEF Blocks, v

LEMMA FrontTailLooked ==
    ASSUME Sized, RWQInv, block' = [block EXCEPT ![frontBlock].localTail = FrontBlock.tail],
           \/ dequeuePc = "loadTail" /\ dequeuePc' = (IF FrontBlock.front # FrontBlock.tail
                                                      THEN "read" ELSE "loadTailBlock")
           \/ dequeuePc = "recheck" /\ dequeuePc' = (IF FrontBlock.front # FrontBlock.tail
                                                     THEN "read" ELSE "loadNext"),
           UNCHANGED <<config, frontBlock, tailBlock, largestBlockSize,
                       producerVars, op, result, dequeueOk, delivered>>
    PROVE  RWQInv' /\ Keeps
<1>1. PICK pos : Placed(pos)
  BY DEF RWQInv
<1> DEFINE x == frontBlock
<1>2. /\ Ring(pos) /\ tailBlock \in Blocks /\ x \in Blocks /\ RWQTypeOK
      /\ BlockOK(FrontBlock) /\ FrontBlock = block[x]
      /\ block' = [block EXCEPT ![x].localTail = block[x].tail]
  BY <1>1, TypeFacts, Positions DEF Placed, FrontBlock
<1>3. /\ BlockArray(block') /\ Len(block') = Len(block)
      /\ \A b \in Blocks : /\ SameItems(block'[b], block[b])
                           /\ SameView(block'[b], block[b])
                           /\ block'[b].localFront = block[b].localFront
                           /\ b # x => block'[b] = block[b]
      /\ block'[x].localTail = block[x].tail
      /\ Seen(block'[x]) = Used(block[x]) /\ Used(block'[x]) = Used(block[x])
  BY <1>2, TailLooked
<1>4. QuietStep
  BY <1>3 DEF QuietStep, producerVars
<1>5. Placed(pos)' /\ Contents' = Contents /\ Items' = Items
  BY <1>1, <1>2, <1>4, QuietPlaced
<1>6. RWQTypeOK'
  BY <1>2, <1>3 DEF RWQTypeOK, CircleSize, producerVars
<1>7. SizesOK'
  BY <1>3, SizesKept, TypeFacts DEF SameItems
<1>8. ProducerKnows' /\ NewIsFilled'
  <2>1. \A b \in Blocks : SameItems(block'[b], block[b]) /\ block'[b].next = block[b].next
                          /\ block'[b].localFront = block[b].localFront
    BY <1>3 DEF SameView
  <2> QED BY <1>2, <1>3, <2>1, TypeFacts, ProducerKnowsKept DEF producerVars
<1>9. ConsumerKnows'
  <2>1. /\ FrontBlock' = block'[x] /\ FrontBlock'.tail = FrontBlock.tail
        /\ FrontBlock'.front = FrontBlock.front
    BY <1>2, <1>3 DEF FrontBlock, SameItems
  <2>2. Used(block[x]) \in Nat
    BY <1>2, ItemsOfBlock
  <2>3. dequeuePc = "recheck" => frontBlock # tailBlock
    BY TypeFacts DEF ConsumerKnows
  <2> HIDE DEF FrontBlock, NextOfFront
  <2> QED BY <1>2, <1>3, <2>1, <2>2, <2>3 DEF ConsumerKnows
<1>10. RoomSeen'
  BY <1>3, TypeFacts, RoomSeenKept DEF RoomVars, producerVars
<1>11. PeekFound'
  BY DEF PeekFound
<1> QED BY <1>5, <1>6, <1>7, <1>8, <1>9, <1>10, <1>11 DEF RWQInv, Keeps

\* The next block has the first item when the front block is left.
LEMMA NextHasItems ==
    ASSUME RWQInv, NEW pos, Placed(pos), dequeuePc \in {"loadNext", "advance"}
    PROVE  /\ frontBlock # tailBlock /\ NextOfFront # frontBlock
           /\ NextOfFront \in Blocks /\ NextOfFront \in 1 .. CircleSize
           /\ BlockOK(block[NextOfFront])
           /\ block[NextOfFront].tail # block[NextOfFront].front
           /\ Contents = ContentsOf(block, NextOfFront, tailBlock)
           /\ Items # <<>> /\ Head(Items) = block[NextOfFront].data[block[NextOfFront].front]
<1> DEFINE g == NextOfFront
<1>1. frontBlock # tailBlock /\ FrontBlock.tail = FrontBlock.front
  BY TypeFacts DEF ConsumerKnows
<1>2. /\ RWQTypeOK /\ Ring(pos) /\ g \in Blocks /\ g \in 1 .. CircleSize /\ frontBlock \in Blocks
      /\ pos[frontBlock] = pos[g] + 1 /\ pos[g] \in Nat
      /\ BlockOK(block[g]) /\ BlockOK(FrontBlock)
      /\ pos[tailBlock] = 0 /\ tailBlock \in 1 .. CircleSize
      /\ \A b, c \in 1 .. CircleSize : pos[b] = pos[c] => b = c
  <2>1. RWQTypeOK /\ Ring(pos)
    BY <1>1, TypeFacts DEF Placed
  <2> QED BY <1>1, <2>1, Positions DEF FrontBlock
<1>3. g # frontBlock
  BY <1>2
<1>4. block[g].tail # block[g].front
  <2>1. CASE pos[g] = 0
    <3>1. g = tailBlock
      BY <1>2, <2>1
    <3> QED BY <1>1, <3>1 DEF Placed, TailFilled, TailBlock
  <2>2. CASE pos[g] # 0
    <3>1. 0 < pos[g] /\ pos[g] < pos[frontBlock]
      BY <1>2, <2>2
    <3>2. After(block[g], block[g].tail) = block[g].front
      BY <1>1, <1>2, <3>1 DEF Placed, BehindTail
    <3>3. block[g].size \in Nat /\ block[g].size >= 2 /\ block[g].front \in 0 .. block[g].size - 1
      BY <1>2, BlockFields
    <3>4. Used(block[g]) = block[g].size - 1
      BY <1>2, <3>2, <3>3, GapFacts DEF Used
    <3>5. Used(block[g]) # 0
      BY <3>3, <3>4
    <3> QED BY <1>2, <3>5, ItemsOfBlock
  <2> QED BY <2>1, <2>2
<1>5. RingOf(pos, block, tailBlock, CircleSize) /\ BlocksOK(block)
  BY <1>2 DEF Ring, RWQTypeOK, BlockArray
<1>6. Contents = ContentsOf(block, g, tailBlock)
  <2> DEFINE f == frontBlock
             B == block
             rest == ContentsOf(B, g, tailBlock)
             s == BlockItems(B[f])
  <2>1. ContentsOf(B, f, tailBlock) = Cat(s, ContentsOf(B, B[f].next, tailBlock))
        /\ B[f].next = g
    <3>1. f \in 1 .. Len(B) /\ f # tailBlock /\ RingOf(pos, B, tailBlock, CircleSize)
          /\ BlocksOK(B)
      BY <1>1, <1>2, <1>5 DEF Blocks
    <3>2. B[f].next = g
      BY DEF NextOfFront, FrontBlock
    <3> HIDE DEF f, B, s, rest
    <3>3. ContentsOf(B, f, tailBlock) = Cat(BlockItems(B[f]), ContentsOf(B, B[f].next, tailBlock))
      BY <3>1, ContentsFrom
    <3> QED BY <3>2, <3>3 DEF s
  <2>2. s = <<>>
    <3>1. Used(FrontBlock) = 0 /\ BlockItems(FrontBlock) \in Seq(Values)
          /\ Len(BlockItems(FrontBlock)) = Used(FrontBlock)
      BY <1>1, <1>2, ItemsOfBlock
    <3>2. s = BlockItems(FrontBlock)
      BY DEF FrontBlock
    <3> QED BY <3>1, <3>2, EmptySeq
  <2>3. rest \in Seq(Values)
    <3>1. g \in 1 .. Len(B) /\ RingOf(pos, B, tailBlock, CircleSize) /\ BlocksOK(B)
      BY <1>2, <1>5 DEF Blocks
    <3> HIDE DEF B, g
    <3> QED BY <3>1, ContentsFrom
  <2>4. Contents = ContentsOf(B, f, tailBlock)
    BY ContentsAre
  <2> HIDE DEF f, B, rest, s, g
  <2>5. Cat(<<>>, rest) = rest
    BY <2>3, CatTyped
  <2>6. ContentsOf(B, f, tailBlock) = Cat(s, rest)
    BY <2>1 DEF rest
  <2>7. Contents = rest
    BY <2>2, <2>4, <2>5, <2>6
  <2> QED BY <2>7 DEF rest, B
<1>7. Items # <<>> /\ Head(Items) = block[g].data[block[g].front]
  <2>1. PICK rest \in Seq(Values) : ContentsOf(block, g, tailBlock) = Cat(BlockItems(block[g]), rest)
    <3>1. g \in 1 .. Len(block)
      BY <1>2 DEF Blocks
    <3> HIDE DEF g
    <3> QED BY <1>5, <3>1, ContentsAtFront
  <2>2. /\ BlockItems(block[g]) \in Seq(Values) /\ Len(BlockItems(block[g])) = Used(block[g])
        /\ Used(block[g]) >= 1 /\ Used(block[g]) \in Nat
        /\ BlockItems(block[g])[1] = block[g].data[block[g].front]
    BY <1>2, <1>4, ItemsOfBlock, FirstItem
  <2> DEFINE s == BlockItems(block[g])
  <2>3. Items = Cat(s, rest)
    BY <1>6, <2>1 DEF Items
  <2> HIDE DEF s
  <2>4. s \in Seq(Values) /\ Len(s) >= 1 /\ Len(s) \in Nat
    BY <2>2 DEF s
  <2>5. /\ Cat(s, rest) \in Seq(Values) /\ Len(Cat(s, rest)) = Len(s) + Len(rest)
        /\ \A i \in 1 .. Len(s) : Cat(s, rest)[i] = s[i]
    BY <2>4, CatTyped
  <2>6. Cat(s, rest)[1] = s[1] /\ Len(Cat(s, rest)) >= 1 /\ Len(Cat(s, rest)) # 0
    BY <2>4, <2>5, LenProperties
  <2>7. Cat(s, rest) # <<>>
    BY <2>5, <2>6, EmptySeq
  <2>8. Head(Cat(s, rest)) = Cat(s, rest)[1]
    BY <2>5, <2>7 DEF Head
  <2> QED BY <2>2, <2>3, <2>6, <2>7, <2>8 DEF s
<1> QED BY <1>1, <1>2, <1>3, <1>4, <1>6, <1>7

LEMMA DequeueLoadNextStep ==
    ASSUME Sized, RWQInv, DequeueLoadNext
    PROVE  RWQInv' /\ Keeps
<1>1. PICK pos : Placed(pos)
  BY DEF RWQInv
<1> DEFINE x == NextOfFront
<1>0. /\ dequeuePc = "loadNext"
      /\ UNCHANGED <<config, frontBlock, tailBlock, largestBlockSize,
                     producerVars, op, delivered>>
      /\ \/ /\ op = "peek" /\ dequeuePc' = "idle" /\ block' = block
            /\ result' = block[x].data[block[x].front]
         \/ /\ dequeuePc' = "advance" /\ dequeueOk' = dequeueOk
            /\ block' = [block EXCEPT ![x].localTail = block[x].tail]
      /\ dequeueOk' \in BOOLEAN
  BY TypeFacts DEF DequeueLoadNext, RWQTypeOK
<1>2. /\ frontBlock # tailBlock /\ x # frontBlock /\ x \in Blocks
      /\ BlockOK(block[x]) /\ block[x].tail # block[x].front
      /\ Items # <<>> /\ Head(Items) = block[x].data[block[x].front]
  BY <1>0, <1>1, NextHasItems
<1>3. Ring(pos) /\ frontBlock \in Blocks /\ RWQTypeOK
  BY <1>1, TypeFacts, Positions DEF Placed
<1>4. CASE block' = block /\ dequeuePc' = "idle"
  <2>1. Placed(pos)' /\ Items' = Items /\ CircleSize' = CircleSize
    BY <1>0, <1>1, <1>4, NothingMoved DEF producerVars
  <2>2. RWQTypeOK'
    BY <1>0, <1>4, <2>1, TypeFacts DEF RWQTypeOK, producerVars
  <2>3. SizesOK'
    BY <1>0, <1>4, TypeFacts DEF SizesOK, Blocks, FirstSize, LastSize
  <2>4. ProducerKnows' /\ NewIsFilled'
    BY <1>0, <1>4, TypeFacts
       DEF ProducerKnows, MovesOn, TailFull, NewIsFilled, TailBlock, NextOfTail, producerVars
  <2>5. ConsumerKnows'
    BY <1>0, <1>4, TypeFacts DEF ConsumerKnows, FrontBlock, NextOfFront
  <2>6. RoomSeen'
    BY <1>0, <1>4, TypeFacts, RoomSeenKept DEF RoomVars, producerVars
  <2>7. PeekFound'
    BY <1>0, <1>2, <1>4, <2>1 DEF PeekFound
  <2> QED BY <1>0, <2>1, <2>2, <2>3, <2>4, <2>5, <2>6, <2>7 DEF RWQInv, Keeps
<1>5. CASE dequeuePc' = "advance"
  <2>1. /\ BlockArray(block') /\ Len(block') = Len(block)
        /\ \A b \in Blocks : /\ SameItems(block'[b], block[b])
                             /\ SameView(block'[b], block[b])
                             /\ block'[b].localFront = block[b].localFront
                             /\ b # x => block'[b] = block[b]
        /\ block'[x].localTail = block[x].tail
        /\ Seen(block'[x]) = Used(block[x]) /\ Used(block'[x]) = Used(block[x])
    BY <1>0, <1>2, <1>5, TailLooked
  <2>2. QuietStep
    BY <1>0, <1>5, <2>1 DEF QuietStep, SameItems, producerVars
  <2>3. Placed(pos)' /\ Contents' = Contents /\ Items' = Items
    BY <1>1, <1>3, <2>2, QuietPlaced
  <2>4. RWQTypeOK'
    BY <1>0, <1>3, <1>5, <2>1 DEF RWQTypeOK, CircleSize, producerVars
  <2>5. SizesOK'
    BY <1>0, <2>1, SizesKept, TypeFacts DEF SameItems
  <2>6. ProducerKnows' /\ NewIsFilled'
    <3>1. \A b \in Blocks : SameItems(block'[b], block[b]) /\ block'[b].next = block[b].next
                            /\ block'[b].localFront = block[b].localFront
      BY <2>1 DEF SameView
    <3> QED BY <1>0, <1>3, <2>1, <3>1, TypeFacts, ProducerKnowsKept DEF producerVars
  <2>7. ConsumerKnows'
    <3>1. FrontBlock' = FrontBlock /\ NextOfFront' = x
      BY <1>0, <1>2, <1>3, <2>1 DEF FrontBlock, NextOfFront
    <3>2. /\ Used(block[x]) \in Nat
          /\ block'[x].front = block[x].front
      BY <1>2, <2>1, ItemsOfBlock DEF SameItems
    <3>3. Seen(FrontBlock) <= Used(FrontBlock) /\ FrontBlock.tail = FrontBlock.front
      BY <1>0, TypeFacts DEF ConsumerKnows
    <3> HIDE DEF FrontBlock, x
    <3> QED BY <1>0, <1>2, <1>5, <2>1, <3>1, <3>2, <3>3 DEF ConsumerKnows
  <2>8. RoomSeen'
    BY <1>0, <2>1, TypeFacts, RoomSeenKept DEF RoomVars, producerVars
  <2>9. PeekFound'
    BY <1>5 DEF PeekFound
  <2> QED BY <1>0, <2>3, <2>4, <2>5, <2>6, <2>7, <2>8, <2>9 DEF RWQInv, Keeps
<1> QED BY <1>0, <1>4, <1>5

LEMMA DequeueAdvanceStep ==
    ASSUME Sized, RWQInv, DequeueAdvance
    PROVE  RWQInv' /\ Keeps
<1>1. PICK pos : Placed(pos)
  BY DEF RWQInv
<1> DEFINE g == NextOfFront
           f == frontBlock
<1>0. /\ dequeuePc = "advance" /\ dequeuePc' = "read" /\ frontBlock' = g
      /\ UNCHANGED <<config, block, tailBlock, largestBlockSize,
                     producerVars, op, result, dequeueOk, delivered>>
  BY DEF DequeueAdvance
<1>2. /\ f # tailBlock /\ g # f /\ g \in Blocks /\ g \in 1 .. CircleSize
      /\ Contents = ContentsOf(block, g, tailBlock)
  BY <1>0, <1>1, NextHasItems
<1>3. /\ Ring(pos) /\ f \in Blocks /\ f \in 1 .. CircleSize /\ RWQTypeOK
      /\ g # NextOfTail /\ pos[f] = pos[g] + 1 /\ pos[g] \in Nat
      /\ \A b \in Blocks : pos[b] \in Nat
      /\ \A b \in 1 .. CircleSize : b \in Blocks
      /\ \A b, c \in 1 .. CircleSize : pos[b] = pos[c] => b = c
  <2>1. RWQTypeOK /\ Ring(pos)
    BY <1>1, TypeFacts DEF Placed
  <2> QED BY <1>2, <2>1, Positions
<1>4. /\ FrontBlock.tail = FrontBlock.front
      /\ block[g].localTail # block[g].front /\ Seen(block[g]) <= Used(block[g])
  BY <1>0, TypeFacts DEF ConsumerKnows
<1>5. enqueuePc = "publishTailBlock" => NextOfTail # f
  BY TypeFacts DEF ProducerKnows
<1>6. /\ CircleSize' = CircleSize /\ Blocks' = Blocks /\ TailBlock' = TailBlock
      /\ NextOfTail' = NextOfTail /\ FrontBlock' = block[g] /\ enqueuePc' = enqueuePc
      /\ element' = element
  BY <1>0 DEF CircleSize, Blocks, TailBlock, NextOfTail, FrontBlock, producerVars
<1>7. Placed(pos)'
  <2>1. Ring(pos)'
    BY <1>0, <1>3, <1>6 DEF Ring
  <2>2. BeyondFront(pos)'
    <3>1. ASSUME NEW b \in 1 .. CircleSize, pos[b] > pos[g]
          PROVE  IF enqueuePc = "publishTailBlock" /\ b = NextOfTail
                 THEN /\ block[b].tail = After(block[b], block[b].front)
                      /\ block[b].data[block[b].front] = element
                 ELSE block[b].tail = block[b].front
      <4>1. CASE b = f
        BY <1>4, <1>5, <4>1 DEF FrontBlock
      <4>2. CASE b # f
        <5>1. pos[b] # pos[f]
          BY <1>3, <4>2
        <5>2. pos[b] > pos[f]
          BY <1>3, <3>1, <5>1
        <5> QED BY <1>1, <5>2 DEF Placed, BeyondFront
      <4> QED BY <4>1, <4>2
    <3> QED BY <1>0, <1>6, <3>1 DEF BeyondFront
  <2>3. BehindTail(pos)'
    <3>1. ASSUME NEW b \in Blocks, 0 < pos[b], pos[b] < pos[g]
          PROVE  After(block[b], block[b].tail) = block[b].front
      <4>1. pos[b] < pos[f]
        BY <1>3, <3>1
      <4> QED BY <1>1, <3>1, <4>1 DEF Placed, BehindTail
    <3> QED BY <1>0, <1>6, <3>1 DEF BehindTail
  <2>4. TailFilled'
    BY <1>0, <1>1, <1>2, <1>6 DEF Placed, TailFilled
  <2>5. Objects'
    BY <1>0, <1>1, <1>6 DEF Placed, Objects
  <2> QED BY <2>1, <2>2, <2>3, <2>4, <2>5 DEF Placed
<1>8. Items' = Items
  <2>1. Contents' = ContentsOf(block, g, tailBlock)
    BY <1>0, ContentsArePrimed
  <2> QED BY <1>0, <1>2, <2>1 DEF Items
<1>9. RWQTypeOK'
  BY <1>0, <1>2, <1>3, <1>6 DEF RWQTypeOK, producerVars
<1>10. SizesOK'
  BY <1>0, SizesKept, TypeFacts
<1>11. ProducerKnows' /\ NewIsFilled'
  <2>1. ProducerKnows /\ NewIsFilled /\ block' = block /\ Len(block') = Len(block)
    BY <1>0, TypeFacts
  <2> HIDE DEF TailBlock, NextOfTail, g
  <2> QED BY <1>0, <1>2, <1>3, <1>6, <2>1
       DEF ProducerKnows, NewIsFilled, MovesOn, TailFull
<1>12. ConsumerKnows'
  BY <1>0, <1>4, <1>6 DEF ConsumerKnows
<1>13. RoomSeen'
  BY <1>0, TypeFacts, RoomSeenKept DEF RoomVars, producerVars
<1>14. PeekFound'
  BY <1>0 DEF PeekFound
<1> QED BY <1>0, <1>7, <1>8, <1>9, <1>10, <1>11, <1>12, <1>13, <1>14 DEF RWQInv, Keeps

-----------------------------------------------------------------------------
(***************************************************************************)
(* The first object is moved out and its slot given back.                  *)
(***************************************************************************)
LEMMA TailSame ==
    ASSUME NEW S, NEW s \in Seq(S), NEW t \in Seq(S), NEW n \in Nat, n >= 1,
           Len(s) = n, Len(t) = n, \A i \in 2 .. n : s[i] = t[i]
    PROVE  Tail(s) = Tail(t)
<1> DEFINE u == Tail(s)
           w == Tail(t)
<1>1. s # <<>> /\ t # <<>>
  BY EmptySeq
<1>2. /\ u \in Seq(S) /\ Len(u) = n - 1 /\ \A i \in 1 .. n - 1 : u[i] = s[i + 1]
      /\ w \in Seq(S) /\ Len(w) = n - 1 /\ \A i \in 1 .. n - 1 : w[i] = t[i + 1]
  BY <1>1, HeadTailProperties
<1> HIDE DEF u, w
<1>3. ASSUME NEW i \in 1 .. n - 1 PROVE u[i] = w[i]
  <2>1. i + 1 \in 2 .. n
    OBVIOUS
  <2> QED BY <1>2, <2>1
<1>4. n - 1 \in Nat
  OBVIOUS
<1>5. u = w
  BY <1>2, <1>3, <1>4, SameSeq
<1> QED BY <1>5 DEF u, w

LEMMA CatAfter ==
    ASSUME NEW S, NEW s \in Seq(S), NEW t \in Seq(S), Len(s) >= 1
    PROVE  /\ Cat(s, t) \in Seq(S) /\ Cat(s, t) # <<>>
           /\ Head(Cat(s, t)) = s[1] /\ Cat(s, t)[1] = s[1]
           /\ Len(Cat(s, t)) = Len(s) + Len(t) /\ Len(Cat(s, t)) \in Nat
           /\ Len(Cat(s, t)) >= 1
<1>1. /\ Cat(s, t) \in Seq(S) /\ Len(Cat(s, t)) = Len(s) + Len(t)
      /\ \A i \in 1 .. Len(s) : Cat(s, t)[i] = s[i]
  BY CatTyped
<1>2. Len(s) \in Nat /\ Len(t) \in Nat
  BY LenProperties
<1> DEFINE c == Cat(s, t)
<1> HIDE DEF c
<1>3. c \in Seq(S) /\ Len(c) \in Nat /\ Len(c) >= 1 /\ Len(c) # 0 /\ c[1] = s[1]
  BY <1>1, <1>2 DEF c
<1>4. c # <<>>
  BY <1>3, EmptySeq
<1>5. Head(c) = c[1]
  BY <1>3, <1>4 DEF Head
<1> QED BY <1>1, <1>3, <1>4, <1>5 DEF c

LEMMA CatSkip ==
    ASSUME NEW S, NEW s \in Seq(S), NEW u \in Seq(S), NEW t \in Seq(S), Len(s) >= 1,
           Len(u) = Len(s), \A i \in 2 .. Len(s) : s[i] = u[i]
    PROVE  Tail(Cat(s, t)) = Tail(Cat(u, t))
<1>1. PICK c : c = Cat(s, t)
  OBVIOUS
<1>2. PICK d : d = Cat(u, t)
  OBVIOUS
<1>3. PICK m : m = Len(s)
  OBVIOUS
<1>4. PICK k : k = Len(t)
  OBVIOUS
<1>0. c \in Seq(S) /\ Joins(c, s, t, m, k)
  BY <1>1, <1>3, <1>4, CatItems
<1>5. /\ c \in Seq(S) /\ Len(c) = m + k /\ m \in Nat /\ k \in Nat
      /\ \A i \in 1 .. m : c[i] = s[i]
      /\ \A i \in 1 .. k : c[m + i] = t[i]
  BY <1>0 DEF Joins
<1>6. m = Len(u)
  BY <1>3
<1>7. /\ d \in Seq(S) /\ Len(d) = m + k
      /\ \A i \in 1 .. m : d[i] = u[i]
      /\ \A i \in 1 .. k : d[m + i] = t[i]
  <2>1. d \in Seq(S) /\ Joins(d, u, t, m, k)
    BY <1>2, <1>4, <1>6, CatItems
  <2> QED BY <2>1 DEF Joins
<1>8. ASSUME NEW i \in 2 .. m + k PROVE c[i] = d[i]
  <2>1. CASE i \in 2 .. m
    BY <1>3, <1>5, <1>7, <2>1
  <2>2. CASE i \notin 2 .. m
    <3>1. PICK j : j = i - m
      OBVIOUS
    <3>2. j \in 1 .. k /\ i = m + j
      BY <1>5, <2>2, <3>1
    <3> QED BY <1>5, <1>7, <3>2
  <2> QED BY <2>1, <2>2
<1>9. PICK n : n = m + k
  OBVIOUS
<1>10. n \in Nat /\ n >= 1
  BY <1>3, <1>5, <1>9
<1>11. Len(c) = n /\ Len(d) = n /\ \A i \in 2 .. n : c[i] = d[i]
  BY <1>5, <1>7, <1>8, <1>9
<1> QED BY <1>1, <1>2, <1>5, <1>7, <1>10, <1>11, TailSame

LEMMA CatPop ==
    ASSUME NEW S, NEW s \in Seq(S), NEW t \in Seq(S), Len(s) >= 1
    PROVE  Tail(Cat(s, t)) = Cat(Tail(s), t)
<1>1. PICK c : c = Cat(s, t)
  OBVIOUS
<1>2. PICK r : r = Tail(s)
  OBVIOUS
<1>3. PICK m : m = Len(s)
  OBVIOUS
<1>4. PICK k : k = Len(t)
  OBVIOUS
<1>0. c \in Seq(S) /\ Joins(c, s, t, m, k)
  BY <1>1, <1>3, <1>4, CatItems
<1>5. /\ c \in Seq(S) /\ Len(c) = m + k /\ m \in Nat /\ k \in Nat /\ m >= 1
      /\ \A i \in 1 .. m : c[i] = s[i]
      /\ \A i \in 1 .. k : c[m + i] = t[i]
  BY <1>0, <1>3 DEF Joins
<1>6. s # <<>> /\ c # <<>>
  BY <1>1, <1>3, <1>5, EmptySeq, CatAfter
<1>7. r \in Seq(S) /\ Len(r) = m - 1 /\ \A i \in 1 .. m - 1 : r[i] = s[i + 1]
  BY <1>2, <1>3, <1>6, HeadTailProperties
<1>8. PICK u : u = Tail(c)
  OBVIOUS
<1>9. u \in Seq(S) /\ Len(u) = m + k - 1 /\ \A i \in 1 .. m + k - 1 : u[i] = c[i + 1]
  BY <1>5, <1>6, <1>8, HeadTailProperties
<1>10. PICK d : d = Cat(r, t)
  OBVIOUS
<1>11. PICK p : p = m - 1
  OBVIOUS
<1>12. p = Len(r) /\ p \in Nat
  BY <1>5, <1>7, <1>11
<1>13. /\ d \in Seq(S) /\ Len(d) = p + k
       /\ \A i \in 1 .. p : d[i] = r[i]
       /\ \A i \in 1 .. k : d[p + i] = t[i]
  <2>1. d \in Seq(S) /\ Joins(d, r, t, p, k)
    BY <1>4, <1>7, <1>10, <1>12, CatItems
  <2> QED BY <2>1 DEF Joins
<1>14. PICK n : n = m + k - 1
  OBVIOUS
<1>15. n \in Nat /\ Len(u) = n /\ Len(d) = n
  BY <1>5, <1>9, <1>11, <1>13, <1>14
<1>16. ASSUME NEW i \in 1 .. n PROVE u[i] = d[i]
  <2>0. u[i] = c[i + 1]
    BY <1>9, <1>14
  <2>1. CASE i \in 1 .. p
    <3>1. i + 1 \in 1 .. m
      BY <1>5, <1>11, <2>1
    <3>2. c[i + 1] = s[i + 1]
      BY <1>5, <3>1
    <3>3. d[i] = r[i] /\ r[i] = s[i + 1]
      BY <1>7, <1>11, <1>13, <2>1
    <3> QED BY <2>0, <3>2, <3>3
  <2>2. CASE i \notin 1 .. p
    <3>1. PICK j : j = i - p
      OBVIOUS
    <3>2. j \in 1 .. k /\ i = p + j /\ i + 1 = m + j
      BY <1>5, <1>11, <1>12, <1>14, <2>2, <3>1
    <3>3. c[m + j] = t[j] /\ d[p + j] = t[j]
      BY <1>5, <1>13, <3>2
    <3> QED BY <2>0, <3>2, <3>3
  <2> QED BY <2>1, <2>2
<1>17. u = d
  BY <1>9, <1>13, <1>15, <1>16, SameSeq
<1> QED BY <1>1, <1>2, <1>8, <1>10, <1>17

\* One element removed: the first.
Removes == Items # <<>> /\ delivered' = Head(Items) /\ Items' = Tail(Items) /\ config' = config

LEMMA FrontObject ==
    ASSUME RWQInv, NEW pos, Placed(pos), dequeuePc = "read"
    PROVE  /\ Items # <<>> /\ Head(Items) = FrontBlock.data[FrontBlock.front]
           /\ FrontBlock.data[FrontBlock.front] # NoData
<1>1. /\ BlockOK(FrontBlock) /\ frontBlock \in Blocks /\ FrontBlock.tail # FrontBlock.front
      /\ RingOf(pos, block, tailBlock, CircleSize) /\ BlocksOK(block)
  BY FrontHasItems
<1>2. PICK rest \in Seq(Values) :
          ContentsOf(block, frontBlock, tailBlock) = Cat(BlockItems(block[frontBlock]), rest)
  BY <1>1, ContentsAtFront DEF Blocks
<1> DEFINE s == BlockItems(FrontBlock)
<1>3. /\ s \in Seq(Values) /\ Len(s) >= 1 /\ s[1] = FrontBlock.data[FrontBlock.front]
      /\ Used(FrontBlock) >= 1 /\ Used(FrontBlock) \in Nat
  BY <1>1, ItemsOfBlock, FirstItem
<1>4. Items = Cat(s, rest)
  BY <1>2, ContentsAre DEF Items, FrontBlock
<1>5. s[1] # NoData
  <2>1. 1 \in 1 .. Used(block[frontBlock])
    BY <1>3 DEF FrontBlock
  <2>2. BlockItems(block[frontBlock])[1] # NoData
    BY <1>1, <2>1 DEF Placed, Objects
  <2> QED BY <2>2 DEF FrontBlock
<1> HIDE DEF s
<1>6. Items # <<>> /\ Head(Items) = s[1]
  BY <1>3, <1>4, CatAfter
<1> QED BY <1>3, <1>5, <1>6

LEMMA DequeuePeeked ==
    ASSUME RWQInv, dequeuePc = "read", op = "peek", dequeuePc' = "idle", dequeueOk' = TRUE,
           result' = FrontBlock.data[FrontBlock.front],
           UNCHANGED <<block, delivered, config, frontBlock, tailBlock, largestBlockSize,
                       producerVars, op>>
    PROVE  RWQInv' /\ Keeps
<1> USE DEF producerVars
<1>1. PICK pos : Placed(pos)
  BY DEF RWQInv
<1>2. Placed(pos)' /\ Items' = Items /\ CircleSize' = CircleSize
  BY <1>1, NothingMoved
<1>3. RWQTypeOK'
  BY <1>2, TypeFacts DEF RWQTypeOK
<1>4. SizesOK'
  BY TypeFacts DEF SizesOK, Blocks, FirstSize, LastSize
<1>5. ProducerKnows' /\ NewIsFilled'
  BY TypeFacts DEF ProducerKnows, MovesOn, TailFull, NewIsFilled, TailBlock, NextOfTail
<1>6. ConsumerKnows'
  BY TypeFacts DEF ConsumerKnows, FrontBlock, NextOfFront
<1>7. RoomSeen'
  BY TypeFacts DEF RoomSeen, RoomForSize
<1>8. PeekFound'
  <2>1. Items # <<>> /\ Head(Items) = FrontBlock.data[FrontBlock.front]
    BY <1>1, FrontObject
  <2> QED BY <1>2, <2>1 DEF PeekFound
<1> QED BY <1>2, <1>3, <1>4, <1>5, <1>6, <1>7, <1>8 DEF RWQInv, Keeps

\* A step of the consumer inside its block: the other blocks stay.
LEMMA RestPlaced ==
    ASSUME RWQInv, NEW pos, Placed(pos), Len(block') = Len(block),
           \A b \in Blocks : /\ block'[b].next = block[b].next
                             /\ b # frontBlock => block'[b] = block[b],
           UNCHANGED <<frontBlock, tailBlock, enqueuePc, element>>
    PROVE  (Ring(pos) /\ BeyondFront(pos) /\ BehindTail(pos) /\ TailFilled)'
<1>1. /\ RWQTypeOK /\ Ring(pos) /\ CircleSize' = CircleSize /\ Blocks' = Blocks
      /\ tailBlock \in Blocks /\ frontBlock \in Blocks
      /\ \A b \in Blocks : pos[b] \in Nat
      /\ \A b \in 1 .. CircleSize : b \in Blocks
  <2>1. RWQTypeOK /\ Ring(pos)
    BY TypeFacts DEF Placed
  <2> QED BY <2>1, Positions DEF CircleSize, Blocks
<1>2. NextOfTail' = NextOfTail /\ (frontBlock # tailBlock => TailBlock' = TailBlock)
  BY <1>1 DEF NextOfTail, TailBlock
<1>3. Ring(pos)'
  <2>1. RingOf(pos, block, tailBlock, CircleSize)
    BY <1>1 DEF Ring
  <2>2. RingOf(pos, block', tailBlock, CircleSize)
    BY <1>1, <2>1, SameRing DEF Blocks
  <2> QED BY <1>1, <2>2 DEF Ring
<1>4. BeyondFront(pos)'
  <2>1. ASSUME NEW b \in 1 .. CircleSize, pos[b] > pos[frontBlock]
        PROVE  block'[b] = block[b]
    BY <1>1, <2>1
  <2>2. BeyondFront(pos)
    BY DEF Placed
  <2> QED BY <1>1, <1>2, <2>1, <2>2 DEF BeyondFront
<1>5. BehindTail(pos)'
  <2>1. ASSUME NEW b \in Blocks, pos[b] < pos[frontBlock]
        PROVE  block'[b] = block[b]
    BY <1>1, <2>1
  <2>2. BehindTail(pos)
    BY DEF Placed
  <2> QED BY <1>1, <2>1, <2>2 DEF BehindTail
<1>6. TailFilled'
  <2>1. TailFilled
    BY DEF Placed
  <2> QED BY <1>2, <2>1 DEF TailFilled
<1> QED BY <1>3, <1>4, <1>5, <1>6

LEMMA DequeueTaken ==
    ASSUME Sized, RWQInv, dequeuePc = "read", op = "remove", dequeuePc' = "publishFront",
           block' = [block EXCEPT ![frontBlock].data[FrontBlock.front] = NoData],
           result' = FrontBlock.data[FrontBlock.front], delivered' = result',
           UNCHANGED <<dequeueOk, config, frontBlock, tailBlock, largestBlockSize,
                       producerVars, op>>
    PROVE  RWQInv' /\ Removes
<1>1. PICK pos : Placed(pos)
  BY DEF RWQInv
<1> DEFINE f == frontBlock
           v == block[f].front
           r == Fill(block[f], v, NoData)
<1>2. /\ RWQTypeOK /\ Ring(pos) /\ f \in Blocks /\ f \in 1 .. CircleSize
      /\ tailBlock \in Blocks /\ NextOfTail \in Blocks /\ Len(block) \in Nat
      /\ BlockOK(block[f]) /\ FrontBlock = block[f] /\ block[f].tail # v
  <2>1. RWQTypeOK /\ Ring(pos)
    BY <1>1, TypeFacts DEF Placed
  <2>2. BlockOK(FrontBlock) /\ FrontBlock.tail # FrontBlock.front
    BY <1>1, FrontHasItems
  <2> QED BY <2>1, <2>2, Positions DEF FrontBlock
<1>3. v \in 0 .. block[f].size - 1 /\ BlockArray(block) /\ NoData \in Values
  BY <1>2, TypeFacts, BlockFields DEF Values
<1>4. /\ BlockOK(r) /\ r.data = [block[f].data EXCEPT ![v] = NoData]
      /\ r.front = block[f].front /\ r.tail = block[f].tail
      /\ r.size = block[f].size /\ r.next = block[f].next
      /\ r.localTail = block[f].localTail /\ r.localFront = block[f].localFront
  <2>1. BlockOK(block[f]) /\ v \in 0 .. block[f].size - 1 /\ NoData \in Values
    BY <1>2, <1>3
  <2> HIDE DEF v
  <2> QED BY <2>1, WithData
<1>5. block' = Put(block, f, r)
  BY <1>2 DEF Put, Fill, v
<1> HIDE DEF r
<1>6. /\ BlockArray(block') /\ Len(block') = Len(block) /\ block'[f] = r
      /\ \A b \in 1 .. Len(block) : b # f => block'[b] = block[b]
  BY <1>2, <1>3, <1>4, <1>5, BlockPut
<1>7. \A b \in Blocks : /\ block'[b].next = block[b].next /\ block'[b].size = block[b].size
                        /\ block'[b].front = block[b].front /\ block'[b].tail = block[b].tail
                        /\ block'[b].localTail = block[b].localTail
                        /\ block'[b].localFront = block[b].localFront
                        /\ b # f => block'[b] = block[b]
  BY <1>4, <1>6 DEF Blocks
<1>8. /\ Used(r) = Used(block[f])
      /\ \A k \in 2 .. Used(block[f]) : BlockItems(r)[k] = BlockItems(block[f])[k]
  <2>1. PICK b : b = block[f]
    OBVIOUS
  <2>2. /\ BlockOK(b) /\ BlockOK(r) /\ b.tail # b.front
        /\ r.front = b.front /\ r.tail = b.tail /\ r.size = b.size
        /\ r.data = [b.data EXCEPT ![b.front] = NoData]
    BY <1>2, <1>4, <2>1
  <2>3. /\ Used(r) = Used(b)
        /\ \A k \in 2 .. Used(b) : BlockItems(r)[k] = BlockItems(b)[k]
    BY <2>2, ItemsMoveOut
  <2> QED BY <2>1, <2>3
<1>9. /\ CircleSize' = CircleSize /\ Blocks' = Blocks /\ frontBlock' = f
      /\ enqueuePc' = enqueuePc /\ element' = element /\ tailBlock' = tailBlock
      /\ NextOfTail' = NextOfTail
  BY <1>2, <1>6, <1>7 DEF CircleSize, Blocks, producerVars, NextOfTail, TailBlock
<1>10. Objects'
  <2>1. ASSUME NEW b \in Blocks, NEW k \in 1 .. Used(block'[b])
        PROVE  (b = f /\ k = 1) \/ BlockItems(block'[b])[k] # NoData
    <3>1. CASE b = f
      <4>1. Used(block[f]) \in Nat
        BY <1>2, ItemsOfBlock
      <4>2. k = 1 \/ k \in 2 .. Used(block[f])
        BY <1>6, <1>8, <3>1, <4>1
      <4>3. CASE k \in 2 .. Used(block[f])
        <5>1. k \in 1 .. Used(block[f])
          BY <4>1, <4>3
        <5>2. BlockItems(block[f])[k] # NoData
          BY <1>1, <1>2, <5>1 DEF Placed, Objects
        <5> QED BY <1>6, <1>8, <3>1, <4>3, <5>2
      <4> QED BY <3>1, <4>2, <4>3
    <3>2. CASE b # f
      BY <1>1, <1>7, <3>2 DEF Placed, Objects
    <3> QED BY <3>1, <3>2
  <2> QED BY <1>9, <2>1 DEF Objects
<1>11. Placed(pos)'
  <2>1. (Ring(pos) /\ BeyondFront(pos) /\ BehindTail(pos) /\ TailFilled)'
    BY <1>1, <1>6, <1>7, <1>9, RestPlaced
  <2> QED BY <1>10, <2>1 DEF Placed
<1>12. Removes
  <2>1. Items # <<>> /\ Head(Items) = FrontBlock.data[FrontBlock.front]
    BY <1>1, FrontObject
  <2> DEFINE B == block
             C == block'
             tl == tailBlock
  <2>2. /\ RingOf(pos, B, tl, CircleSize) /\ RingOf(pos, C, tl, CircleSize) /\ Len(C) = Len(B)
        /\ BlocksOK(B) /\ BlocksOK(C) /\ f \in 1 .. Len(B)
        /\ \A b \in 1 .. Len(B) : /\ b # f => BlockItems(C[b]) = BlockItems(B[b])
                                  /\ b # tl => C[b].next = B[b].next
    BY <1>2, <1>3, <1>6, <1>7, <1>9, <1>11 DEF Placed, Ring, BlockArray, Blocks
  <2> HIDE DEF B, C, tl, f
  <2>3. PICK rest \in Seq(Values) :
            /\ ContentsOf(B, f, tl) = Cat(BlockItems(B[f]), rest)
            /\ ContentsOf(C, f, tl) = Cat(BlockItems(C[f]), rest)
    <3>1. AlikeBut(f, B, C, pos, tl, CircleSize)
      BY <2>2 DEF AlikeBut
    <3> QED BY <3>1, SameAfterFront
  <2> DEFINE s == BlockItems(B[f])
             u == BlockItems(C[f])
  <2>4. /\ s \in Seq(Values) /\ u \in Seq(Values) /\ Len(s) >= 1 /\ Len(u) = Len(s)
        /\ \A i \in 2 .. Len(s) : s[i] = u[i]
    <3>1. /\ BlockItems(block[f]) \in Seq(Values) /\ Len(BlockItems(block[f])) = Used(block[f])
          /\ Used(block[f]) >= 1
      BY <1>2, ItemsOfBlock, FirstItem
    <3>2. BlockItems(r) \in Seq(Values) /\ Len(BlockItems(r)) = Used(r)
      BY <1>4, ItemsOfBlock
    <3> QED BY <1>6, <1>8, <3>1, <3>2 DEF B, C
  <2> HIDE DEF s, u
  <2>5. Tail(Cat(s, rest)) = Tail(Cat(u, rest))
    BY <2>4, CatSkip
  <2>6. Contents = Cat(s, rest) /\ Contents' = Cat(u, rest)
    <3>1. Contents = ContentsOf(B, f, tl)
      BY ContentsAre DEF B, f, tl
    <3>2. Contents' = ContentsOf(C, f, tl)
      BY <1>9, ContentsArePrimed DEF C, tl, f
    <3> QED BY <2>3, <3>1, <3>2 DEF s, u
  <2>7. Items = Contents /\ Items' = Tail(Contents')
    BY DEF Items
  <2>8. Items' = Tail(Items)
    BY <2>5, <2>6, <2>7
  <2> QED BY <2>1, <2>8 DEF Removes
<1>13. RWQTypeOK'
  BY <1>2, <1>6, <1>9 DEF RWQTypeOK, producerVars
<1>14. SizesOK'
  BY <1>6, <1>7, SizesKept, TypeFacts
<1>15. ProducerKnows' /\ NewIsFilled'
  <2>1. ProducerKnows /\ NewIsFilled
    BY TypeFacts
  <2>2. ASSUME NEW b \in Blocks
        PROVE  /\ Used(block'[b]) = Used(block[b])
               /\ Gap(block'[b], block'[b].localFront) = Gap(block[b], block[b].localFront)
               /\ After(block'[b], block'[b].tail) = After(block[b], block[b].tail)
    BY <1>7 DEF Used, Gap, After
  <2>3. ASSUME NEW b \in Blocks PROVE block'[b].data[block'[b].tail] = block[b].data[block[b].tail]
    <3>1. CASE b = f
      <4>1. block[f].data \in [0 .. block[f].size - 1 -> Values]
            /\ block[f].tail \in 0 .. block[f].size - 1
        BY <1>2, BlockFields
      <4>2. r.data[block[f].tail] = block[f].data[block[f].tail]
        BY <1>2, <1>4, <4>1
      <4> QED BY <1>4, <1>6, <3>1, <4>2
    <3>2. CASE b # f
      BY <1>7, <3>2
    <3> QED BY <3>1, <3>2
  <2>4. TailBlock' = block'[tailBlock] /\ TailBlock = block[tailBlock]
    BY <1>9 DEF TailBlock
  <2> DEFINE x == NextOfTail
             t == tailBlock
  <2>5. x \in Blocks /\ t \in Blocks /\ NextOfTail = x
    BY <1>2
  <2> HIDE DEF x, t
  <2>6. /\ block'[x].localFront = block[x].localFront /\ block'[x].front = block[x].front
        /\ block'[x].data[block'[x].tail] = block[x].data[block[x].tail]
        /\ block'[x].tail = block[x].tail
        /\ block'[t].localFront = block[t].localFront /\ block'[t].front = block[t].front
        /\ block'[t].tail = block[t].tail
        /\ block'[t].data[block'[t].tail] = block[t].data[block[t].tail]
        /\ Used(block'[t]) = Used(block[t])
        /\ Gap(block'[t], block'[t].localFront) = Gap(block[t], block[t].localFront)
        /\ After(block'[t], block'[t].tail) = After(block[t], block[t].tail)
    BY <1>7, <2>2, <2>3, <2>5
  <2>7. ProducerKnows'
    <3>1. TailBlock' = block'[t] /\ TailBlock = block[t] /\ tailBlock = t /\ tailBlock' = t
          /\ NextOfTail' = x
      BY <1>9, <2>4, <2>5 DEF t
    <3>2. frontBlock' = frontBlock
      BY <1>9
    <3> HIDE DEF f, TailBlock, NextOfTail
    <3> QED BY <1>9, <2>1, <2>5, <2>6, <3>1, <3>2 DEF ProducerKnows, MovesOn, TailFull
  <2>8. NewIsFilled'
    <3>1. ASSUME enqueuePc = "link" PROVE block'[Len(block)] = block[Len(block)]
      <4>1. f \in 1 .. Len(block) - 1
        BY <1>2, <3>1 DEF CircleSize
      <4>2. Len(block) # f /\ Len(block) \in 1 .. Len(block)
        BY <1>2, <4>1
      <4> QED BY <1>6, <4>2
    <3> QED BY <1>6, <1>9, <2>1, <3>1 DEF NewIsFilled
  <2> QED BY <2>7, <2>8
<1>16. ConsumerKnows'
  <2>1. FrontBlock' = r
    BY <1>6, <1>9 DEF FrontBlock
  <2>2. Seen(FrontBlock) <= Used(FrontBlock) /\ FrontBlock.localTail # FrontBlock.front
    BY TypeFacts DEF ConsumerKnows
  <2>3. Seen(r) = Seen(FrontBlock) /\ Used(r) = Used(FrontBlock)
        /\ r.localTail = FrontBlock.localTail /\ r.front = FrontBlock.front
    BY <1>2, <1>4, <1>8 DEF Seen
  <2> HIDE DEF FrontBlock
  <2> QED BY <2>1, <2>2, <2>3 DEF ConsumerKnows
<1>17. RoomSeen'
  BY <1>6, TypeFacts, RoomSeenKept DEF RoomVars, producerVars
<1>18. PeekFound'
  BY DEF PeekFound
<1> QED BY <1>11, <1>12, <1>13, <1>14, <1>15, <1>16, <1>17, <1>18 DEF RWQInv

-----------------------------------------------------------------------------
LEMMA DequeueReadStep ==
    ASSUME Sized, RWQInv, DequeueRead
    PROVE  RWQInv' /\ (Keeps \/ Removes)
<1>1. /\ dequeuePc = "read" /\ result' = FrontBlock.data[FrontBlock.front]
      /\ UNCHANGED <<config, frontBlock, tailBlock, largestBlockSize, producerVars, op>>
  BY DEF DequeueRead
<1>2. CASE op = "peek"
  <2>1. dequeuePc' = "idle" /\ dequeueOk' = TRUE /\ UNCHANGED <<block, delivered>>
    BY <1>2 DEF DequeueRead
  <2> QED BY <1>1, <1>2, <2>1, DequeuePeeked
<1>3. CASE op # "peek"
  <2>1. op = "remove"
    BY <1>3, TypeFacts DEF RWQTypeOK
  <2>2. /\ block' = [block EXCEPT ![frontBlock].data[FrontBlock.front] = NoData]
        /\ delivered' = result' /\ dequeuePc' = "publishFront" /\ UNCHANGED dequeueOk
    BY <1>3 DEF DequeueRead
  <2> QED BY <1>1, <2>1, <2>2, DequeueTaken
<1> QED BY <1>2, <1>3

LEMMA DequeueLoadTailStep ==
    ASSUME Sized, RWQInv, DequeueLoadTail
    PROVE  RWQInv' /\ Keeps
<1>1. /\ block' = [block EXCEPT ![frontBlock].localTail = FrontBlock.tail]
      /\ dequeuePc = "loadTail" /\ dequeuePc' = (IF FrontBlock.front # FrontBlock.tail
                                                 THEN "read" ELSE "loadTailBlock")
      /\ UNCHANGED <<config, frontBlock, tailBlock, largestBlockSize,
                     producerVars, op, result, dequeueOk, delivered>>
  BY DEF DequeueLoadTail
<1> QED BY <1>1, FrontTailLooked

LEMMA DequeueRecheckStep ==
    ASSUME Sized, RWQInv, DequeueRecheck
    PROVE  RWQInv' /\ Keeps
<1>1. /\ block' = [block EXCEPT ![frontBlock].localTail = FrontBlock.tail]
      /\ dequeuePc = "recheck" /\ dequeuePc' = (IF FrontBlock.front # FrontBlock.tail
                                                THEN "read" ELSE "loadNext")
      /\ UNCHANGED <<config, frontBlock, tailBlock, largestBlockSize,
                     producerVars, op, result, dequeueOk, delivered>>
  BY DEF DequeueRecheck
<1> QED BY <1>1, FrontTailLooked

\* The first slot is given back to the producer.
Freed(b) == [b EXCEPT !.front = After(b, b.front)]

LEMMA FreedBlock ==
    ASSUME NEW b, BlockOK(b), b.tail # b.front, b.localTail # b.front, Seen(b) <= Used(b)
    PROVE  /\ BlockOK(Freed(b)) /\ Freed(b).tail = b.tail /\ Freed(b).size = b.size
           /\ Freed(b).data = b.data /\ Freed(b).next = b.next
           /\ Freed(b).localTail = b.localTail /\ Freed(b).localFront = b.localFront
           /\ Used(Freed(b)) = Used(b) - 1 /\ Used(b) \in Nat /\ Used(b) >= 1
           /\ BlockItems(Freed(b)) = Tail(BlockItems(b))
           /\ \A k \in 1 .. Used(b) - 1 : BlockItems(Freed(b))[k] = BlockItems(b)[k + 1]
           /\ Seen(Freed(b)) <= Used(Freed(b))
<1> DEFINE v == After(b, b.front)
           r == Freed(b)
<1>1. /\ b.size \in Nat /\ b.size >= 2 /\ b.front \in 0 .. b.size - 1
      /\ b.localTail \in 0 .. b.size - 1
  BY BlockFields DEF BlockOK
<1>2. v \in 0 .. b.size - 1
  <2>1. \A n, i \in Nat : n >= 2 => (i + 1) % n \in 0 .. n - 1
    OBVIOUS
  <2> QED BY <1>1, <2>1 DEF After
<1> HIDE DEF v
<1>3. r = [b EXCEPT !.front = v]
  BY DEF Freed, v
<1> HIDE DEF r
<1>4. /\ BlockOK(r) /\ r.front = v /\ r.tail = b.tail /\ r.size = b.size
      /\ r.data = b.data /\ r.next = b.next
      /\ r.localTail = b.localTail /\ r.localFront = b.localFront
  BY <1>2, <1>3, WithFront
<1>5. r.front = After(b, b.front)
  BY <1>4 DEF v
<1>6. /\ Used(r) = Used(b) - 1 /\ BlockItems(r) = Tail(BlockItems(b))
      /\ \A k \in 1 .. Used(b) - 1 : BlockItems(r)[k] = BlockItems(b)[k + 1]
  BY <1>4, <1>5, ItemsPop
<1>7. Used(b) \in Nat /\ Used(b) >= 1
  BY FirstItem, ItemsOfBlock
<1>8. Seen(r) <= Used(r)
  <2>1. Seen(r) = Ahead(b.size, b.localTail, (b.front + 1) % b.size)
    BY <1>4, <1>5 DEF Seen, After
  <2>2. /\ Ahead(b.size, b.localTail, (b.front + 1) % b.size)
             = Ahead(b.size, b.localTail, b.front) - 1
        /\ Ahead(b.size, b.localTail, b.front) \in 0 .. b.size - 1
    <3>1. PICK n : n = b.size
      OBVIOUS
    <3>2. PICK t : t = b.localTail
      OBVIOUS
    <3>3. PICK i : i = b.front
      OBVIOUS
    <3>4. n \in Nat /\ n >= 2 /\ t \in 0 .. n - 1 /\ i \in 0 .. n - 1 /\ t # i
      BY <1>1, <3>1, <3>2, <3>3
    <3>5. Ahead(n, t, (i + 1) % n) = Ahead(n, t, i) - 1 /\ Ahead(n, t, i) \in 0 .. n - 1
      BY <3>4, AheadFacts
    <3> QED BY <3>1, <3>2, <3>3, <3>5
  <2>3. Seen(r) = Seen(b) - 1 /\ Seen(b) \in Nat
    BY <1>1, <2>1, <2>2 DEF Seen
  <2> QED BY <1>6, <1>7, <2>3
<1> QED BY <1>4, <1>6, <1>7, <1>8 DEF r

LEMMA DequeuePublishFrontStep ==
    ASSUME Sized, RWQInv, DequeuePublishFront
    PROVE  RWQInv' /\ Keeps
<1>1. PICK pos : Placed(pos)
  BY DEF RWQInv
<1>0. /\ dequeuePc = "publishFront" /\ dequeuePc' = "idle" /\ dequeueOk' = TRUE
      /\ block' = [block EXCEPT ![frontBlock].front = After(FrontBlock, @)]
      /\ UNCHANGED <<config, frontBlock, tailBlock, largestBlockSize, op, result, delivered>>
      /\ UNCHANGED <<enqueuePc, canAlloc, element, enqueueOk, lengthSeen>>
  BY DEF DequeuePublishFront, producerVars
<1> DEFINE f == frontBlock
           r == Freed(block[f])
<1>2. /\ RWQTypeOK /\ Ring(pos) /\ f \in Blocks /\ f \in 1 .. CircleSize
      /\ tailBlock \in Blocks /\ NextOfTail \in Blocks /\ Len(block) \in Nat
      /\ BlockOK(block[f]) /\ FrontBlock = block[f] /\ block[f].tail # block[f].front
      /\ block[f].localTail # block[f].front /\ Seen(block[f]) <= Used(block[f])
      /\ BlockArray(block) /\ op = "remove"
  <2>1. RWQTypeOK /\ Ring(pos)
    BY <1>1, TypeFacts DEF Placed
  <2>2. BlockOK(FrontBlock) /\ FrontBlock.tail # FrontBlock.front
    BY <1>0, <1>1, FrontHasItems
  <2>3. /\ FrontBlock.localTail # FrontBlock.front /\ Seen(FrontBlock) <= Used(FrontBlock)
        /\ op = "remove"
    BY <1>0, TypeFacts DEF ConsumerKnows
  <2> QED BY <2>1, <2>2, <2>3, Positions, TypeFacts DEF FrontBlock
<1>3. /\ BlockOK(r) /\ r.tail = block[f].tail /\ r.size = block[f].size
      /\ r.data = block[f].data /\ r.next = block[f].next
      /\ r.localTail = block[f].localTail /\ r.localFront = block[f].localFront
      /\ Used(r) = Used(block[f]) - 1 /\ Used(block[f]) \in Nat /\ Used(block[f]) >= 1
      /\ BlockItems(r) = Tail(BlockItems(block[f]))
      /\ \A k \in 1 .. Used(block[f]) - 1 : BlockItems(r)[k] = BlockItems(block[f])[k + 1]
      /\ Seen(r) <= Used(r)
  BY <1>2, FreedBlock
<1>4. block' = Put(block, f, r)
  BY <1>0, <1>2 DEF Put, Freed
<1> HIDE DEF r
<1>5. /\ BlockArray(block') /\ Len(block') = Len(block) /\ block'[f] = r
      /\ \A b \in 1 .. Len(block) : b # f => block'[b] = block[b]
  BY <1>2, <1>3, <1>4, BlockPut
<1>6. \A b \in Blocks : /\ block'[b].next = block[b].next /\ block'[b].size = block[b].size
                        /\ block'[b].tail = block[b].tail /\ block'[b].data = block[b].data
                        /\ block'[b].localTail = block[b].localTail
                        /\ block'[b].localFront = block[b].localFront
                        /\ b # f => block'[b] = block[b]
  BY <1>3, <1>5 DEF Blocks
<1>7. /\ CircleSize' = CircleSize /\ Blocks' = Blocks /\ frontBlock' = f
      /\ enqueuePc' = enqueuePc /\ element' = element /\ tailBlock' = tailBlock
      /\ NextOfTail' = NextOfTail
  BY <1>0, <1>2, <1>5, <1>6 DEF CircleSize, Blocks, NextOfTail, TailBlock
<1>8. Objects'
  <2>1. ASSUME NEW b \in Blocks, NEW k \in 1 .. Used(block'[b])
        PROVE  BlockItems(block'[b])[k] # NoData
    <3>1. CASE b = f
      <4>1. k \in 1 .. Used(block[f]) - 1 /\ k + 1 \in 1 .. Used(block[f]) /\ k + 1 # 1
        BY <1>3, <1>5, <3>1
      <4>2. BlockItems(block[f])[k + 1] # NoData
        BY <1>1, <1>2, <4>1 DEF Placed, Objects
      <4> QED BY <1>3, <1>5, <3>1, <4>1, <4>2
    <3>2. CASE b # f
      BY <1>1, <1>6, <3>2 DEF Placed, Objects
    <3> QED BY <3>1, <3>2
  <2> QED BY <1>7, <2>1 DEF Objects
<1>9. Placed(pos)'
  <2>1. (Ring(pos) /\ BeyondFront(pos) /\ BehindTail(pos) /\ TailFilled)'
    BY <1>1, <1>5, <1>6, <1>7, RestPlaced
  <2> QED BY <1>8, <2>1 DEF Placed
<1>10. Items' = Items
  <2> DEFINE B == block
             C == block'
             tl == tailBlock
  <2>2. /\ RingOf(pos, B, tl, CircleSize) /\ RingOf(pos, C, tl, CircleSize) /\ Len(C) = Len(B)
        /\ BlocksOK(B) /\ BlocksOK(C) /\ f \in 1 .. Len(B)
        /\ \A b \in 1 .. Len(B) : /\ b # f => BlockItems(C[b]) = BlockItems(B[b])
                                  /\ b # tl => C[b].next = B[b].next
    BY <1>2, <1>5, <1>6, <1>7, <1>9 DEF Placed, Ring, BlockArray, Blocks
  <2> HIDE DEF B, C, tl, f
  <2>3. PICK rest \in Seq(Values) :
            /\ ContentsOf(B, f, tl) = Cat(BlockItems(B[f]), rest)
            /\ ContentsOf(C, f, tl) = Cat(BlockItems(C[f]), rest)
    <3>1. AlikeBut(f, B, C, pos, tl, CircleSize)
      BY <2>2 DEF AlikeBut
    <3> QED BY <3>1, SameAfterFront
  <2> DEFINE s == BlockItems(B[f])
  <2>4. /\ s \in Seq(Values) /\ Len(s) >= 1 /\ BlockItems(C[f]) = Tail(s)
    <3>1. BlockItems(block[f]) \in Seq(Values) /\ Len(BlockItems(block[f])) = Used(block[f])
      BY <1>2, ItemsOfBlock
    <3> QED BY <1>3, <1>5, <3>1 DEF B, C
  <2> HIDE DEF s
  <2>5. Tail(Cat(s, rest)) = Cat(Tail(s), rest)
    BY <2>4, CatPop
  <2>6. Contents = Cat(s, rest) /\ Contents' = Cat(Tail(s), rest)
    <3>1. Contents = ContentsOf(B, f, tl)
      BY ContentsAre DEF B, f, tl
    <3>2. Contents' = ContentsOf(C, f, tl)
      BY <1>7, ContentsArePrimed DEF C, tl, f
    <3> QED BY <2>3, <2>4, <3>1, <3>2 DEF s
  <2>7. Items = Tail(Contents) /\ Items' = Contents'
    BY <1>0 DEF Items
  <2> QED BY <2>5, <2>6, <2>7
<1>11. RWQTypeOK'
  BY <1>0, <1>2, <1>5, <1>7 DEF RWQTypeOK
<1>12. SizesOK'
  BY <1>0, <1>5, <1>6, SizesKept, TypeFacts
<1>13. ProducerKnows' /\ NewIsFilled'
  <2>1. ProducerKnows /\ NewIsFilled
    BY TypeFacts
  <2>2. ASSUME NEW b \in Blocks
        PROVE  /\ Gap(block'[b], block'[b].localFront) = Gap(block[b], block[b].localFront)
               /\ After(block'[b], block'[b].tail) = After(block[b], block[b].tail)
               /\ Used(block'[b]) <= Used(block[b])
               /\ Used(block'[b]) \in Nat /\ Used(block[b]) \in Nat
               /\ Gap(block[b], block[b].localFront) \in Nat
    <3>1. BlockOK(block[b]) /\ BlockOK(block'[b]) /\ block[b].localFront \in 0 .. block[b].size - 1
      BY <1>2, <1>5, ArrayFacts, BlockFields DEF Blocks
    <3>2. Used(block'[b]) \in Nat /\ Used(block[b]) \in Nat
      BY <3>1, ItemsOfBlock
    <3>3. Gap(block[b], block[b].localFront) \in Nat
      <4>1. block[b].size \in Nat
        BY <3>1, BlockFields
      <4>2. Gap(block[b], block[b].localFront) \in 0 .. block[b].size - 1
        BY <3>1, GapFacts
      <4> QED BY <4>1, <4>2
    <3>4. Used(block'[b]) <= Used(block[b])
      <4>1. CASE b = f
        BY <1>3, <1>5, <4>1
      <4>2. CASE b # f
        BY <1>6, <3>2, <4>2
      <4> QED BY <4>1, <4>2
    <3> QED BY <1>6, <3>2, <3>3, <3>4 DEF Gap, After
  <2> DEFINE x == NextOfTail
             t == tailBlock
  <2>3. x \in Blocks /\ t \in Blocks /\ NextOfTail = x
    BY <1>2
  <2> HIDE DEF x, t
  <2>4. /\ block'[x].localFront = block[x].localFront
        /\ x # f => block'[x].front = block[x].front
        /\ block'[x].data[block'[x].tail] = block[x].data[block[x].tail]
        /\ block'[t].localFront = block[t].localFront
        /\ t # f => block'[t].front = block[t].front
        /\ block'[t].data[block'[t].tail] = block[t].data[block[t].tail]
        /\ Gap(block'[t], block'[t].localFront) >= Used(block[t])
           => Gap(block'[t], block'[t].localFront) >= Used(block'[t])
        /\ Gap(block'[t], block'[t].localFront) = Gap(block[t], block[t].localFront)
        /\ After(block'[t], block'[t].tail) = After(block[t], block[t].tail)
    BY <1>6, <2>2, <2>3
  <2>5. ProducerKnows'
    <3>1. TailBlock' = block'[t] /\ TailBlock = block[t] /\ tailBlock = t /\ tailBlock' = t
          /\ NextOfTail' = x
      BY <1>7, <2>3 DEF t, TailBlock
    <3>2. frontBlock' = frontBlock /\ frontBlock = f
      BY <1>7
    <3> HIDE DEF f, TailBlock, NextOfTail
    <3> QED BY <1>7, <2>1, <2>3, <2>4, <3>1, <3>2 DEF ProducerKnows, MovesOn, TailFull
  <2>6. NewIsFilled'
    <3>1. ASSUME enqueuePc = "link" PROVE block'[Len(block)] = block[Len(block)]
      <4>1. f \in 1 .. Len(block) - 1
        BY <1>2, <3>1 DEF CircleSize
      <4>2. Len(block) # f /\ Len(block) \in 1 .. Len(block)
        BY <1>2, <4>1
      <4> QED BY <1>5, <4>2
    <3> QED BY <1>5, <1>7, <2>1, <3>1 DEF NewIsFilled
  <2> QED BY <2>5, <2>6
<1>14. ConsumerKnows'
  <2>1. FrontBlock' = r
    BY <1>5, <1>7 DEF FrontBlock
  <2> HIDE DEF FrontBlock
  <2> QED BY <1>0, <1>3, <2>1 DEF ConsumerKnows
<1>15. RoomSeen'
  BY <1>0, <1>5, TypeFacts, RoomSeenKept DEF RoomVars
<1>16. PeekFound'
  BY <1>0, <1>2 DEF PeekFound
<1> QED BY <1>0, <1>9, <1>10, <1>11, <1>12, <1>13, <1>14, <1>15, <1>16 DEF RWQInv, Keeps

-----------------------------------------------------------------------------
(***************************************************************************)
(* The constructor.                                                        *)
(***************************************************************************)
\* Where the blocks of the constructor are: each before the next, the first last.
FirstPositions(n) == [b \in 1 .. n |-> IF b = 1 THEN 0 ELSE n + 1 - b]

LEMMA NextAround ==
    ASSUME NEW n \in Nat, n >= 1, NEW b \in 1 .. n
    PROVE  1 + (b % n) = IF b = n THEN 1 ELSE b + 1
<1>1. CASE b = n
  <2>1. \A k \in Nat : k >= 1 => k % k = 0
    OBVIOUS
  <2> QED BY <1>1, <2>1
<1>2. CASE b # n
  <2>1. \A i, k \in Nat : i < k => i % k = i
    OBVIOUS
  <2>2. b \in Nat /\ b < n
    BY <1>2
  <2>3. b % n = b
    BY <2>1, <2>2
  <2> QED BY <1>2, <2>2, <2>3
<1> QED BY <1>1, <1>2

LEMMA FirstRing ==
    ASSUME NEW n \in Nat, n >= 1, NEW B, Len(B) = n,
           \A b \in 1 .. n : B[b].next = IF b = n THEN 1 ELSE b + 1
    PROVE  RingOf(FirstPositions(n), B, 1, n)
<1> DEFINE pos == FirstPositions(n)
<1>1. \A b \in 1 .. n : pos[b] = (IF b = 1 THEN 0 ELSE n + 1 - b) /\ pos[b] \in Nat
  BY DEF FirstPositions
<1>2. pos \in [1 .. n -> Nat]
  BY DEF FirstPositions
<1>3. \A b \in 1 .. n : B[b].next = IF b = n THEN 1 ELSE b + 1
  OBVIOUS
<1> HIDE DEF pos
<1>4. 1 \in 1 .. n /\ pos[1] = 0
  BY <1>1
<1>5. \A b \in 1 .. n : B[b].next \in 1 .. n
  BY <1>3
<1>6. ASSUME NEW b \in 1 .. n, b # 1 PROVE pos[b] = pos[B[b].next] + 1
  <2>1. CASE b = n
    <3>1. pos[b] = n + 1 - b /\ n + 1 - b = 1
      BY <1>1, <1>6, <2>1
    <3>2. B[b].next = 1
      BY <1>3, <2>1
    <3>3. pos[b] = 1 /\ pos[B[b].next] = 0
      BY <1>4, <3>1, <3>2
    <3> QED BY <3>3
  <2>2. CASE b # n
    <3>0. b \in Nat /\ b + 1 \in 1 .. n /\ b + 1 # 1
      BY <2>2
    <3>1. B[b].next = b + 1
      BY <1>3, <2>2
    <3>2. pos[b] = n + 1 - b /\ pos[b + 1] = n + 1 - (b + 1)
      BY <1>1, <1>6, <3>0
    <3> QED BY <3>0, <3>1, <3>2
  <2> QED BY <2>1, <2>2
<1>7. ASSUME NEW b \in 1 .. n, NEW c \in 1 .. n, pos[b] = pos[c] PROVE b = c
  <2>1. /\ pos[b] = (IF b = 1 THEN 0 ELSE n + 1 - b)
        /\ pos[c] = (IF c = 1 THEN 0 ELSE n + 1 - c)
    BY <1>1
  <2>2. b \in Nat /\ c \in Nat /\ b <= n /\ c <= n
    OBVIOUS
  <2>3. CASE b = 1 /\ c = 1
    BY <2>3
  <2>4. CASE b # 1 /\ c # 1
    <3>1. n + 1 - b = n + 1 - c
      BY <1>7, <2>1, <2>4
    <3> QED BY <2>2, <3>1
  <2>5. CASE b = 1 /\ c # 1
    <3>1. 0 = n + 1 - c
      BY <1>7, <2>1, <2>5
    <3> QED BY <2>2, <3>1
  <2>6. CASE b # 1 /\ c = 1
    <3>1. n + 1 - b = 0
      BY <1>7, <2>1, <2>6
    <3> QED BY <2>2, <3>1
  <2> QED BY <2>3, <2>4, <2>5, <2>6
<1>8. ASSUME NEW b \in 1 .. n PROVE pos[b] <= n - 1
  <2>1. pos[b] = (IF b = 1 THEN 0 ELSE n + 1 - b)
    BY <1>1
  <2>2. b \in Nat /\ b >= 1
    OBVIOUS
  <2> QED BY <2>1, <2>2
<1>9. pos[B[1].next] = n - 1
  <2>1. CASE n = 1
    BY <1>3, <1>4, <2>1
  <2>2. CASE n # 1
    <3>1. B[1].next = 2 /\ 2 \in 1 .. n
      BY <1>3, <2>2
    <3> QED BY <1>1, <3>1
  <2> QED BY <2>1, <2>2
<1>10. /\ Len(B) \in Nat /\ n \in 1 .. Len(B) /\ 1 \in 1 .. n
       /\ \A b \in 1 .. Len(B) : B[b].next \in 1 .. n
       /\ pos \in [1 .. Len(B) -> Nat] /\ pos[1] = 0
  BY <1>2, <1>4, <1>5
<1>11. \A b \in 1 .. Len(B) : b # 1 => pos[b] = pos[B[b].next] + 1
  BY <1>6
<1> QED BY <1>7, <1>8, <1>9, <1>10, <1>11 DEF RingOf, pos

FirstBlocksOf(n, s) == [b \in 1 .. n |-> Block(s, 1 + (b % n))]

AllUnused(B, n, s) ==
    /\ BlockArray(B) /\ Len(B) = n
    /\ \A b \in 1 .. n :
           /\ BlockOK(B[b]) /\ B[b].size = s /\ B[b].next = 1 + (b % n)
           /\ B[b].front = 0 /\ B[b].tail = 0 /\ B[b].localTail = 0
           /\ B[b].localFront = 0 /\ Used(B[b]) = 0 /\ Seen(B[b]) = 0

LEMMA FirstBlocks ==
    ASSUME NEW n \in Nat, n >= 1, NEW s \in Nat, s >= 2
    PROVE  AllUnused(FirstBlocksOf(n, s), n, s)
<1> DEFINE B == FirstBlocksOf(n, s)
<1>1. ASSUME NEW b \in 1 .. n
      PROVE  /\ BlockOK(B[b]) /\ B[b].size = s /\ B[b].next = 1 + (b % n)
             /\ B[b].front = 0 /\ B[b].tail = 0 /\ B[b].localTail = 0
             /\ B[b].localFront = 0
  <2>1. PICK k : k = 1 + (b % n)
    OBVIOUS
  <2>2. k \in Nat
    BY <2>1, NextAround
  <2>3. B[b] = Block(s, k)
    BY <2>1 DEF FirstBlocksOf
  <2> QED BY <2>1, <2>2, <2>3, NewBlock
<1>2. ASSUME NEW b \in 1 .. n PROVE Used(B[b]) = 0 /\ Seen(B[b]) = 0
  <2>1. Used(B[b]) = Ahead(s, 0, 0) /\ Seen(B[b]) = Ahead(s, 0, 0)
    BY <1>1 DEF Used, Gap, Seen
  <2>2. 0 \in 0 .. s - 1
    OBVIOUS
  <2>3. Ahead(s, 0, 0) = 0
    BY <2>2, AheadFacts
  <2> QED BY <2>1, <2>3
<1> DEFINE e(b) == Block(s, 1 + (b % n))
<1>3. \A b \in 1 .. n : e(b) \in BlockRecords
  BY <1>1 DEF BlockOK, FirstBlocksOf
<1>4. B = [b \in 1 .. n |-> e(b)]
  BY DEF FirstBlocksOf
<1> HIDE DEF e
<1>5. [b \in 1 .. n |-> e(b)] \in Seq(BlockRecords) /\ Len([b \in 1 .. n |-> e(b)]) = n
  BY <1>3, IsASeq
<1>6. B \in Seq(BlockRecords) /\ Len(B) = n
  BY <1>4, <1>5
<1>7. BlockArray(B)
  BY <1>1, <1>6 DEF BlockArray, BlocksOK
<1> HIDE DEF B
<1>8. AllUnused(B, n, s)
  BY <1>1, <1>2, <1>6, <1>7 DEF AllUnused
<1> QED BY <1>8 DEF B

LEMMA RWQInitInv ==
    ASSUME Sized, RWQInit
    PROVE  RWQInv /\ Items = <<>>
<1> DEFINE n == InitialBlockCount(config)
           s == FirstSize
           pos == FirstPositions(n)
<1>0. /\ config \in Configs /\ frontBlock = 1 /\ tailBlock = 1 /\ enqueuePc = "idle"
      /\ canAlloc = FALSE /\ element = 0 /\ enqueueOk = TRUE /\ dequeuePc = "idle"
      /\ op = "remove" /\ dequeueOk = TRUE /\ lengthSeen = 0 /\ largestBlockSize = s
      /\ block = FirstBlocksOf(n, s)
  BY DEF RWQInit, FirstSize, FirstBlocksOf
<1>1. /\ n \in Nat /\ n >= 1 /\ s \in Nat /\ s >= 2 /\ s \in Powers
      /\ LastSize \in Nat /\ LastSize >= s
      /\ config.blocksLeft \in Nat /\ config.serials \in Nat /\ config.serials >= 1
  BY <1>0, ConfigFacts, SizeFacts
<1> HIDE DEF n, s
<1>2. /\ BlockArray(block) /\ Len(block) = n
      /\ \A b \in 1 .. n :
             /\ BlockOK(block[b]) /\ block[b].size = s /\ block[b].next = 1 + (b % n)
             /\ block[b].front = 0 /\ block[b].tail = 0 /\ block[b].localTail = 0
             /\ block[b].localFront = 0 /\ Used(block[b]) = 0 /\ Seen(block[b]) = 0
  <2>1. AllUnused(block, n, s)
    BY <1>0, <1>1, FirstBlocks
  <2> QED BY <2>1 DEF AllUnused
<1>3. CircleSize = n /\ Blocks = 1 .. n /\ 1 \in 1 .. n
  BY <1>0, <1>1, <1>2 DEF CircleSize, Blocks
<1>4. TailBlock = block[1] /\ FrontBlock = block[1]
  BY <1>0 DEF TailBlock, FrontBlock
<1>5. RingOf(pos, block, tailBlock, CircleSize)
  <2>1. \A b \in 1 .. n : block[b].next = IF b = n THEN 1 ELSE b + 1
    BY <1>1, <1>2, NextAround
  <2> QED BY <1>0, <1>1, <1>2, <1>3, <2>1, FirstRing
<1>6. \A b \in 1 .. n : pos[b] \in Nat
  BY <1>2, <1>5 DEF RingOf
<1> HIDE DEF pos
<1>7. Placed(pos)
  <2>1. Ring(pos)
    BY <1>5 DEF Ring
  <2>2. BeyondFront(pos)
    BY <1>0, <1>2, <1>3 DEF BeyondFront
  <2>3. BehindTail(pos)
    <3>1. pos[1] = 0
      BY <1>0, <1>5 DEF RingOf
    <3> QED BY <1>0, <1>3, <1>6, <3>1 DEF BehindTail
  <2>4. TailFilled
    BY <1>0 DEF TailFilled
  <2>5. Objects
    BY <1>2, <1>3 DEF Objects
  <2> QED BY <2>1, <2>2, <2>3, <2>4, <2>5 DEF Placed
<1>8. RWQTypeOK
  <2>1. element \in 0 .. config.serials - 1 /\ frontBlock \in 1 .. CircleSize
    BY <1>0, <1>1, <1>3
  <2> QED BY <1>0, <1>2, <2>1 DEF RWQTypeOK
<1>9. SizesOK
  BY <1>0, <1>1, <1>2, <1>3 DEF SizesOK, n, s
<1>10. ProducerKnows /\ NewIsFilled
  <2>1. Gap(TailBlock, TailBlock.localFront) = Used(TailBlock)
    BY <1>2, <1>3, <1>4 DEF Used
  <2>2. Used(TailBlock) = 0
    BY <1>2, <1>3, <1>4
  <2> HIDE DEF TailBlock
  <2> QED BY <1>0, <2>1, <2>2 DEF ProducerKnows, MovesOn, NewIsFilled
<1>11. ConsumerKnows
  <2>1. Used(FrontBlock) = 0 /\ Seen(FrontBlock) = 0
    BY <1>2, <1>3, <1>4
  <2> HIDE DEF FrontBlock
  <2> QED BY <1>0, <2>1 DEF ConsumerKnows
<1>12. RoomSeen /\ PeekFound
  BY <1>0 DEF RoomSeen, RoomForSize, PeekFound
<1>13. Items = <<>>
  <2>0. PICK f : /\ IsChain(f, block, tailBlock)
                 /\ ContentsOf(block, frontBlock, tailBlock) = f[frontBlock]
    BY <1>5, ContentsChain
  <2>1. IsChain(f, block, 1) /\ ContentsOf(block, 1, 1) = f[1]
    BY <1>0, <2>0
  <2>2. f[1] = BlockItems(block[1])
    <3>1. 1 \in 1 .. Len(block)
      BY <1>2, <1>3
    <3> QED BY <2>1, <3>1, ChainAt
  <2>3. BlockItems(block[1]) \in Seq(Values) /\ Len(BlockItems(block[1])) = 0
    BY <1>2, <1>3, ItemsOfBlock
  <2>4. BlockItems(block[1]) = <<>>
    BY <2>3, EmptySeq
  <2> QED BY <1>0, <2>1, <2>2, <2>4, ContentsAre DEF Items
<1> QED BY <1>7, <1>8, <1>9, <1>10, <1>11, <1>12, <1>13 DEF RWQInv

LEMMA RWQStays ==
    ASSUME RWQInv, UNCHANGED rwqVars
    PROVE  RWQInv' /\ Keeps
<1>0. /\ UNCHANGED <<config, block, frontBlock, tailBlock, largestBlockSize>>
      /\ UNCHANGED <<enqueuePc, canAlloc, element, enqueueOk, lengthSeen>>
      /\ UNCHANGED <<dequeuePc, op, result, dequeueOk, delivered>>
  BY DEF rwqVars, producerVars, consumerVars
<1>1. PICK pos : Placed(pos)
  BY DEF RWQInv
<1>2. Placed(pos)' /\ Items' = Items /\ CircleSize' = CircleSize
  BY <1>0, <1>1, NothingMoved
<1>3. RWQTypeOK'
  BY <1>0, <1>2, TypeFacts DEF RWQTypeOK
<1>4. SizesOK'
  BY <1>0, TypeFacts DEF SizesOK, Blocks, FirstSize, LastSize
<1>5. ProducerKnows' /\ NewIsFilled'
  BY <1>0, TypeFacts DEF ProducerKnows, MovesOn, TailFull, NewIsFilled, TailBlock, NextOfTail
<1>6. ConsumerKnows'
  BY <1>0, TypeFacts DEF ConsumerKnows, FrontBlock, NextOfFront
<1>7. RoomSeen'
  BY <1>0, TypeFacts DEF RoomSeen, RoomForSize
<1>8. PeekFound'
  BY <1>0, <1>2, TypeFacts DEF PeekFound
<1> QED BY <1>0, <1>2, <1>3, <1>4, <1>5, <1>6, <1>7, <1>8 DEF RWQInv, Keeps

LEMMA CapacityIs ==
    ASSUME Sized, config \in Configs
    PROVE  /\ CapacityLimit \in Nat
           /\ CapacityLimit = (FirstSize - 1) * InitialBlockCount(config)
                                  + (LastSize - 1) * config.blocksLeft
<1> DEFINE a == FirstSize - 1
           c == LastSize - 1
           n == InitialBlockCount(config)
           k == config.blocksLeft
<1>1. a \in Nat /\ c \in Nat /\ n \in Nat /\ k \in Nat
  BY SizeFacts, ConfigFacts
<1>2. CapacityLimit = n * a + k * c
  BY DEF CapacityLimit, FirstSize, LastSize
<1> HIDE DEF a, c, n, k
<1>3. n * a = a * n /\ k * c = c * k /\ a * n \in Nat /\ c * k \in Nat
  BY <1>1, Times
<1> DEFINE p == a * n
           q == c * k
<1>4. p \in Nat /\ q \in Nat /\ CapacityLimit = p + q
  BY <1>2, <1>3
<1> HIDE DEF p, q
<1>5. CapacityLimit \in Nat
  BY <1>4
<1> QED BY <1>4, <1>5 DEF p, q, a, c, n, k

\* The blocks that malloc gave bound what is inside.
LEMMA ItemsFit ==
    ASSUME Sized, RWQInv
    PROVE  Len(Items) <= CapacityLimit
<1>1. PICK pos : Placed(pos)
  BY DEF RWQInv
<1> DEFINE A == FirstSize - 1
           C == LastSize - 1
           F == InitialBlockCount(config)
           k == Len(block) - F
           m == config.blocksLeft
<1>2. /\ config \in Configs /\ SizesOK /\ BlockArray(block) /\ frontBlock \in 1 .. CircleSize
  BY TypeFacts DEF RWQTypeOK
<1>3. /\ A \in Nat /\ C \in Nat /\ F \in Nat /\ F >= 1 /\ m \in Nat
      /\ k \in Nat /\ k <= m /\ F \in 1 .. Len(block)
      /\ FirstSize \in Nat /\ LastSize \in Nat
  BY <1>2, SizeFacts, ConfigFacts, TypeFacts DEF SizesOK
<1>4. ASSUME NEW b \in 1 .. Len(block)
      PROVE  Used(block[b]) <= (IF b <= F THEN A ELSE C)
  <2>1. /\ block[b].size <= LastSize
        /\ b <= F => block[b].size = FirstSize
    BY <1>2 DEF SizesOK, Blocks
  <2>2. BlockOK(block[b])
    BY <1>2, ArrayFacts
  <2>3. Used(block[b]) \in 0 .. block[b].size - 1 /\ block[b].size \in Nat
    BY <2>2, ItemsOfBlock, BlockFields
  <2> QED BY <1>3, <2>1, <2>3
<1>5. CapacityLimit = A * F + C * m
  BY <1>2, CapacityIs
<1> HIDE DEF A, C, F, k, m
<1>6. Len(ContentsOf(block, frontBlock, tailBlock)) <= A * F + C * (Len(block) - F)
  <2>1. RingOf(pos, block, tailBlock, CircleSize) /\ BlocksOK(block)
    BY <1>1, <1>2 DEF Placed, Ring, BlockArray
  <2> QED BY <1>2, <1>3, <1>4, <2>1, ContentsAtMost
<1>7. C * k <= C * m /\ C * k \in Nat /\ C * m \in Nat /\ A * F \in Nat
  BY <1>3, Times
<1>8. Len(Contents) <= A * F + C * k
  BY <1>6, ContentsAre DEF k
<1> DEFINE p == A * F
           q == C * k
           r == C * m
<1>9. p \in Nat /\ q \in Nat /\ r \in Nat /\ q <= r /\ Len(Contents) <= p + q
      /\ CapacityLimit = p + r
  BY <1>5, <1>7, <1>8
<1> HIDE DEF p, q, r
<1>10. Len(Items) \in Nat /\ Len(Items) <= Len(Contents) /\ Len(Contents) \in Nat
  BY ItemsTyped
<1> QED BY <1>9, <1>10

-----------------------------------------------------------------------------
(***************************************************************************)
(* Every step of the queue, used on its own or with the semaphore.         *)
(***************************************************************************)
Effect == Keeps \/ Adds \/ Removes

LEMMA EnqueueStepsKeep ==
    ASSUME Sized, RWQInv, EnqueueSteps
    PROVE  RWQInv' /\ Effect
<1>1. CASE EnqueueLoadFront
  BY <1>1, EnqueueLoadFrontStep DEF Effect
<1>2. CASE EnqueueConstruct
  BY <1>2, EnqueueConstructStep DEF Effect
<1>3. CASE EnqueuePublishTail
  BY <1>3, EnqueuePublishTailStep DEF Effect
<1>4. CASE EnqueueCheckNext
  BY <1>4, EnqueueCheckNextStep DEF Effect
<1>5. CASE EnqueueLoadNextFront
  BY <1>5, EnqueueLoadNextFrontStep DEF Effect
<1>6. CASE EnqueueConstructNext
  BY <1>6, EnqueueConstructNextStep DEF Effect
<1>7. CASE EnqueuePublishNextTail
  BY <1>7, EnqueuePublishNextTailStep DEF Effect
<1>8. CASE EnqueueAllocate
  BY <1>8, EnqueueAllocateStep DEF Effect
<1>9. CASE EnqueueLink
  BY <1>9, EnqueueLinkStep DEF Effect
<1>10. CASE EnqueuePublishTailBlock
  BY <1>10, EnqueuePublishTailBlockStep DEF Effect
<1> QED BY <1>1, <1>2, <1>3, <1>4, <1>5, <1>6, <1>7, <1>8, <1>9, <1>10 DEF EnqueueSteps

LEMMA DequeueStepsKeep ==
    ASSUME Sized, RWQInv, DequeueSteps
    PROVE  RWQInv' /\ Effect
<1>1. CASE DequeueLoadTail
  BY <1>1, DequeueLoadTailStep DEF Effect
<1>2. CASE DequeueLoadTailBlock
  BY <1>2, DequeueLoadTailBlockStep DEF Effect
<1>3. CASE DequeueRecheck
  BY <1>3, DequeueRecheckStep DEF Effect
<1>4. CASE DequeueLoadNext
  BY <1>4, DequeueLoadNextStep DEF Effect
<1>5. CASE DequeueAdvance
  BY <1>5, DequeueAdvanceStep DEF Effect
<1>6. CASE DequeueRead
  BY <1>6, DequeueReadStep DEF Effect
<1>7. CASE DequeuePublishFront
  BY <1>7, DequeuePublishFrontStep DEF Effect
<1> QED BY <1>1, <1>2, <1>3, <1>4, <1>5, <1>6, <1>7 DEF DequeueSteps

LEMMA RWQStepInv ==
    ASSUME Sized, RWQInv, [BlockingNext]_allVars
    PROVE  RWQInv' /\ Effect
<1>1. ASSUME NEW call \in config.calls \cap {"try_enqueue", "enqueue"},
             ProducerEnqueues(call = "enqueue")
      PROVE  RWQInv' /\ Effect
  <2>1. EnqueueBegin(call = "enqueue") /\ (call = "enqueue") \in BOOLEAN
    BY <1>1 DEF ProducerEnqueues
  <2> QED BY <2>1, EnqueueBeginStep DEF Effect
<1>2. CASE ProducerSteps
  <2>1. EnqueueSteps \/ UNCHANGED rwqVars \/ EnqueueReturned
    BY <1>2 DEF ProducerSteps, ProducerEnqueued, ProducerSignalled
  <2> QED BY <2>1, EnqueueStepsKeep, RWQStays, EnqueueReturnedStep DEF Effect
<1>3. ASSUME NEW o \in config.calls \cap {"remove", "peek"}, ConsumerDequeues(o)
      PROVE  RWQInv' /\ Effect
  <2>1. DequeueBegin(o) /\ o \in {"remove", "peek"}
    BY <1>3 DEF ConsumerDequeues
  <2> QED BY <2>1, DequeueBeginStep DEF Effect
<1>4. ASSUME NEW t \in Timeouts, ConsumerWaits(t) PROVE RWQInv' /\ Effect
  <2>1. UNCHANGED rwqVars
    BY <1>4 DEF ConsumerWaits
  <2> QED BY <2>1, RWQStays DEF Effect
<1>5. CASE ConsumerSteps
  <2>1. DequeueSteps \/ UNCHANGED rwqVars \/ DequeueBegin(op) \/ DequeueReturned
    BY <1>5 DEF ConsumerSteps, ConsumerWaited, ConsumerDequeued
  <2>2. op \in {"remove", "peek"}
    BY TypeFacts DEF RWQTypeOK
  <2> QED BY <2>1, <2>2, DequeueStepsKeep, RWQStays, DequeueBeginStep, DequeueReturnedStep
          DEF Effect
<1>6. CASE UNCHANGED allVars
  <2>1. UNCHANGED rwqVars
    BY <1>6 DEF allVars
  <2> QED BY <2>1, RWQStays DEF Effect
<1> QED BY <1>1, <1>2, <1>3, <1>4, <1>5, <1>6 DEF BlockingNext

-----------------------------------------------------------------------------
(***************************************************************************)
(* What the invariant says.                                                *)
(***************************************************************************)
LEMMA AssertionsFollow ==
    ASSUME RWQInv
    PROVE  AssertionsHold
<1>1. PICK pos : Placed(pos)
  BY DEF RWQInv
<1>2. ASSUME enqueuePc = "constructNext"
      PROVE  block[NextOfTail].localFront = block[NextOfTail].tail
  <2>1. NextOfTail # frontBlock /\ block[NextOfTail].localFront = block[NextOfTail].front
    BY <1>2, TypeFacts DEF ProducerKnows
  <2>2. NextOfTail \in 1 .. CircleSize /\ pos[NextOfTail] > pos[frontBlock]
    <3>1. RWQTypeOK /\ Ring(pos)
      BY <1>1, TypeFacts DEF Placed
    <3> QED BY <2>1, <3>1, Positions
  <2>3. block[NextOfTail].tail = block[NextOfTail].front
    BY <1>1, <1>2, <2>2 DEF Placed, BeyondFront
  <2> QED BY <2>1, <2>3
<1>3. enqueuePc = "link" => block[Len(block)].front = 0
  BY TypeFacts DEF NewIsFilled
<1>4. dequeuePc = "loadNext" => block[NextOfFront].front # block[NextOfFront].tail
  <2> SUFFICES ASSUME dequeuePc = "loadNext"
               PROVE  block[NextOfFront].front # block[NextOfFront].tail
    OBVIOUS
  <2>1. dequeuePc \in {"loadNext", "advance"}
    OBVIOUS
  <2>2. block[NextOfFront].tail # block[NextOfFront].front
    BY <1>1, <2>1, NextHasItems
  <2> QED BY <2>2
<1>5. dequeuePc = "read" => FrontBlock.data[FrontBlock.front] # NoData
  BY <1>1, FrontObject
<1>6. dequeuePc = "idle" /\ op = "peek" /\ dequeueOk => result = Head(Items)
  BY TypeFacts DEF PeekFound
<1> QED BY <1>2, <1>3, <1>4, <1>5, <1>6 DEF AssertionsHold

LEMMA RoomFollows ==
    ASSUME RWQInv
    PROVE  RoomForSize
  BY DEF RWQInv, RoomSeen

LEMMA RWQInvariant ==
    ASSUME Sized
    PROVE  BlockingSpec => []RWQInv
<1>1. BlockingInit => RWQInv
  BY RWQInitInv DEF BlockingInit
<1>2. RWQInv /\ [BlockingNext]_allVars => RWQInv'
  BY RWQStepInv
<1> QED BY <1>1, <1>2, PTL DEF BlockingSpec

\* The assertions of inner_enqueue, try_dequeue, pop and peek hold in every
\* interleaving of the two threads, whatever the block size, the size asked for and
\* the blocks malloc gives (readerwriterqueue.h:351, 416, 467, 588, 618), for a queue
\* constructed for one element or more.
THEOREM AssertionsHoldAlways ==
    ASSUME Sized
    PROVE  BlockingSpec => []AssertionsHold
<1>1. RWQInv => AssertionsHold
  BY AssertionsFollow
<1> QED BY <1>1, RWQInvariant, PTL

\* An enqueue that fails, or has to allocate, saw the slots taken that the queue was
\* constructed for (readerwriterqueue.h:101-104, 116-123).
THEOREM RoomForSizeAlways ==
    ASSUME Sized
    PROVE  BlockingSpec => []RoomForSize
<1>1. RWQInv => RoomForSize
  BY RoomFollows
<1> QED BY <1>1, RWQInvariant, PTL

-----------------------------------------------------------------------------
(***************************************************************************)
(* The queue is a bounded FIFO.                                            *)
(***************************************************************************)
Fits == Len(Items) <= CapacityLimit

LEMMA FifoInit ==
    ASSUME Sized, RWQInit
    PROVE  Fifo!Init
<1>1. Items = <<>> /\ config \in Configs /\ delivered = NoData
  BY RWQInitInv DEF RWQInit
<1>2. CapacityLimit \in Nat
  BY <1>1, CapacityIs
<1> QED BY <1>1, <1>2 DEF Fifo!Init

LEMMA FifoStep ==
    ASSUME Sized, RWQInv, Fits', Effect
    PROVE  [Fifo!Next]_<<Items, delivered, CapacityLimit>>
<1>1. config' = config /\ config \in Configs
  BY TypeFacts DEF Effect, Keeps, Adds, Removes, RWQTypeOK
<1>2. CapacityLimit' = CapacityLimit
  BY <1>1 DEF CapacityLimit
<1>3. CapacityLimit \in Nat
  BY <1>1, CapacityIs
<1>4. CASE Keeps
  BY <1>2, <1>4 DEF Keeps
<1>5. CASE Adds
  <2>1. element \in UNION {0 .. c.serials : c \in Configs}
    <3>1. element \in 0 .. config.serials - 1 /\ config.serials \in Nat
      BY <1>1, <1>5, ConfigFacts DEF Adds
    <3>2. element \in 0 .. config.serials
      BY <3>1
    <3> QED BY <1>1, <3>2
  <2>2. Len(Items) < CapacityLimit
    <3>1. Items \in Seq(Values) /\ Len(Items) \in Nat /\ element \in Values
      BY ItemsTyped, ElementFacts
    <3>2. Items' = Add(Items, element)
      BY <1>5 DEF Adds, Add
    <3>3. Len(Add(Items, element)) = Len(Items) + 1
      BY <3>1, AddTyped
    <3>4. Len(Items) + 1 <= CapacityLimit
      BY <1>2, <3>2, <3>3 DEF Fits
    <3> QED BY <1>3, <3>1, <3>4
  <2>3. Items' = Append(Items, element) /\ delivered' = delivered
    BY <1>5 DEF Adds
  <2>4. Fifo!Enqueue(element)
    BY <1>2, <2>2, <2>3 DEF Fifo!Enqueue
  <2> QED BY <2>1, <2>4 DEF Fifo!Next
<1>6. CASE Removes
  <2>1. Fifo!Dequeue
    BY <1>2, <1>6 DEF Removes, Fifo!Dequeue
  <2> QED BY <2>1 DEF Fifo!Next
<1> QED BY <1>4, <1>5, <1>6 DEF Effect

\* What the consumer is given is what the producer enqueued, in that order, none twice
\* and none skipped, as both change blocks and new blocks are linked in between
\* (readerwriterqueue.h:298-306, 572-631); and no more is inside than the slots of the
\* blocks that malloc can give.
THEOREM RWQFifo ==
    ASSUME Sized
    PROVE  BlockingSpec => RWQImplementsFifo
<1>1. BlockingInit => Fifo!Init
  BY FifoInit DEF BlockingInit
<1>2. RWQInv => Fits
  BY ItemsFit DEF Fits
<1>3. RWQInv /\ Fits' /\ [BlockingNext]_allVars => [Fifo!Next]_<<Items, delivered, CapacityLimit>>
  BY RWQStepInv, FifoStep
<1> QED BY <1>1, <1>2, <1>3, RWQInvariant, PTL
        DEF BlockingSpec, RWQImplementsFifo, Fifo!Spec, Fifo!vars

-----------------------------------------------------------------------------
(***************************************************************************)
(* LightweightSemaphore: the inductive invariant.                          *)
(***************************************************************************)
SemaTypeOK ==
    /\ count \in Int
    /\ sema \in Nat
    /\ waitPc \in {"idle", "tryLoad", "take", "spin", "commit", "sleep",
                   "timedSleep", "restore", "retake", "retry"}
    /\ timeout \in Timeouts
    /\ signalPc \in {"idle", "add", "post"}

\* Between a look at the count and the subtraction only a signal comes: the count
\* does not shrink.  A wait that committed or was called off had one way to go on.
WaiterKnows ==
    /\ waitPc \in {"take", "retake"} => count >= 1
    /\ waitPc = "retry" => count >= 0
    /\ waitPc \in {"spin", "commit"} => timeout # "try"

SemaInv == SemaTypeOK /\ WaiterKnows /\ UnitsMatch

\* What the queue does to the semaphore.
SemaNext ==
    \/ SignalBegin \/ SignalSteps
    \/ (\E t \in Timeouts : WaitBegin(t)) \/ WaitSteps \/ WaitReturned

LEMMA SemaInitInv == SemaInit => SemaInv
  BY DEF SemaInit, SemaInv, SemaTypeOK, WaiterKnows, UnitsMatch, Committed, Timeouts

LEMMA SignalInv ==
    ASSUME SemaInv, SignalBegin \/ SignalSteps
    PROVE  SemaInv'
<1>1. CASE SignalBegin
  BY <1>1 DEF SignalBegin, SemaInv, SemaTypeOK, WaiterKnows, UnitsMatch, Committed, waiterVars
<1>2. CASE SignalAdd
  BY <1>2 DEF SignalAdd, SemaInv, SemaTypeOK, WaiterKnows, UnitsMatch, Committed, waiterVars
<1>3. CASE SignalPost
  BY <1>3 DEF SignalPost, SemaInv, SemaTypeOK, WaiterKnows, UnitsMatch, Committed, waiterVars
<1> QED BY <1>1, <1>2, <1>3 DEF SignalSteps

LEMMA WaitInv ==
    ASSUME SemaInv, (\E t \in Timeouts : WaitBegin(t)) \/ WaitSteps \/ WaitReturned
    PROVE  SemaInv'
<1> USE DEF SemaInv, SemaTypeOK, WaiterKnows, UnitsMatch, Committed, WaitReturns, Timeouts
<1>1. ASSUME NEW t \in Timeouts, WaitBegin(t) PROVE SemaInv'
  BY <1>1 DEF WaitBegin
<1>2. CASE WaitReturned
  BY <1>2 DEF WaitReturned
<1>3. CASE WaitTryLoad
  BY <1>3 DEF WaitTryLoad
<1>4. CASE WaitTake
  BY <1>4 DEF WaitTake
<1>5. CASE WaitSpin
  BY <1>5 DEF WaitSpin
<1>6. CASE WaitCommit
  BY <1>6 DEF WaitCommit
<1>7. CASE WaitSleep
  BY <1>7 DEF WaitSleep
<1>8. CASE WaitTimesOut
  BY <1>8 DEF WaitTimesOut
<1>9. CASE WaitRestore
  BY <1>9 DEF WaitRestore
<1>10. CASE WaitRetake
  BY <1>10 DEF WaitRetake
<1>11. CASE WaitRetry
  BY <1>11 DEF WaitRetry
<1> QED BY <1>1, <1>2, <1>3, <1>4, <1>5, <1>6, <1>7, <1>8, <1>9, <1>10, <1>11 DEF WaitSteps

LEMMA SemaStepInv == SemaInv /\ [SemaNext]_semaVars => SemaInv'
<1> SUFFICES ASSUME SemaInv, [SemaNext]_semaVars PROVE SemaInv'
  OBVIOUS
<1>1. CASE UNCHANGED semaVars
  BY <1>1 DEF semaVars, waiterVars, SemaInv, SemaTypeOK, WaiterKnows, UnitsMatch, Committed
<1> QED BY <1>1, SignalInv, WaitInv DEF SemaNext

LEMMA EachSemaStep == [BlockingNext]_allVars => [SemaNext]_semaVars
<1> SUFFICES ASSUME [BlockingNext]_allVars PROVE [SemaNext]_semaVars
  OBVIOUS
<1>1. ASSUME NEW mode, ProducerEnqueues(mode) PROVE [SemaNext]_semaVars
  BY <1>1 DEF ProducerEnqueues
<1>2. CASE ProducerSteps
  BY <1>2 DEF ProducerSteps, ProducerEnqueued, ProducerSignalled, SemaNext
<1>3. ASSUME NEW o, ConsumerDequeues(o) PROVE [SemaNext]_semaVars
  BY <1>3 DEF ConsumerDequeues
<1>4. ASSUME NEW t \in Timeouts, ConsumerWaits(t) PROVE [SemaNext]_semaVars
  BY <1>4 DEF ConsumerWaits, SemaNext
<1>5. CASE ConsumerSteps
  BY <1>5 DEF ConsumerSteps, ConsumerWaited, ConsumerDequeued, SemaNext
<1>6. CASE UNCHANGED allVars
  BY <1>6 DEF allVars
<1> QED BY <1>1, <1>2, <1>3, <1>4, <1>5, <1>6 DEF BlockingNext

-----------------------------------------------------------------------------
(***************************************************************************)
(* BlockingReaderWriterQueue: the count and the items.                     *)
(***************************************************************************)
\* Only one of its calls is under way in each thread.
CallsOK ==
    /\ producerCall \in {"idle", "enqueue", "signal"}
    /\ consumerCall \in {"idle", "wait", "dequeue"}
    /\ enqueuePc # "idle" => producerCall = "enqueue"
    /\ signalPc # "idle" => producerCall = "signal"
    /\ waitPc # "idle" => consumerCall = "wait"
    /\ dequeuePc # "idle" => consumerCall = "dequeue"
    /\ consumerCall # "dequeue" => op = "remove"

Balance ==
    count + One(Unsignalled \/ signalPc = "add") + One(Claimed \/ Dequeuing \/ Committed)
        = Len(Items)

\* A dequeue that has a unit finds its item: in its block, or further on.
FindsItem ==
    /\ consumerCall = "dequeue" /\ op # "peek" /\ dequeuePc = "idle" => dequeueOk
    /\ op # "peek" /\ dequeuePc = "loadTailBlock" => frontBlock # tailBlock

CountInv == CallsOK /\ (config.blocking => Balance /\ FindsItem)

\* What each step of an enqueue does to the items and to what it will return.
EnqueueEffect ==
    /\ enqueuePc # "idle" /\ frontBlock' = frontBlock
    /\ dequeuePc' = dequeuePc /\ op' = op /\ dequeueOk' = dequeueOk
    /\ \/ Keeps /\ (enqueuePc' # "idle" \/ ~enqueueOk')
       \/ Adds /\ enqueuePc' = "idle" /\ enqueueOk'
    /\ tailBlock' = tailBlock \/ tailBlock' # frontBlock

LEMMA EnqueueHasEffect ==
    ASSUME Sized, RWQInv, EnqueueSteps
    PROVE  EnqueueEffect
<1> USE DEF consumerVars
<1>1. CASE EnqueueLoadFront
  BY <1>1, EnqueueLoadFrontStep DEF EnqueueLoadFront, EnqueueEffect
<1>2. CASE EnqueueConstruct
  BY <1>2, EnqueueConstructStep DEF EnqueueConstruct, EnqueueEffect
<1>3. CASE EnqueuePublishTail
  BY <1>3, EnqueuePublishTailStep DEF EnqueuePublishTail, EnqueueEffect
<1>4. CASE EnqueueCheckNext
  BY <1>4, EnqueueCheckNextStep DEF EnqueueCheckNext, EnqueueEffect
<1>5. CASE EnqueueLoadNextFront
  BY <1>5, EnqueueLoadNextFrontStep DEF EnqueueLoadNextFront, EnqueueEffect
<1>6. CASE EnqueueConstructNext
  BY <1>6, EnqueueConstructNextStep DEF EnqueueConstructNext, EnqueueEffect
<1>7. CASE EnqueuePublishNextTail
  BY <1>7, EnqueuePublishNextTailStep DEF EnqueuePublishNextTail, EnqueueEffect
<1>8. CASE EnqueueAllocate
  BY <1>8, EnqueueAllocateStep DEF EnqueueAllocate, EnqueueEffect
<1>9. CASE EnqueueLink
  BY <1>9, EnqueueLinkStep DEF EnqueueLink, EnqueueEffect
<1>10. CASE EnqueuePublishTailBlock
  <2>1. tailBlock' # frontBlock
    BY <1>10, TypeFacts DEF EnqueuePublishTailBlock, ProducerKnows
  <2> QED BY <1>10, <2>1, EnqueuePublishTailBlockStep DEF EnqueuePublishTailBlock, EnqueueEffect
<1> QED BY <1>1, <1>2, <1>3, <1>4, <1>5, <1>6, <1>7, <1>8, <1>9, <1>10 DEF EnqueueSteps

LEMMA OneBlockEmpty ==
    ASSUME RWQInv, frontBlock = tailBlock, FrontBlock.tail = FrontBlock.front
    PROVE  Contents = <<>>
<1>1. PICK pos : Placed(pos)
  BY DEF RWQInv
<1>2. /\ RingOf(pos, block, tailBlock, CircleSize) /\ BlockOK(FrontBlock)
      /\ tailBlock \in 1 .. Len(block)
  <2>1. RWQTypeOK /\ Ring(pos)
    BY <1>1, TypeFacts DEF Placed
  <2> QED BY <1>1, <2>1, FrontHasItems, Positions DEF Blocks
<1>3. PICK f : /\ IsChain(f, block, tailBlock)
               /\ ContentsOf(block, frontBlock, tailBlock) = f[frontBlock]
  BY <1>2, ContentsChain
<1>4. f[tailBlock] = BlockItems(block[tailBlock])
  BY <1>2, <1>3, ChainAt
<1>5. BlockItems(FrontBlock) \in Seq(Values) /\ Len(BlockItems(FrontBlock)) = 0
  BY <1>2, ItemsOfBlock
<1>6. BlockItems(FrontBlock) = <<>>
  BY <1>5, EmptySeq
<1> QED BY <1>3, <1>4, <1>6, ContentsAre DEF FrontBlock

\* What each step of a dequeue or a peek does to the items and to what it will return.
DequeueEffect ==
    /\ dequeuePc # "idle" /\ op' = op /\ tailBlock' = tailBlock
    /\ enqueuePc' = enqueuePc /\ enqueueOk' = enqueueOk
    /\ \/ /\ Keeps
          /\ dequeuePc # "publishFront" /\ dequeuePc' \notin {"idle", "publishFront"}
          /\ dequeuePc' = "loadTailBlock" /\ frontBlock' = tailBlock => Items = <<>>
       \/ Keeps /\ op = "peek" /\ dequeuePc' = "idle"
       \/ /\ Keeps /\ dequeuePc = "loadTailBlock" /\ frontBlock = tailBlock
          /\ dequeuePc' = "idle"
       \/ Removes /\ op # "peek" /\ dequeuePc = "read" /\ dequeuePc' = "publishFront"
       \/ Keeps /\ dequeuePc = "publishFront" /\ dequeuePc' = "idle" /\ dequeueOk'

LEMMA DequeueHasEffect ==
    ASSUME Sized, RWQInv, DequeueSteps
    PROVE  DequeueEffect
<1> USE DEF producerVars
<1>1. CASE DequeueLoadTail
  <2>1. /\ dequeuePc = "loadTail" /\ frontBlock' = frontBlock
        /\ UNCHANGED <<op, tailBlock, enqueuePc, enqueueOk>>
        /\ dequeuePc' = IF FrontBlock.front # FrontBlock.tail THEN "read" ELSE "loadTailBlock"
    BY <1>1 DEF DequeueLoadTail
  <2>2. dequeuePc' = "loadTailBlock" /\ frontBlock' = tailBlock => Items = <<>>
    BY <2>1, OneBlockEmpty DEF Items
  <2> HIDE DEF FrontBlock
  <2> QED BY <1>1, <2>1, <2>2, DequeueLoadTailStep DEF DequeueEffect
<1>2. CASE DequeueLoadTailBlock
  BY <1>2, DequeueLoadTailBlockStep DEF DequeueLoadTailBlock, DequeueEffect
<1>3. CASE DequeueRecheck
  BY <1>3, DequeueRecheckStep DEF DequeueRecheck, DequeueEffect
<1>4. CASE DequeueLoadNext
  BY <1>4, DequeueLoadNextStep DEF DequeueLoadNext, DequeueEffect
<1>5. CASE DequeueAdvance
  BY <1>5, DequeueAdvanceStep DEF DequeueAdvance, DequeueEffect
<1>6. CASE DequeueRead
  <2>1. CASE op = "peek"
    <3>1. /\ dequeuePc = "read" /\ dequeuePc' = "idle" /\ dequeueOk' = TRUE
          /\ result' = FrontBlock.data[FrontBlock.front]
          /\ UNCHANGED <<block, delivered, config, frontBlock, tailBlock, largestBlockSize,
                         producerVars, op>>
      BY <1>6, <2>1 DEF DequeueRead
    <3>2. Keeps
      BY <2>1, <3>1, DequeuePeeked
    <3> QED BY <2>1, <3>1, <3>2 DEF DequeueEffect
  <2>2. CASE op # "peek"
    <3>1. op = "remove"
      BY <2>2, TypeFacts DEF RWQTypeOK
    <3>2. /\ dequeuePc = "read" /\ result' = FrontBlock.data[FrontBlock.front]
          /\ block' = [block EXCEPT ![frontBlock].data[FrontBlock.front] = NoData]
          /\ delivered' = result' /\ dequeuePc' = "publishFront"
          /\ UNCHANGED <<dequeueOk, config, frontBlock, tailBlock, largestBlockSize,
                         producerVars, op>>
      BY <1>6, <2>2 DEF DequeueRead
    <3>3. Removes
      BY <3>1, <3>2, DequeueTaken
    <3> QED BY <2>2, <3>2, <3>3 DEF DequeueEffect
  <2> QED BY <2>1, <2>2
<1>7. CASE DequeuePublishFront
  BY <1>7, DequeuePublishFrontStep DEF DequeuePublishFront, DequeueEffect
<1> QED BY <1>1, <1>2, <1>3, <1>4, <1>5, <1>6, <1>7 DEF DequeueSteps

-----------------------------------------------------------------------------
LEMMA ItemsLengths ==
    ASSUME Sized, RWQInv
    PROVE  /\ Len(Items) \in Nat
           /\ Keeps => Len(Items') = Len(Items) /\ config' = config
           /\ Adds => Len(Items') = Len(Items) + 1 /\ config' = config
           /\ Removes => Len(Items') = Len(Items) - 1 /\ config' = config
           /\ Items # <<>> <=> Len(Items) # 0
<1>1. Items \in Seq(Values) /\ Len(Items) \in Nat /\ element \in Values
  BY ItemsTyped, ElementFacts
<1>2. Adds => Len(Items') = Len(Items) + 1
  BY <1>1, AddTyped DEF Adds, Add
<1>3. Removes => Len(Items') = Len(Items) - 1
  BY <1>1, HeadTailProperties DEF Removes
<1>4. Items # <<>> <=> Len(Items) # 0
  BY <1>1, EmptySeq
<1> QED BY <1>1, <1>2, <1>3, <1>4 DEF Keeps, Adds, Removes

-----------------------------------------------------------------------------
\* The two sides of the balance: what is not yet, and what is no longer, counted.
ToCome == One(Unsignalled \/ signalPc = "add")
Taken == One(Claimed \/ Dequeuing \/ Committed)

LEMMA Terms ==
    ASSUME Sized, RWQInv, SemaInv
    PROVE  /\ count \in Int /\ Len(Items) \in Nat /\ ToCome \in {0, 1} /\ Taken \in {0, 1}
           /\ ToCome = 1 <=> Unsignalled \/ signalPc = "add"
           /\ Taken = 1 <=> Claimed \/ Dequeuing \/ Committed
           /\ Balance <=> count + ToCome + Taken = Len(Items)
<1>1. count \in Int
  BY DEF SemaInv, SemaTypeOK
<1>2. Len(Items) \in Nat
  BY ItemsLengths
<1>3. /\ ToCome \in {0, 1} /\ Taken \in {0, 1}
      /\ ToCome = 1 <=> Unsignalled \/ signalPc = "add"
      /\ Taken = 1 <=> Claimed \/ Dequeuing \/ Committed
  BY DEF ToCome, Taken, One
<1>4. Balance <=> count + ToCome + Taken = Len(Items)
  BY DEF Balance, ToCome, Taken
<1> QED BY <1>1, <1>2, <1>3, <1>4

LEMMA TermsPrimed ==
    /\ ToCome' = IF (Unsignalled \/ signalPc = "add")' THEN 1 ELSE 0
    /\ Taken' = IF (Claimed \/ Dequeuing \/ Committed)' THEN 1 ELSE 0
    /\ Balance' <=> count' + ToCome' + Taken' = Len(Items')
  BY DEF Balance, ToCome, Taken, One

\* As long as nothing is claimed but by a dequeue, there is an item for it.
LEMMA ItemIsThere ==
    ASSUME Sized, RWQInv, SemaInv, CountInv, config.blocking, op # "peek",
           dequeuePc \notin {"idle", "publishFront"}
    PROVE  Items # <<>>
<1>1. Balance /\ consumerCall = "dequeue" /\ waitPc = "idle"
  BY DEF CountInv, CallsOK
<1>2. Dequeuing /\ ~Committed
  BY <1>1 DEF Dequeuing, Committed
<1>3. count >= 0
  BY <1>2 DEF SemaInv, SemaTypeOK, UnitsMatch
<1>4. Taken = 1
  BY <1>2, Terms
<1>5. Len(Items) # 0
  BY <1>1, <1>3, <1>4, Terms
<1> QED BY <1>5, ItemsLengths

LEMMA CountInitInv ==
    ASSUME Sized, BlockingInit
    PROVE  CountInv
<1>1. /\ producerCall = "idle" /\ consumerCall = "idle" /\ enqueuePc = "idle"
      /\ dequeuePc = "idle" /\ op = "remove" /\ count = 0 /\ waitPc = "idle"
      /\ signalPc = "idle"
  BY DEF BlockingInit, RWQInit, SemaInit
<1>2. Len(Items) = 0
  BY RWQInitInv, EmptySeq DEF BlockingInit
<1> QED BY <1>1, <1>2 DEF CountInv, CallsOK, Balance, FindsItem, Unsignalled, Claimed,
                          Dequeuing, Committed, One

LEMMA EnqueueCounted ==
    ASSUME Sized, RWQInv, SemaInv, CountInv, EnqueueSteps,
           UNCHANGED <<semaVars, producerCall, consumerCall>>
    PROVE  CountInv'
<1> USE DEF semaVars, waiterVars
<1>1. EnqueueEffect
  BY EnqueueHasEffect
<1>2. producerCall = "enqueue" /\ signalPc = "idle"
  BY <1>1 DEF EnqueueEffect, CountInv, CallsOK
<1>3. CallsOK'
  BY <1>1, <1>2 DEF EnqueueEffect, CountInv, CallsOK
<1>4. ASSUME config.blocking PROVE Balance' /\ FindsItem'
  <2>1. Balance /\ FindsItem
    BY <1>4 DEF CountInv
  <2>2. FindsItem'
    BY <1>1, <2>1 DEF EnqueueEffect, FindsItem
  <2>3. (Claimed \/ Dequeuing \/ Committed)' = (Claimed \/ Dequeuing \/ Committed)
    BY <1>1 DEF EnqueueEffect, Claimed, Dequeuing, Committed
  <2>4. Taken' = Taken
    BY <2>3 DEF Taken, One
  <2>5. ~(Unsignalled \/ signalPc = "add")
    BY <1>1, <1>2 DEF EnqueueEffect, Unsignalled
  <2>6. ToCome = 0
    BY <2>5 DEF ToCome, One
  <2>7. ToCome' + Len(Items) = Len(Items')
    <3>1. CASE Keeps /\ (enqueuePc' # "idle" \/ ~enqueueOk')
      <4>1. ~(Unsignalled \/ signalPc = "add")'
        BY <1>2, <3>1 DEF Unsignalled
      <4> QED BY <3>1, <4>1, ItemsLengths, TermsPrimed
    <3>2. CASE Adds /\ enqueuePc' = "idle" /\ enqueueOk'
      <4>1. (Unsignalled \/ signalPc = "add")'
        BY <1>2, <3>2 DEF Unsignalled
      <4> QED BY <3>2, <4>1, ItemsLengths, TermsPrimed
    <3> QED BY <1>1, <3>1, <3>2 DEF EnqueueEffect
  <2>8. Balance'
    BY <2>1, <2>4, <2>6, <2>7, Terms, TermsPrimed
  <2> QED BY <2>2, <2>8
<1>5. config' = config
  BY <1>1, ItemsLengths DEF EnqueueEffect
<1> QED BY <1>3, <1>4, <1>5 DEF CountInv

LEMMA DequeueCounted ==
    ASSUME Sized, RWQInv, SemaInv, CountInv, DequeueSteps,
           UNCHANGED <<semaVars, producerCall, consumerCall>>
    PROVE  CountInv'
<1> USE DEF semaVars, waiterVars
<1>1. DequeueEffect
  BY DequeueHasEffect
<1>2. consumerCall = "dequeue" /\ waitPc = "idle"
  BY <1>1 DEF DequeueEffect, CountInv, CallsOK
<1>3. CallsOK'
  BY <1>1, <1>2 DEF DequeueEffect, CountInv, CallsOK
<1>4. ASSUME config.blocking PROVE Balance' /\ FindsItem'
  <2>1. Balance /\ FindsItem
    BY <1>4 DEF CountInv
  <2>2. ToCome' = ToCome
    BY <1>1 DEF ToCome, One, Unsignalled, DequeueEffect
  <2>3. ~Claimed /\ ~Committed /\ ~Claimed' /\ ~Committed'
    BY <1>2 DEF Claimed, Committed
  <2>4. Taken = (IF Dequeuing THEN 1 ELSE 0) /\ Taken' = (IF Dequeuing' THEN 1 ELSE 0)
    BY <2>3 DEF Taken, One
  <2>5. ~(op # "peek" /\ dequeuePc = "loadTailBlock" /\ frontBlock = tailBlock)
    BY <2>1 DEF FindsItem
  <2>6. FindsItem'
    <3>1. op # "peek" /\ dequeuePc' = "loadTailBlock" => frontBlock' # tailBlock
      <4> SUFFICES ASSUME op # "peek", dequeuePc' = "loadTailBlock", frontBlock' = tailBlock
                   PROVE  FALSE
        OBVIOUS
      <4>1. Items = <<>> /\ dequeuePc \notin {"idle", "publishFront"}
        BY <1>1 DEF DequeueEffect
      <4> QED BY <1>4, <4>1, ItemIsThere
    <3>2. op # "peek" /\ dequeuePc' = "idle" => dequeueOk'
      BY <1>1, <2>5 DEF DequeueEffect
    <3> QED BY <1>1, <3>1, <3>2 DEF DequeueEffect, FindsItem
  <2>7. Taken' + Len(Items) = Taken + Len(Items')
    <3>1. CASE Removes /\ op # "peek" /\ dequeuePc = "read" /\ dequeuePc' = "publishFront"
      <4>1. Dequeuing /\ ~Dequeuing'
        BY <1>2, <3>1 DEF Dequeuing
      <4> QED BY <2>4, <3>1, <4>1, ItemsLengths
    <3>2. CASE Keeps /\ Dequeuing' = Dequeuing
      <4>1. Taken' = Taken
        BY <2>4, <3>2
      <4> QED BY <3>2, <4>1, ItemsLengths
    <3>3. (Keeps /\ Dequeuing' = Dequeuing)
          \/ (Removes /\ op # "peek" /\ dequeuePc = "read" /\ dequeuePc' = "publishFront")
      BY <1>1, <1>2, <2>5 DEF DequeueEffect, Dequeuing
    <3> QED BY <3>1, <3>2, <3>3
  <2>8. Taken' \in {0, 1}
    BY <2>4
  <2>9. Len(Items') \in Int
    BY <1>1, ItemsLengths DEF DequeueEffect
  <2>10. Balance'
    BY <2>1, <2>2, <2>7, <2>8, <2>9, Terms, TermsPrimed
  <2> QED BY <2>6, <2>10
<1>5. config' = config
  BY <1>1, ItemsLengths DEF DequeueEffect
<1> QED BY <1>3, <1>4, <1>5 DEF CountInv

LEMMA SemaCounted ==
    ASSUME Sized, RWQInv, SemaInv, CountInv, SignalSteps \/ WaitSteps,
           UNCHANGED <<rwqVars, producerCall, consumerCall>>
    PROVE  CountInv'
<1> USE DEF waiterVars, WaitReturns
<1>1. /\ UNCHANGED <<enqueuePc, enqueueOk, dequeuePc, op, dequeueOk, frontBlock, tailBlock>>
      /\ Items' = Items /\ config' = config
  BY RWQStays DEF rwqVars, producerVars, consumerVars, Keeps
<1>2. Unsignalled' = Unsignalled /\ Dequeuing' = Dequeuing /\ (FindsItem => FindsItem')
  BY <1>1 DEF Unsignalled, Dequeuing, FindsItem
<1>3. CASE SignalSteps
  <2>1. signalPc # "idle" /\ UNCHANGED <<waitPc, waitOk>>
    BY <1>3 DEF SignalSteps, SignalAdd, SignalPost
  <2>2. producerCall = "signal" /\ ~Unsignalled
    BY <2>1 DEF CountInv, CallsOK, Unsignalled
  <2>3. CallsOK'
    BY <1>1, <2>1, <2>2 DEF CountInv, CallsOK
  <2>4. Taken' = Taken
    BY <1>2, <2>1 DEF Taken, One, Claimed, Committed
  <2>5. count' + ToCome' = count + ToCome
    <3>1. CASE SignalAdd
      <4>1. signalPc = "add" /\ signalPc' # "add" /\ count' = count + 1
        BY <3>1 DEF SignalAdd
      <4>2. ToCome = 1 /\ ToCome' = 0
        BY <1>2, <2>2, <4>1 DEF ToCome, One
      <4> QED BY <4>1, <4>2, Terms
    <3>2. CASE SignalPost
      <4>1. signalPc # "add" /\ signalPc' # "add" /\ count' = count
        BY <3>2 DEF SignalPost
      <4>2. ToCome = 0 /\ ToCome' = 0
        BY <1>2, <2>2, <4>1 DEF ToCome, One
      <4> QED BY <4>1, <4>2
    <3> QED BY <1>3, <3>1, <3>2 DEF SignalSteps
  <2>6. Balance => Balance'
    BY <1>1, <2>4, <2>5, Terms, TermsPrimed
  <2> QED BY <1>1, <1>2, <2>3, <2>6 DEF CountInv
<1>4. CASE WaitSteps
  <2>0. timeout \in Timeouts /\ (waitPc \in {"spin", "commit"} => timeout # "try")
    BY DEF SemaInv, SemaTypeOK, WaiterKnows
  <2>1. waitPc # "idle" /\ UNCHANGED signalPc
    BY <1>4 DEF WaitSteps, WaitTryLoad, WaitTake, WaitSpin, WaitCommit, WaitSleep,
                WaitTimesOut, WaitRestore, WaitRetake, WaitRetry
  <2>2. consumerCall = "wait" /\ ~Dequeuing
    BY <2>1 DEF CountInv, CallsOK, Dequeuing
  <2>3. CallsOK'
    BY <1>1, <2>1, <2>2 DEF CountInv, CallsOK
  <2>4. ToCome' = ToCome
    BY <1>2, <2>1 DEF ToCome, One
  <2>5. Taken = (IF Committed THEN 1 ELSE 0)
    BY <2>1, <2>2 DEF Taken, One, Claimed
  <2>6. Taken' = IF (waitPc' = "idle" /\ waitOk') \/ Committed' THEN 1 ELSE 0
    BY <1>2, <2>2 DEF Taken, One, Claimed
  <2>7. count \in Int
    BY Terms
  <2>8. count' + Taken' = count + Taken
    <3> USE DEF Committed
    <3>1. CASE WaitTryLoad
      BY <2>5, <2>6, <2>7, <3>1 DEF WaitTryLoad
    <3>2. CASE WaitTake
      BY <2>5, <2>6, <2>7, <3>2 DEF WaitTake
    <3>3. CASE WaitSpin
      BY <2>5, <2>6, <2>7, <3>3 DEF WaitSpin
    <3>4. CASE WaitCommit
      BY <2>0, <2>5, <2>6, <2>7, <3>4 DEF WaitCommit, Timeouts
    <3>5. CASE WaitSleep
      BY <2>5, <2>6, <2>7, <3>5 DEF WaitSleep
    <3>6. CASE WaitTimesOut
      BY <2>5, <2>6, <2>7, <3>6 DEF WaitTimesOut
    <3>7. CASE WaitRestore
      BY <2>5, <2>6, <2>7, <3>7 DEF WaitRestore
    <3>8. CASE WaitRetake
      BY <2>5, <2>6, <2>7, <3>8 DEF WaitRetake
    <3>9. CASE WaitRetry
      BY <2>5, <2>6, <2>7, <3>9 DEF WaitRetry
    <3> QED BY <1>4, <3>1, <3>2, <3>3, <3>4, <3>5, <3>6, <3>7, <3>8, <3>9 DEF WaitSteps
  <2>9. count' \in Int
    BY <1>4, <2>7 DEF WaitSteps, WaitTryLoad, WaitTake, WaitSpin, WaitCommit, WaitSleep,
                      WaitTimesOut, WaitRestore, WaitRetake, WaitRetry
  <2>10. Taken' \in {0, 1}
    BY <2>6
  <2>11. Balance => Balance'
    <3>1. /\ count \in Int /\ ToCome \in {0, 1} /\ Taken \in {0, 1}
          /\ Balance <=> count + ToCome + Taken = Len(Items)
      BY Terms
    <3>2. Balance' <=> count' + ToCome + Taken' = Len(Items)
      BY <1>1, <2>4, TermsPrimed
    <3>3. count' + ToCome + Taken' = count + ToCome + Taken
      <4>1. PICK x : x = count'
        OBVIOUS
      <4>2. PICK y : y = Taken'
        OBVIOUS
      <4>3. x \in Int /\ y \in Int /\ x + y = count + Taken
        BY <2>8, <2>9, <2>10, <4>1, <4>2
      <4>4. x + ToCome + y = count + ToCome + Taken
        BY <3>1, <4>3
      <4> QED BY <4>1, <4>2, <4>4
    <3> QED BY <3>1, <3>2, <3>3
  <2> QED BY <1>1, <1>2, <2>3, <2>11 DEF CountInv
<1> QED BY <1>3, <1>4

-----------------------------------------------------------------------------
LEMMA ProducerEnqueuesCounted ==
    ASSUME Sized, RWQInv, SemaInv, CountInv, NEW mode \in BOOLEAN, ProducerEnqueues(mode)
    PROVE  CountInv'
<1>1. /\ EnqueueBegin(mode) /\ producerCall = "idle" /\ producerCall' = "enqueue"
      /\ UNCHANGED <<count, sema, waitPc, timeout, waitOk, signalPc, consumerCall>>
  BY DEF ProducerEnqueues, semaVars, waiterVars
<1>2. /\ enqueuePc' # "idle" /\ UNCHANGED <<enqueueOk, frontBlock, tailBlock>>
      /\ UNCHANGED <<dequeuePc, op, dequeueOk>>
  BY <1>1 DEF EnqueueBegin, consumerVars
<1>3. Items' = Items /\ config' = config
  BY <1>1, EnqueueBeginStep DEF Keeps
<1>4. CallsOK'
  BY <1>1, <1>2 DEF CountInv, CallsOK
<1>5. FindsItem => FindsItem'
  BY <1>1, <1>2 DEF FindsItem
<1>6. ToCome' = ToCome /\ Taken' = Taken
  BY <1>1, <1>2 DEF ToCome, Taken, One, Unsignalled, Claimed, Dequeuing, Committed
<1>7. Balance => Balance'
  BY <1>1, <1>3, <1>6, Terms, TermsPrimed
<1> QED BY <1>3, <1>4, <1>5, <1>7 DEF CountInv

LEMMA ProducerEnqueuedCounted ==
    ASSUME Sized, RWQInv, SemaInv, CountInv, ProducerEnqueued
    PROVE  CountInv'
<1>1. /\ producerCall = "enqueue" /\ enqueuePc = "idle" /\ EnqueueReturned
      /\ UNCHANGED <<enqueuePc, frontBlock, tailBlock, dequeuePc, op, dequeueOk, consumerCall>>
  BY DEF ProducerEnqueued, EnqueueReturned, consumerVars
<1>2. Items' = Items /\ config' = config
  BY <1>1, EnqueueReturnedStep DEF Keeps
<1>3. signalPc = "idle"
  BY <1>1 DEF CountInv, CallsOK
<1>4. UNCHANGED <<count, sema, waitPc, timeout, waitOk>>
  BY DEF ProducerEnqueued, SignalBegin, semaVars, waiterVars
<1>5. \/ config.blocking /\ enqueueOk /\ signalPc' = "add" /\ producerCall' = "signal"
      \/ ~(config.blocking /\ enqueueOk) /\ signalPc' = "idle" /\ producerCall' = "idle"
  BY <1>3 DEF ProducerEnqueued, SignalBegin, semaVars
<1>6. CallsOK'
  BY <1>1, <1>4, <1>5 DEF CountInv, CallsOK
<1>7. FindsItem => FindsItem'
  BY <1>1 DEF FindsItem
<1>8. ASSUME config.blocking PROVE Balance => Balance'
  <2>1. Taken' = Taken
    BY <1>1, <1>4 DEF Taken, One, Claimed, Dequeuing, Committed
  <2>2. ToCome' = ToCome
    BY <1>1, <1>3, <1>5, <1>8 DEF ToCome, One, Unsignalled
  <2> QED BY <1>2, <1>4, <2>1, <2>2, Terms, TermsPrimed
<1> QED BY <1>2, <1>6, <1>7, <1>8 DEF CountInv

LEMMA ProducerSignalledCounted ==
    ASSUME Sized, RWQInv, SemaInv, CountInv, ProducerSignalled
    PROVE  CountInv'
<1>1. /\ producerCall = "signal" /\ signalPc = "idle" /\ producerCall' = "idle"
      /\ UNCHANGED <<count, sema, waitPc, timeout, waitOk, signalPc, consumerCall>>
      /\ UNCHANGED rwqVars
  BY DEF ProducerSignalled, semaVars, waiterVars
<1>2. /\ UNCHANGED <<enqueuePc, enqueueOk, dequeuePc, op, dequeueOk, frontBlock, tailBlock>>
      /\ Items' = Items /\ config' = config
  BY <1>1, RWQStays DEF rwqVars, producerVars, consumerVars, Keeps
<1>3. CallsOK'
  BY <1>1, <1>2 DEF CountInv, CallsOK
<1>4. FindsItem => FindsItem'
  BY <1>1, <1>2 DEF FindsItem
<1>5. ToCome' = ToCome /\ Taken' = Taken
  BY <1>1, <1>2 DEF ToCome, Taken, One, Unsignalled, Claimed, Dequeuing, Committed
<1>6. Balance => Balance'
  BY <1>1, <1>2, <1>5, Terms, TermsPrimed
<1> QED BY <1>2, <1>3, <1>4, <1>6 DEF CountInv

LEMMA ConsumerDequeuesCounted ==
    ASSUME Sized, RWQInv, SemaInv, CountInv, NEW o \in {"remove", "peek"}, ConsumerDequeues(o)
    PROVE  CountInv'
<1>1. /\ DequeueBegin(o) /\ consumerCall = "idle" /\ consumerCall' = "dequeue"
      /\ o = "peek" \/ ~config.blocking
      /\ UNCHANGED <<count, sema, waitPc, timeout, waitOk, signalPc, producerCall>>
  BY DEF ConsumerDequeues, semaVars, waiterVars
<1>2. /\ dequeuePc' \notin {"idle", "loadTailBlock"} /\ op' = o
      /\ UNCHANGED <<enqueuePc, enqueueOk, frontBlock, tailBlock, dequeueOk>>
  BY <1>1 DEF DequeueBegin, producerVars
<1>3. Items' = Items /\ config' = config
  BY <1>1, DequeueBeginStep DEF Keeps
<1>4. CallsOK'
  BY <1>1, <1>2 DEF CountInv, CallsOK
<1>5. FindsItem'
  BY <1>2 DEF FindsItem
<1>6. ASSUME config.blocking PROVE Balance => Balance'
  <2>1. waitPc = "idle"
    BY <1>1 DEF CountInv, CallsOK
  <2>2. ToCome' = ToCome
    BY <1>1, <1>2 DEF ToCome, One, Unsignalled
  <2>3. op' = "peek"
    BY <1>1, <1>2, <1>6
  <2>4. Taken' = Taken
    BY <1>1, <1>2, <2>1, <2>3 DEF Taken, One, Claimed, Dequeuing, Committed
  <2> QED BY <1>1, <1>3, <2>2, <2>4, Terms, TermsPrimed
<1> QED BY <1>3, <1>4, <1>5, <1>6 DEF CountInv

LEMMA ConsumerWaitsCounted ==
    ASSUME Sized, RWQInv, SemaInv, CountInv, NEW t \in Timeouts, ConsumerWaits(t)
    PROVE  CountInv'
<1>1. /\ consumerCall = "idle" /\ consumerCall' = "wait" /\ waitPc = "idle"
      /\ waitPc' = "tryLoad" /\ UNCHANGED <<count, sema, waitOk, signalPc, producerCall>>
      /\ UNCHANGED rwqVars
  BY DEF ConsumerWaits, WaitBegin
<1>2. /\ UNCHANGED <<enqueuePc, enqueueOk, dequeuePc, op, dequeueOk, frontBlock, tailBlock>>
      /\ Items' = Items /\ config' = config
  BY <1>1, RWQStays DEF rwqVars, producerVars, consumerVars, Keeps
<1>3. CallsOK'
  BY <1>1, <1>2 DEF CountInv, CallsOK
<1>4. FindsItem => FindsItem'
  BY <1>1, <1>2 DEF FindsItem
<1>5. ToCome' = ToCome /\ Taken' = Taken
  BY <1>1, <1>2 DEF ToCome, Taken, One, Unsignalled, Claimed, Dequeuing, Committed
<1>6. Balance => Balance'
  BY <1>1, <1>2, <1>5, Terms, TermsPrimed
<1> QED BY <1>2, <1>3, <1>4, <1>6 DEF CountInv

LEMMA ConsumerWaitedCounted ==
    ASSUME Sized, RWQInv, SemaInv, CountInv, ConsumerWaited
    PROVE  CountInv'
<1>1. /\ consumerCall = "wait" /\ waitPc = "idle" /\ op = "remove" /\ dequeuePc = "idle"
      /\ UNCHANGED <<count, sema, waitPc, signalPc, producerCall>> /\ waitOk' = FALSE
      /\ \/ waitOk /\ DequeueBegin("remove") /\ consumerCall' = "dequeue"
         \/ ~waitOk /\ DequeueReturned /\ consumerCall' = "idle"
  <2>1. consumerCall = "wait" /\ op = "remove" /\ dequeuePc = "idle"
    BY DEF ConsumerWaited, CountInv, CallsOK
  <2> QED BY <2>1 DEF ConsumerWaited, WaitReturned
<1>2. CASE waitOk /\ DequeueBegin("remove") /\ consumerCall' = "dequeue"
  <2>1. /\ dequeuePc' \in {"read", "loadTail"} /\ op' = "remove"
        /\ UNCHANGED <<enqueuePc, enqueueOk, frontBlock, tailBlock, dequeueOk>>
    BY <1>2 DEF DequeueBegin, producerVars
  <2>2. Items' = Items /\ config' = config
    BY <1>2, DequeueBeginStep DEF Keeps
  <2>3. CallsOK' /\ FindsItem'
    BY <1>1, <1>2, <2>1 DEF CountInv, CallsOK, FindsItem
  <2>4. ToCome' = ToCome
    BY <1>1, <2>1 DEF ToCome, One, Unsignalled
  <2>5. Taken' = Taken
    BY <1>1, <1>2, <2>1 DEF Taken, One, Claimed, Dequeuing, Committed
  <2>6. Balance => Balance'
    BY <1>1, <2>2, <2>4, <2>5, Terms, TermsPrimed
  <2> QED BY <2>2, <2>3, <2>6 DEF CountInv
<1>3. CASE ~waitOk /\ DequeueReturned /\ consumerCall' = "idle"
  <2>1. /\ dequeuePc' = "idle" /\ op' = "remove"
        /\ UNCHANGED <<enqueuePc, enqueueOk, frontBlock, tailBlock>>
    BY <1>3 DEF DequeueReturned, producerVars
  <2>2. Items' = Items /\ config' = config
    BY <1>3, DequeueReturnedStep DEF Keeps
  <2>3. CallsOK' /\ FindsItem'
    BY <1>1, <1>3, <2>1 DEF CountInv, CallsOK, FindsItem
  <2>4. ToCome' = ToCome
    BY <1>1, <2>1 DEF ToCome, One, Unsignalled
  <2>5. Taken' = Taken
    BY <1>1, <1>3, <2>1 DEF Taken, One, Claimed, Dequeuing, Committed
  <2>6. Balance => Balance'
    BY <1>1, <2>2, <2>4, <2>5, Terms, TermsPrimed
  <2> QED BY <2>2, <2>3, <2>6 DEF CountInv
<1> QED BY <1>1, <1>2, <1>3

LEMMA ConsumerDequeuedCounted ==
    ASSUME Sized, RWQInv, SemaInv, CountInv, ConsumerDequeued
    PROVE  CountInv'
<1>1. /\ consumerCall = "dequeue" /\ consumerCall' = "idle" /\ DequeueReturned
      /\ UNCHANGED <<count, sema, waitPc, timeout, waitOk, signalPc, producerCall>>
  BY DEF ConsumerDequeued, semaVars, waiterVars
<1>2. /\ dequeuePc = "idle" /\ dequeuePc' = "idle" /\ op' = "remove"
      /\ UNCHANGED <<enqueuePc, enqueueOk, frontBlock, tailBlock>>
  BY <1>1 DEF DequeueReturned, producerVars
<1>3. Items' = Items /\ config' = config
  BY <1>1, DequeueReturnedStep DEF Keeps
<1>4. CallsOK' /\ FindsItem'
  BY <1>1, <1>2 DEF CountInv, CallsOK, FindsItem
<1>5. ToCome' = ToCome /\ Taken' = Taken
  BY <1>1, <1>2 DEF ToCome, Taken, One, Unsignalled, Claimed, Dequeuing, Committed
<1>6. Balance => Balance'
  BY <1>1, <1>3, <1>5, Terms, TermsPrimed
<1> QED BY <1>3, <1>4, <1>6 DEF CountInv

LEMMA CountStays ==
    ASSUME Sized, RWQInv, SemaInv, CountInv, UNCHANGED allVars
    PROVE  CountInv'
<1>1. /\ UNCHANGED <<producerCall, consumerCall, count, sema, waitPc, timeout, waitOk, signalPc>>
      /\ UNCHANGED rwqVars
  BY DEF allVars, semaVars, waiterVars
<1>2. /\ UNCHANGED <<enqueuePc, enqueueOk, dequeuePc, op, dequeueOk, frontBlock, tailBlock>>
      /\ Items' = Items /\ config' = config
  BY <1>1, RWQStays DEF rwqVars, producerVars, consumerVars, Keeps
<1>3. CallsOK' /\ (FindsItem => FindsItem')
  BY <1>1, <1>2 DEF CountInv, CallsOK, FindsItem
<1>4. ToCome' = ToCome /\ Taken' = Taken
  BY <1>1, <1>2 DEF ToCome, Taken, One, Unsignalled, Claimed, Dequeuing, Committed
<1>5. Balance => Balance'
  BY <1>1, <1>2, <1>4, Terms, TermsPrimed
<1> QED BY <1>2, <1>3, <1>5 DEF CountInv

LEMMA CountStepInv ==
    ASSUME Sized, RWQInv, SemaInv, CountInv, [BlockingNext]_allVars
    PROVE  CountInv'
<1>1. ASSUME NEW call \in config.calls \cap {"try_enqueue", "enqueue"},
             ProducerEnqueues(call = "enqueue")
      PROVE  CountInv'
  <2>1. (call = "enqueue") \in BOOLEAN
    OBVIOUS
  <2> QED BY <1>1, <2>1, ProducerEnqueuesCounted
<1>2. CASE ProducerSteps
  <2>1. CASE EnqueueSteps /\ UNCHANGED <<semaVars, producerCall, consumerCall>>
    BY <2>1, EnqueueCounted
  <2>2. CASE SignalSteps /\ UNCHANGED <<rwqVars, producerCall, consumerCall>>
    BY <2>2, SemaCounted
  <2> QED BY <1>2, <2>1, <2>2, ProducerEnqueuedCounted, ProducerSignalledCounted
          DEF ProducerSteps
<1>3. ASSUME NEW o \in config.calls \cap {"remove", "peek"}, ConsumerDequeues(o)
      PROVE  CountInv'
  <2>1. o \in {"remove", "peek"}
    OBVIOUS
  <2> QED BY <1>3, <2>1, ConsumerDequeuesCounted
<1>4. ASSUME NEW t \in Timeouts, ConsumerWaits(t) PROVE CountInv'
  BY <1>4, ConsumerWaitsCounted
<1>5. CASE ConsumerSteps
  <2>1. CASE DequeueSteps /\ UNCHANGED <<semaVars, producerCall, consumerCall>>
    BY <2>1, DequeueCounted
  <2>2. CASE WaitSteps /\ UNCHANGED <<rwqVars, producerCall, consumerCall>>
    BY <2>2, SemaCounted
  <2> QED BY <1>5, <2>1, <2>2, ConsumerWaitedCounted, ConsumerDequeuedCounted
          DEF ConsumerSteps
<1>6. CASE UNCHANGED allVars
  BY <1>6, CountStays
<1> QED BY <1>1, <1>2, <1>3, <1>4, <1>5, <1>6 DEF BlockingNext

LEMMA CountFollows ==
    ASSUME Sized, RWQInv, SemaInv, CountInv
    PROVE  CountsItems
<1>1. ASSUME config.blocking, producerCall = "idle", consumerCall = "idle"
      PROVE  AvailableApprox = Len(Items)
  <2>1. signalPc = "idle" /\ waitPc = "idle" /\ Balance
    BY <1>1 DEF CountInv, CallsOK
  <2>2. ToCome = 0 /\ Taken = 0
    BY <1>1, <2>1 DEF ToCome, Taken, One, Unsignalled, Claimed, Dequeuing, Committed
  <2>3. count = Len(Items) /\ Len(Items) \in Nat
    BY <2>1, <2>2, Terms
  <2> QED BY <2>3 DEF AvailableApprox
<1> QED BY <1>1 DEF CountInv, CountsItems, Balance, FindsItem

\* A unit of the semaphore stands for an item: an enqueue adds the item before it
\* signals, a dequeue that has its unit finds its item wherever the two threads are,
\* and the count of an idle queue is exact (readerwriterqueue.h:803-948).
THEOREM CountsItemsAlways ==
    ASSUME Sized
    PROVE  BlockingSpec => []CountsItems
<1>1. BlockingInit => RWQInv /\ SemaInv /\ CountInv
  BY RWQInitInv, SemaInitInv, CountInitInv DEF BlockingInit
<1>2. RWQInv /\ SemaInv /\ CountInv /\ [BlockingNext]_allVars => RWQInv' /\ SemaInv' /\ CountInv'
  BY RWQStepInv, SemaStepInv, EachSemaStep, CountStepInv
<1>3. RWQInv /\ SemaInv /\ CountInv => CountsItems
  BY CountFollows
<1> QED BY <1>1, <1>2, <1>3, PTL DEF BlockingSpec

\* The count and the kernel's units agree at every step of a wait that times out
\* while a signal comes, and the count is never below -1 (atomicops.h:678-756).
THEOREM UnitsMatchInvariant == BlockingSpec => []UnitsMatch
<1>1. BlockingInit => SemaInv
  BY SemaInitInv DEF BlockingInit
<1>2. SemaInv => UnitsMatch
  BY DEF SemaInv
<1> QED BY <1>1, <1>2, SemaStepInv, EachSemaStep, PTL DEF BlockingSpec
=============================================================================

------------------------- MODULE AtomicQueueProofs -------------------------
(***************************************************************************)
(* Proofs about the queues of includes/atomic_queue/, for any sizes, any   *)
(* range of the counters and any threads: the ring of AtomicQueueMutex is  *)
(* a FIFO under a system lock and under the ticket lock, AtomicQueue is    *)
(* one between one producer and one consumer and a pool for any threads,   *)
(* and its tries need no later call where their side uses tries alone.     *)
(***************************************************************************)
EXTENDS AtomicQueue, AtomicQueueMutex, FiniteSetTheorems, TLAPS

-----------------------------------------------------------------------------
(***************************************************************************)
(* Counters that wrap, and the slots of a ring they name.                  *)
(***************************************************************************)
LEMMA RemainderIs ==
    ASSUME NEW s \in Nat, s > 0, NEW q \in Int, NEW r \in 0 .. s - 1
    PROVE  (s * q + r) % s = r
  OBVIOUS

LEMMA ModCases ==
    ASSUME NEW n \in Nat, n > 0, NEW x \in 0 .. 2 * n - 1
    PROVE  x % n = IF x < n THEN x ELSE x - n
  OBVIOUS

LEMMA DivMod ==
    ASSUME NEW s \in Nat, s > 0, NEW x \in Int
    PROVE  /\ x = s * (x \div s) + (x % s)
           /\ x \div s \in Int
           /\ x % s \in 0 .. s - 1
  OBVIOUS

\* Whole laps change no remainder.
LEMMA LapsOff ==
    ASSUME NEW s \in Nat, s > 0, NEW x \in Int, NEW l \in Int
    PROVE  (x + s * l) % s = x % s
<1>1. x = s * (x \div s) + (x % s) /\ x \div s \in Int /\ x % s \in 0 .. s - 1
  BY DivMod
<1>2. s * ((x \div s) + l) = s * (x \div s) + s * l
  BY <1>1
<1>3. x + s * l = s * ((x \div s) + l) + (x % s)
  BY <1>1, <1>2
<1>4. (x \div s) + l \in Int
  BY <1>1
<1> QED BY <1>1, <1>3, <1>4, RemainderIs

\* A counter that wraps names the slots it would name if it did not.
LEMMA WrapKeepsSlots ==
    ASSUME NEW s \in Nat, s > 0, NEW m \in Nat, m > 0, m % s = 0,
           NEW x \in Int, NEW j \in Int
    PROVE  ((x % m) + j) % s = (x + j) % s
<1> DEFINE a == m \div s
           b == x \div m
<1>1. m = s * a /\ a \in Int
  BY DivMod
<1>2. x = m * b + (x % m) /\ b \in Int /\ x % m \in Int
  BY DivMod
<1> HIDE DEF a, b
<1>3. m * b = s * (a * b) /\ a * b \in Int
  BY <1>1, <1>2
<1>4. x + j = ((x % m) + j) + s * (a * b)
  BY <1>2, <1>3
<1>5. (((x % m) + j) + s * (a * b)) % s = ((x % m) + j) % s
  <2> DEFINE y == (x % m) + j
             l == a * b
  <2>1. y \in Int /\ l \in Int
    BY <1>2, <1>3
  <2> HIDE DEF y, l
  <2>2. (y + s * l) % s = y % s
    BY <2>1, LapsOff
  <2> QED BY <2>2 DEF y, l
<1> QED BY <1>4, <1>5

\* Counters less than a round apart name different slots.
LEMMA OtherSlot ==
    ASSUME NEW s \in Nat, s > 0, NEW x \in Int, NEW k \in 1 .. s - 1
    PROVE  (x + k) % s # x % s
<1> DEFINE l == x \div s
           r == x % s
<1>1. x = s * l + r /\ l \in Int /\ r \in 0 .. s - 1
  BY DivMod
<1> HIDE DEF l, r
<1>2. CASE r + k < s
  <2>1. x + k = s * l + (r + k) /\ r + k \in 0 .. s - 1
    BY <1>1, <1>2
  <2>2. (s * l + (r + k)) % s = r + k
    BY <1>1, <2>1, RemainderIs
  <2> QED BY <1>1, <2>1, <2>2 DEF r
<1>3. CASE r + k >= s
  <2>1. s * (l + 1) = s * l + s /\ l + 1 \in Int
    BY <1>1
  <2>2. x + k = s * (l + 1) + (r + k - s) /\ r + k - s \in 0 .. s - 1
    BY <1>1, <1>3, <2>1
  <2>3. (s * (l + 1) + (r + k - s)) % s = r + k - s
    BY <2>1, <2>2, RemainderIs
  <2> QED BY <1>1, <2>2, <2>3 DEF r
<1> QED BY <1>1, <1>2, <1>3

-----------------------------------------------------------------------------
(***************************************************************************)
(* Counters of m values.  How far counter x is beyond counter y:           *)
(***************************************************************************)
Ahead(m, x, y) == (x + m - y) % m

LEMMA AheadCases ==
    ASSUME NEW m \in Nat, m > 0, NEW x \in 0 .. m - 1, NEW y \in 0 .. m - 1
    PROVE  /\ Ahead(m, x, y) = IF x >= y THEN x - y ELSE x + m - y
           /\ Ahead(m, x, y) \in 0 .. m - 1
<1>1. x + m - y \in 0 .. 2 * m - 1
  OBVIOUS
<1>2. Ahead(m, x, y) = IF x + m - y < m THEN x + m - y ELSE x + m - y - m
  BY <1>1, ModCases DEF Ahead
<1> QED BY <1>2

LEMMA AheadZero ==
    ASSUME NEW m \in Nat, m > 0, NEW x \in 0 .. m - 1, NEW y \in 0 .. m - 1
    PROVE  Ahead(m, x, y) = 0 <=> x = y
<1>1. Ahead(m, x, y) = IF x >= y THEN x - y ELSE x + m - y
  BY AheadCases
<1> QED BY <1>1

LEMMA NextCases ==
    ASSUME NEW m \in Nat, m > 0, NEW x \in 0 .. m - 1
    PROVE  /\ (x + 1) % m = IF x + 1 = m THEN 0 ELSE x + 1
           /\ (x + 1) % m \in 0 .. m - 1
<1>1. x + 1 \in 0 .. 2 * m - 1
  OBVIOUS
<1>2. (x + 1) % m = IF x + 1 < m THEN x + 1 ELSE x + 1 - m
  BY <1>1, ModCases
<1> QED BY <1>2

\* Counting on by one, short of a lap.
LEMMA AheadNext ==
    ASSUME NEW m \in Nat, m > 0, NEW x \in 0 .. m - 1, NEW y \in 0 .. m - 1
    PROVE  /\ (x + 1) % m \in 0 .. m - 1
           /\ Ahead(m, x, y) + 1 < m => Ahead(m, (x + 1) % m, y) = Ahead(m, x, y) + 1
           /\ x # y => Ahead(m, x, (y + 1) % m) = Ahead(m, x, y) - 1
<1> DEFINE x1 == (x + 1) % m
           y1 == (y + 1) % m
<1>1. x1 \in 0 .. m - 1 /\ y1 \in 0 .. m - 1
  BY NextCases
<1>2. /\ x1 = IF x + 1 = m THEN 0 ELSE x + 1
      /\ y1 = IF y + 1 = m THEN 0 ELSE y + 1
  BY NextCases
<1> HIDE DEF x1, y1
<1>3. /\ Ahead(m, x1, y) = IF x1 >= y THEN x1 - y ELSE x1 + m - y
      /\ Ahead(m, x, y1) = IF x >= y1 THEN x - y1 ELSE x + m - y1
      /\ Ahead(m, x, y) = IF x >= y THEN x - y ELSE x + m - y
  BY <1>1, AheadCases
<1>4. /\ Ahead(m, x, y) + 1 < m => Ahead(m, x1, y) = Ahead(m, x, y) + 1
      /\ x # y => Ahead(m, x, y1) = Ahead(m, x, y) - 1
  BY <1>1, <1>2, <1>3
<1> QED BY <1>1, <1>4 DEF x1, y1

LEMMA AheadBefore ==
    ASSUME NEW m \in Nat, m > 0, NEW x \in 0 .. m - 1, NEW y \in 0 .. m - 1,
           Ahead(m, (x + 1) % m, y) > 0
    PROVE  Ahead(m, x, y) = Ahead(m, (x + 1) % m, y) - 1
<1> DEFINE x1 == (x + 1) % m
<1>1. x1 \in 0 .. m - 1 /\ x1 = IF x + 1 = m THEN 0 ELSE x + 1
  BY NextCases
<1> HIDE DEF x1
<1>2. /\ Ahead(m, x1, y) = IF x1 >= y THEN x1 - y ELSE x1 + m - y
      /\ Ahead(m, x, y) = IF x >= y THEN x - y ELSE x + m - y
  BY <1>1, AheadCases
<1>3. Ahead(m, x1, y) > 0
  BY DEF x1
<1>4. Ahead(m, x, y) = Ahead(m, x1, y) - 1
  BY <1>1, <1>2, <1>3
<1> QED BY <1>4 DEF x1

\* The counter as far beyond y as x is names the slot of x.
LEMMA AheadSlot ==
    ASSUME NEW s \in Nat, s > 0, NEW m \in Nat, m > 0, m % s = 0,
           NEW x \in 0 .. m - 1, NEW y \in 0 .. m - 1
    PROVE  (y + Ahead(m, x, y)) % s = x % s
<1>1. Ahead(m, x, y) = IF x >= y THEN x - y ELSE x + m - y
  BY AheadCases
<1>2. CASE x >= y
  BY <1>1, <1>2
<1>3. CASE x < y
  <2>1. /\ m = s * (m \div s) + (m % s)
        /\ m \div s \in Int
    BY DivMod
  <2>2. m = s * (m \div s)
    BY <2>1
  <2>3. x \in Int
    OBVIOUS
  <2>4. (x + s * (m \div s)) % s = x % s
    BY <2>1, <2>3, LapsOff
  <2>5. y + Ahead(m, x, y) = x + m
    BY <1>1, <1>3
  <2> QED BY <2>2, <2>4, <2>5
<1> QED BY <1>2, <1>3

-----------------------------------------------------------------------------
(***************************************************************************)
(* The n elements of a ring of s slots from counter first on.              *)
(***************************************************************************)
RingSeq(ring, s, first, n) == [k \in 1 .. n |-> ring[(first + k - 1) % s]]

\* The slot after the last.
LEMMA RingAppend ==
    ASSUME NEW s, NEW ring, NEW first \in Int, NEW n \in Nat
    PROVE  RingSeq(ring, s, first, n + 1)
               = Append(RingSeq(ring, s, first, n), ring[(first + n) % s])
<1>1. first + (n + 1) - 1 = first + n
  OBVIOUS
<1> QED BY <1>1 DEF RingSeq

\* The slot of the first counter.
LEMMA RingTail ==
    ASSUME NEW s, NEW ring, NEW first \in Int, NEW n \in Nat, n > 0
    PROVE  /\ RingSeq(ring, s, first, n) # <<>>
           /\ Head(RingSeq(ring, s, first, n)) = ring[first % s]
           /\ Tail(RingSeq(ring, s, first, n)) = RingSeq(ring, s, first + 1, n - 1)
<1> DEFINE r == RingSeq(ring, s, first, n)
<1>1. Len(r) = n /\ r # <<>>
  BY DEF RingSeq
<1>2. Head(r) = ring[first % s]
  <2>1. first + 1 - 1 = first
    OBVIOUS
  <2> QED BY <2>1 DEF RingSeq
<1>3. Tail(r) = [k \in 1 .. n - 1 |-> ring[(first + (k + 1) - 1) % s]]
  BY DEF RingSeq
<1>4. \A k \in 1 .. n - 1 : first + (k + 1) - 1 = (first + 1) + k - 1
  OBVIOUS
<1> QED BY <1>1, <1>2, <1>3, <1>4 DEF RingSeq

LEMMA RingEmpty ==
    ASSUME NEW s, NEW ring, NEW first
    PROVE  RingSeq(ring, s, first, 0) = <<>>
<1>1. RingSeq(ring, s, first, 0) \in Seq({}) /\ Len(RingSeq(ring, s, first, 0)) = 0
  BY DEF RingSeq
<1> QED BY <1>1

\* Where the first counter wraps makes no difference.
LEMMA RingWrap ==
    ASSUME NEW s \in Nat, s > 0, NEW m \in Nat, m > 0, m % s = 0,
           NEW ring, NEW x \in Int, NEW n \in Nat
    PROVE  RingSeq(ring, s, x % m, n) = RingSeq(ring, s, x, n)
<1>1. ASSUME NEW k \in 1 .. n
      PROVE  ((x % m) + k - 1) % s = (x + k - 1) % s
  <2>1. k - 1 \in Int /\ x % m \in Int
    BY DivMod
  <2>2. ((x % m) + (k - 1)) % s = (x + (k - 1)) % s
    BY <2>1, WrapKeepsSlots
  <2>3. (x % m) + (k - 1) = (x % m) + k - 1 /\ x + (k - 1) = x + k - 1
    BY <2>1
  <2> QED BY <2>2, <2>3
<1> QED BY <1>1 DEF RingSeq

\* A write to the slot after the last, when the ring is not full.
LEMMA RingWriteOutside ==
    ASSUME NEW s \in Nat, s > 0, NEW V, NEW ring \in [0 .. s - 1 -> V], NEW first \in Int,
           NEW n \in 0 .. s - 1, NEW v
    PROVE  RingSeq([ring EXCEPT ![(first + n) % s] = v], s, first, n)
               = RingSeq(ring, s, first, n)
<1>1. ASSUME NEW k \in 1 .. n
      PROVE  /\ (first + k - 1) % s # (first + n) % s
             /\ (first + k - 1) % s \in 0 .. s - 1
  <2>1. (first + k - 1) + (n - k + 1) = first + n
    OBVIOUS
  <2>2. first + k - 1 \in Int /\ n - k + 1 \in 1 .. s - 1
    OBVIOUS
  <2>3. ((first + k - 1) + (n - k + 1)) % s # (first + k - 1) % s
    BY <2>2, OtherSlot
  <2> QED BY <2>1, <2>2, <2>3, DivMod
<1> QED BY <1>1 DEF RingSeq
\* A write to the first slot, when it is no longer one of them.
LEMMA RingWriteFirst ==
    ASSUME NEW s \in Nat, s > 0, NEW V, NEW ring \in [0 .. s - 1 -> V], NEW first \in Int,
           NEW n \in 1 .. s, NEW v
    PROVE  RingSeq([ring EXCEPT ![first % s] = v], s, first + 1, n - 1)
               = RingSeq(ring, s, first + 1, n - 1)
<1>1. ASSUME NEW k \in 1 .. n - 1
      PROVE  /\ (first + 1 + k - 1) % s # first % s
             /\ (first + 1 + k - 1) % s \in 0 .. s - 1
  <2>1. first + 1 + k - 1 = first + k /\ first + k \in Int /\ k \in 1 .. s - 1
    OBVIOUS
  <2>2. (first + k) % s # first % s
    BY <2>1, OtherSlot
  <2> QED BY <2>1, <2>2, DivMod
<1> QED BY <1>1 DEF RingSeq

-----------------------------------------------------------------------------
(***************************************************************************)
(* The n slots of such a ring, or those in one state, from a counter on.   *)
(***************************************************************************)
RingSlots(s, first, n) == {(first + k) % s : k \in 0 .. n - 1}

LEMMA SlotsAppend ==
    ASSUME NEW s \in Nat, s > 0, NEW first \in Int, NEW n \in Nat
    PROVE  RingSlots(s, first, n + 1) = RingSlots(s, first, n) \cup {(first + n) % s}
<1>1. 0 .. (n + 1) - 1 = (0 .. n - 1) \cup {n}
  OBVIOUS
<1> QED BY <1>1 DEF RingSlots

\* The slot after the last, when the ring is full, is the first.
LEMMA SlotsFull ==
    ASSUME NEW s \in Nat, s > 0, NEW first \in Int
    PROVE  (first + s) % s \in RingSlots(s, first, s)
<1>1. (first + s * 1) % s = first % s
  <2>1. 1 \in Int
    OBVIOUS
  <2> QED BY <2>1, LapsOff
<1>2. first + s * 1 = first + s /\ first + 0 = first /\ 0 \in 0 .. s - 1
  OBVIOUS
<1>3. (first + 0) % s = (first + s) % s
  BY <1>1, <1>2
<1> QED BY <1>2, <1>3 DEF RingSlots

LEMMA SlotsFirst ==
    ASSUME NEW s \in Nat, s > 0, NEW first \in Int, NEW n \in 0 .. s
    PROVE  /\ first % s \in RingSlots(s, first, n) <=> n > 0
           /\ n > 0 => RingSlots(s, first + 1, n - 1) = RingSlots(s, first, n) \ {first % s}
<1>1. ASSUME n > 0 PROVE first % s \in RingSlots(s, first, n)
  <2>1. first + 0 = first /\ 0 \in 0 .. n - 1
    BY <1>1
  <2>2. (first + 0) % s = first % s
    BY <2>1
  <2> QED BY <2>1, <2>2 DEF RingSlots
<1>2. ASSUME n = 0 PROVE RingSlots(s, first, n) = {}
  BY <1>2 DEF RingSlots
<1>3. ASSUME n > 0
      PROVE  RingSlots(s, first + 1, n - 1) = RingSlots(s, first, n) \ {first % s}
  <2>1. ASSUME NEW k \in 0 .. n - 2
        PROVE  /\ ((first + 1) + k) % s \in RingSlots(s, first, n)
               /\ ((first + 1) + k) % s # first % s
    <3>1. (first + 1) + k = first + (k + 1) /\ k + 1 \in 0 .. n - 1 /\ k + 1 \in 1 .. s - 1
      OBVIOUS
    <3>2. (first + (k + 1)) % s # first % s
      BY <3>1, OtherSlot
    <3>3. (first + (k + 1)) % s \in RingSlots(s, first, n)
      BY <3>1 DEF RingSlots
    <3> QED BY <3>1, <3>2, <3>3
  <2>2. ASSUME NEW k \in 0 .. n - 1, (first + k) % s # first % s
        PROVE  (first + k) % s \in RingSlots(s, first + 1, n - 1)
    <3>1. k # 0
      <4>1. first + 0 = first
        OBVIOUS
      <4> QED BY <2>2, <4>1
    <3>2. first + k = (first + 1) + (k - 1) /\ k - 1 \in 0 .. (n - 1) - 1
      BY <3>1
    <3> QED BY <3>2 DEF RingSlots
  <2>3. 0 .. (n - 1) - 1 = 0 .. n - 2
    OBVIOUS
  <2>4. RingSlots(s, first + 1, n - 1) \subseteq RingSlots(s, first, n) \ {first % s}
    BY <2>1, <2>3 DEF RingSlots
  <2>5. RingSlots(s, first, n) \ {first % s} \subseteq RingSlots(s, first + 1, n - 1)
    BY <2>2 DEF RingSlots
  <2> QED BY <2>4, <2>5
<1> QED BY <1>1, <1>2, <1>3

LEMMA SlotsWrap ==
    ASSUME NEW s \in Nat, s > 0, NEW m \in Nat, m > 0, m % s = 0,
           NEW x \in Int, NEW n \in Nat
    PROVE  /\ RingSlots(s, x % m, n) = RingSlots(s, x, n)
           /\ RingSlots(s, (x % m) - 1, n) = RingSlots(s, x - 1, n)
<1>1. x % m \in Int
  BY DivMod
<1>2. ASSUME NEW k \in 0 .. n - 1
      PROVE  ((x % m) + k) % s = (x + k) % s
  <2>1. k \in Int
    OBVIOUS
  <2> QED BY <2>1, WrapKeepsSlots
<1>3. ASSUME NEW k \in 0 .. n - 1
      PROVE  (((x % m) - 1) + k) % s = ((x - 1) + k) % s
  <2>1. k - 1 \in Int
    OBVIOUS
  <2>2. ((x % m) + (k - 1)) % s = (x + (k - 1)) % s
    BY <2>1, WrapKeepsSlots
  <2>3. (x % m) + (k - 1) = ((x % m) - 1) + k /\ x + (k - 1) = (x - 1) + k
    BY <1>1
  <2> QED BY <2>2, <2>3
<1>4. RingSlots(s, x % m, n) = RingSlots(s, x, n)
  BY <1>2 DEF RingSlots
<1>5. RingSlots(s, (x % m) - 1, n) = RingSlots(s, x - 1, n)
  BY <1>3 DEF RingSlots
<1> QED BY <1>4, <1>5

-----------------------------------------------------------------------------
(***************************************************************************)
(* AtomicQueueMutex: the inductive invariant.                              *)
(***************************************************************************)
RingPcs == {"idle", "lock", "fetchTicket", "spin", "check", "move", "count", "unlock"}

RingLen == Ahead(Lap, ringHead, ringTail)

\* Past lock(); with a ticket that next_ has not passed.
InRing(t) == ringPc[t] \in {"check", "move", "count", "unlock"}
Queued(t) == ringPc[t] = "spin" \/ InRing(t)

RingTypeOK ==
    /\ lockKind \in {"system", "ticket"}
    /\ owner \in RingThreads \cup {Blank}
    /\ ticket_ \in 0 .. Lap - 1 /\ next_ \in 0 .. Lap - 1
    /\ ringHead \in 0 .. Lap - 1 /\ ringTail \in 0 .. Lap - 1
    /\ q_ \in [0 .. RingSize - 1 -> RingData \cup {Blank}]
    /\ ringPc \in [RingThreads -> RingPcs]
    /\ myTicket \in [RingThreads -> 0 .. Lap - 1]
    /\ ringOut \in RingData \cup {Blank}

\* Who is past lock() of a system lock owns it.
SystemLockHeld ==
    lockKind = "system" =>
        \A t \in RingThreads :
            ringPc[t] \notin {"fetchTicket", "spin"} /\ (InRing(t) => owner = t)

\* The tickets of the ticket lock that are out are those from next_ to ticket_, one
\* for each thread in the queue, so they never go round all of unsigned; only the
\* first one is past lock().
TicketsAreQueued ==
    lockKind = "ticket" =>
        /\ Ahead(Lap, ticket_, next_) = Cardinality({t \in RingThreads : Queued(t)})
        /\ \A t \in RingThreads :
               /\ ringPc[t] # "lock"
               /\ Queued(t) => Ahead(Lap, myTicket[t], next_) < Ahead(Lap, ticket_, next_)
               /\ InRing(t) => myTicket[t] = next_
        /\ \A t, u \in RingThreads :
               Queued(t) /\ Queued(u) /\ t # u => myTicket[t] # myTicket[u]

\* What a thread has found out under the lock holds until it acts on it.
RoomIsKept ==
    /\ RingLen <= RingSize
    /\ \A t \in RingPushers :
           /\ ringPc[t] \in {"move", "count"} => RingLen < RingSize
           /\ ringPc[t] = "count" => q_[ringHead % RingSize] \in RingData
    /\ \A t \in RingPoppers : ringPc[t] \in {"move", "count"} => RingLen > 0

RingInv == RingTypeOK /\ SystemLockHeld /\ TicketsAreQueued /\ RoomIsKept

LEMMA LapType ==
    /\ Lap \in Nat /\ Lap > 0
    /\ RingSize \in Nat /\ RingSize > 0 /\ RingSize < Lap
<1>1. Lap \in Nat \ {0} /\ RingSize \in Nat \ {0} /\ RingSize < Lap
  BY Zenon, AtomicQueueMutexAssumption
<1> QED BY <1>1

\* Mutual exclusion: at most one thread is past lock() (spinlock.h:80-91).
LEMMA Alone ==
    ASSUME RingTypeOK, SystemLockHeld, TicketsAreQueued,
           NEW t \in RingThreads, NEW u \in RingThreads, InRing(t), InRing(u)
    PROVE  t = u
<1>1. CASE lockKind = "system"
  BY <1>1 DEF SystemLockHeld
<1>2. CASE lockKind = "ticket"
  BY <1>2 DEF TicketsAreQueued, Queued
<1> QED BY <1>1, <1>2 DEF RingTypeOK

LEMMA RingInitInv ==
    ASSUME Locks \subseteq {"system", "ticket"}, RingInit
    PROVE  RingInv
<1>0. 0 \in 0 .. Lap - 1 /\ 0 \in 0 .. RingSize - 1
  BY LapType
<1>1. RingTypeOK
  BY <1>0 DEF RingInit, RingTypeOK, RingPcs
<1>2. Ahead(Lap, 0, 0) = 0
  BY <1>0, LapType, AheadCases
<1>3. \A t \in RingThreads : ringPc[t] = "idle"
  BY DEF RingInit
<1>4. {t \in RingThreads : Queued(t)} = {}
  BY <1>3 DEF Queued, InRing
<1>5. SystemLockHeld /\ TicketsAreQueued
  BY <1>2, <1>3, <1>4, FS_EmptySet
     DEF RingInit, SystemLockHeld, TicketsAreQueued, Queued, InRing
<1>6. RoomIsKept
  BY <1>2, <1>3, LapType DEF RingInit, RoomIsKept, RingLen, RingThreads
<1> QED BY <1>1, <1>5, <1>6 DEF RingInv

-----------------------------------------------------------------------------
(***************************************************************************)
(* AtomicQueueMutex: each step preserves the invariant.                    *)
(***************************************************************************)
LEMMA RingTypeStep == RingTypeOK /\ [RingNext]_ringVars => RingTypeOK'
<1> SUFFICES ASSUME RingTypeOK, [RingNext]_ringVars PROVE RingTypeOK'
  OBVIOUS
<1> USE DEF RingGoto, lockVars
<1>0. \A x \in 0 .. Lap - 1 : (x + 1) % Lap \in 0 .. Lap - 1
  BY LapType, NextCases
<1>00. 0 \in 0 .. Lap - 1
  BY LapType
<1>1. ASSUME NEW t \in RingThreads, LockBegin(t) PROVE RingTypeOK'
  BY <1>1 DEF LockBegin, RingTypeOK, RingPcs
<1>2. ASSUME NEW t \in RingThreads, SystemLock(t) PROVE RingTypeOK'
  BY <1>2 DEF SystemLock, RingTypeOK, RingPcs
<1>3. ASSUME NEW t \in RingThreads, FetchTicket(t) PROVE RingTypeOK'
  BY <1>0, <1>3 DEF FetchTicket, RingTypeOK, RingPcs
<1>4. ASSUME NEW t \in RingThreads, SpinUntilNext(t) PROVE RingTypeOK'
  BY <1>4 DEF SpinUntilNext, RingTypeOK, RingPcs
<1>5. ASSUME NEW t \in RingThreads, RingUnlock(t) PROVE RingTypeOK'
  <2>1. CASE lockKind = "system"
    BY <1>00, <1>5, <2>1 DEF RingUnlock, RingTypeOK, RingPcs
  <2>2. CASE lockKind = "ticket"
    <3>1. next_' = (myTicket[t] + 1) % Lap
      BY <1>5, <2>2 DEF RingUnlock, UnlockArgument
    <3>2. next_' \in 0 .. Lap - 1
      BY <1>0, <3>1 DEF RingTypeOK
    <3> QED BY <1>00, <1>5, <2>2, <3>2 DEF RingUnlock, RingTypeOK, RingPcs
  <2> QED BY <2>1, <2>2 DEF RingTypeOK
<1>6. ASSUME NEW t \in RingThreads, RingCheck(t) PROVE RingTypeOK'
  <2>1. ringPc' = [ringPc EXCEPT ![t] = "move"] \/ ringPc' = [ringPc EXCEPT ![t] = "unlock"]
    BY <1>6 DEF RingCheck
  <2> QED BY <1>6, <2>1 DEF RingCheck, RingTypeOK, RingPcs
<1>7. ASSUME NEW t \in RingThreads, RingMove(t) PROVE RingTypeOK'
  <2>1. ringTail % RingSize \in 0 .. RingSize - 1
    BY LapType, DivMod DEF RingTypeOK
  <2> QED BY <1>7, <2>1 DEF RingMove, RingTypeOK, RingPcs
<1>8. ASSUME NEW t \in RingThreads, RingCount(t) PROVE RingTypeOK'
  BY <1>0, <1>8 DEF RingCount, RingTypeOK, RingPcs
<1>9. CASE UNCHANGED ringVars
  BY <1>9 DEF ringVars, RingTypeOK
<1> QED BY <1>1, <1>2, <1>3, <1>4, <1>5, <1>6, <1>7, <1>8, <1>9 DEF RingNext, RingSteps

\* A thread that stays in the queue, or out of it, leaves the queue as it was.
LEMMA SameQueue ==
    ASSUME NEW t \in RingThreads, RingTypeOK, NEW label, RingGoto(t, label),
           Queued(t) <=> Queued(t)'
    PROVE  {u \in RingThreads : Queued(u)}' = {u \in RingThreads : Queued(u)}
<1>1. RingThreads' = RingThreads
  BY DEF RingThreads
<1>2. \A u \in RingThreads : Queued(u)' <=> Queued(u)
  BY DEF RingGoto, RingTypeOK, Queued, InRing
<1> QED BY <1>1, <1>2

LEMMA SystemLockStep ==
    ASSUME RingTypeOK, SystemLockHeld, TicketsAreQueued, [RingNext]_ringVars
    PROVE  SystemLockHeld'
<1> SUFFICES ASSUME lockKind = "system" PROVE SystemLockHeld'
  <2>1. lockKind' = lockKind
    BY DEF RingNext, RingSteps, LockBegin, SystemLock, FetchTicket, SpinUntilNext,
           RingUnlock, RingCheck, RingMove, RingCount, ringVars
  <2> QED BY <2>1 DEF SystemLockHeld
<1> USE DEF RingGoto, lockVars, RingTypeOK, SystemLockHeld, InRing
<1>1. ASSUME NEW t \in RingThreads, LockBegin(t) PROVE SystemLockHeld'
  BY <1>1 DEF LockBegin
<1>2. ASSUME NEW t \in RingThreads, SystemLock(t) PROVE SystemLockHeld'
  <2>1. \A u \in RingThreads : ~InRing(u)
    BY <1>2, AtomicQueueMutexAssumption DEF SystemLock
  <2> QED BY <1>2, <2>1 DEF SystemLock
<1>3. ASSUME NEW t \in RingThreads, FetchTicket(t) \/ SpinUntilNext(t) PROVE FALSE
  BY <1>3 DEF FetchTicket, SpinUntilNext
<1>4. ASSUME NEW t \in RingThreads, RingUnlock(t) PROVE SystemLockHeld'
  BY <1>4, Alone DEF RingUnlock
<1>5. ASSUME NEW t \in RingThreads, RingCheck(t) \/ RingMove(t) \/ RingCount(t)
      PROVE  SystemLockHeld'
  <2>1. InRing(t) /\ owner' = owner
    BY <1>5 DEF RingCheck, RingMove, RingCount
  <2>2. PICK label \in {"move", "count", "unlock"} : RingGoto(t, label)
    BY <1>5 DEF RingCheck, RingMove, RingCount
  <2> QED BY <2>1, <2>2
<1>6. CASE UNCHANGED ringVars
  BY <1>6 DEF ringVars
<1> QED BY <1>1, <1>2, <1>3, <1>4, <1>5, <1>6 DEF RingNext, RingSteps

\* A thread fetches a ticket: there is one left, the queue being shorter than a lap.
LEMMA FetchTicketStep ==
    ASSUME RingTypeOK, TicketsAreQueued, lockKind = "ticket",
           NEW t \in RingThreads, FetchTicket(t)
    PROVE  TicketsAreQueued'
<1> DEFINE queue1 == {u \in RingThreads : Queued(u)}
<1>1. /\ ticket_ \in 0 .. Lap - 1 /\ next_ \in 0 .. Lap - 1
      /\ \A u \in RingThreads : myTicket[u] \in 0 .. Lap - 1
  BY DEF RingTypeOK
<1>2. /\ ticket_' = (ticket_ + 1) % Lap /\ next_' = next_ /\ lockKind' = lockKind
      /\ ringPc[t] = "fetchTicket" /\ ringPc'[t] = "spin" /\ myTicket'[t] = ticket_
      /\ \A u \in RingThreads \ {t} : ringPc'[u] = ringPc[u] /\ myTicket'[u] = myTicket[u]
  BY DEF FetchTicket, RingGoto, RingTypeOK
<1>3. queue1' = queue1 \cup {t} /\ t \notin queue1
  BY <1>2 DEF Queued, InRing, RingThreads
<1>4. /\ Cardinality(queue1') = Cardinality(queue1) + 1
      /\ Cardinality(queue1') < Lap
  <2>1. IsFiniteSet(RingThreads) /\ Cardinality(RingThreads) < Lap
    BY Zenon, AtomicQueueMutexAssumption
  <2>2. IsFiniteSet(queue1)
    BY <2>1, FS_Subset
  <2>3. Cardinality(queue1') = Cardinality(queue1) + 1
    BY <1>3, <2>2, FS_AddElement
  <2>4. queue1' \subseteq RingThreads
    BY <1>3
  <2>5. Cardinality(queue1') <= Cardinality(RingThreads)
    BY <2>1, <2>4, FS_Subset
  <2>6. Cardinality(queue1') \in Nat /\ Cardinality(RingThreads) \in Nat
    BY <2>1, <2>2, <2>4, FS_Subset, FS_CardinalityType
  <2> QED BY <2>1, <2>3, <2>5, <2>6, LapType
<1> HIDE DEF queue1
<1>5. Ahead(Lap, ticket_, next_) = Cardinality(queue1)
  BY DEF TicketsAreQueued, queue1
<1>6. Ahead(Lap, ticket_', next_') = Ahead(Lap, ticket_, next_) + 1
  BY <1>1, <1>2, <1>4, <1>5, LapType, AheadNext
<1>7. Ahead(Lap, ticket_, next_) \in 0 .. Lap - 1
  BY <1>1, LapType, AheadCases
<1>8. \A u \in RingThreads \ {t} : Queued(u)' <=> Queued(u)
  BY <1>2 DEF Queued, InRing
<1>9. ASSUME NEW u \in RingThreads \ {t}, Queued(u)
      PROVE  Ahead(Lap, myTicket[u], next_) < Ahead(Lap, ticket_, next_)
  BY <1>9 DEF TicketsAreQueued
<1>10. \A u \in RingThreads : Ahead(Lap, myTicket[u], next_) \in 0 .. Lap - 1
  BY <1>1, LapType, AheadCases
<1>11. ASSUME NEW u \in RingThreads, Queued(u)'
       PROVE  Ahead(Lap, myTicket'[u], next_') < Ahead(Lap, ticket_', next_')
  <2>1. CASE u = t
    BY <1>2, <1>6, <1>7, <2>1, LapType
  <2>2. CASE u # t
    BY <1>2, <1>6, <1>7, <1>8, <1>9, <1>10, <1>11, <2>2, LapType
  <2> QED BY <2>1, <2>2
<1>12. ASSUME NEW u \in RingThreads, InRing(u)' PROVE u # t /\ myTicket'[u] = next_'
  BY <1>2, <1>12 DEF TicketsAreQueued, InRing
<1>13. ASSUME NEW u \in RingThreads \ {t}, Queued(u) PROVE myTicket'[u] # myTicket'[t]
  <2>1. myTicket[u] # ticket_
    BY <1>7, <1>9, <1>13
  <2> QED BY <1>2, <2>1
<1>14. ASSUME NEW u \in RingThreads, NEW v \in RingThreads, Queued(u)', Queued(v)', u # v
       PROVE  myTicket'[u] # myTicket'[v]
  BY <1>2, <1>8, <1>13, <1>14 DEF TicketsAreQueued
<1>15. RingThreads' = RingThreads
  BY DEF RingThreads
<1>16. \A u \in RingThreads : ringPc'[u] # "lock"
  BY <1>2 DEF TicketsAreQueued
<1>17. Ahead(Lap, ticket_', next_') = Cardinality(queue1')
  BY <1>4, <1>5, <1>6
<1> QED BY <1>11, <1>12, <1>14, <1>15, <1>16, <1>17 DEF TicketsAreQueued, Ahead, queue1

\* The first thread of the queue leaves; the one that fetched the next ticket is first.
LEMMA TicketUnlockStep ==
    ASSUME RingTypeOK, SystemLockHeld, TicketsAreQueued, lockKind = "ticket",
           NEW t \in RingThreads, RingUnlock(t)
    PROVE  TicketsAreQueued'
<1> DEFINE queue1 == {u \in RingThreads : Queued(u)}
<1>1. /\ ticket_ \in 0 .. Lap - 1 /\ next_ \in 0 .. Lap - 1
      /\ \A u \in RingThreads : myTicket[u] \in 0 .. Lap - 1
  BY DEF RingTypeOK
<1>2. InRing(t) /\ Queued(t) /\ myTicket[t] = next_
  BY DEF RingUnlock, InRing, Queued, TicketsAreQueued
<1>3. /\ next_' = (next_ + 1) % Lap /\ ticket_' = ticket_ /\ lockKind' = lockKind
      /\ ringPc'[t] = "idle"
      /\ \A u \in RingThreads \ {t} : ringPc'[u] = ringPc[u] /\ myTicket'[u] = myTicket[u]
  BY <1>2 DEF RingUnlock, UnlockArgument, RingGoto, RingTypeOK
<1>4. queue1' = queue1 \ {t} /\ t \in queue1
  BY <1>2, <1>3 DEF Queued, InRing, RingThreads
<1>5. Cardinality(queue1') = Cardinality(queue1) - 1
  <2>1. IsFiniteSet(RingThreads)
    BY Zenon, AtomicQueueMutexAssumption
  <2>2. IsFiniteSet(queue1)
    BY <2>1, FS_Subset
  <2> QED BY <1>4, <2>2, FS_RemoveElement
<1> HIDE DEF queue1
<1>6. ticket_ # next_
  <2>1. Ahead(Lap, myTicket[t], next_) < Ahead(Lap, ticket_, next_)
    BY <1>2 DEF TicketsAreQueued
  <2>2. Ahead(Lap, myTicket[t], next_) = 0
    BY <1>1, <1>2, LapType, AheadZero
  <2>3. Ahead(Lap, ticket_, next_) # 0
    BY <2>1, <2>2
  <2> QED BY <1>1, <2>3, LapType, AheadZero
<1>7. Ahead(Lap, ticket_', next_') = Ahead(Lap, ticket_, next_) - 1
  BY <1>1, <1>3, <1>6, LapType, AheadNext
<1>8. \A u \in RingThreads : Queued(u)' => u # t /\ Queued(u)
  BY <1>3 DEF Queued, InRing
<1>9. ASSUME NEW u \in RingThreads, Queued(u)'
      PROVE  Ahead(Lap, myTicket'[u], next_') < Ahead(Lap, ticket_', next_')
  <2>1. u # t /\ Queued(u) /\ myTicket'[u] = myTicket[u]
    BY <1>3, <1>8, <1>9
  <2>2. myTicket[u] # next_
    BY <1>2, <2>1 DEF TicketsAreQueued
  <2>3. Ahead(Lap, myTicket[u], next_') = Ahead(Lap, myTicket[u], next_) - 1
    BY <1>1, <1>3, <2>2, LapType, AheadNext
  <2>4. Ahead(Lap, myTicket[u], next_) < Ahead(Lap, ticket_, next_)
    BY <2>1 DEF TicketsAreQueued
  <2>5. Ahead(Lap, myTicket[u], next_) \in 0 .. Lap - 1 /\ Ahead(Lap, ticket_, next_) \in 0 .. Lap - 1
    BY <1>1, LapType, AheadCases
  <2> QED BY <1>7, <2>1, <2>3, <2>4, <2>5, LapType
<1>10. \A u \in RingThreads : ~InRing(u)'
  <2> SUFFICES ASSUME NEW u \in RingThreads, InRing(u)' PROVE FALSE
    OBVIOUS
  <2>1. u # t /\ InRing(u)
    BY <1>3 DEF InRing
  <2> QED BY <1>2, <2>1, Alone
<1>11. ASSUME NEW u \in RingThreads, NEW v \in RingThreads, Queued(u)', Queued(v)', u # v
       PROVE  myTicket'[u] # myTicket'[v]
  BY <1>3, <1>8, <1>11 DEF TicketsAreQueued
<1>12. RingThreads' = RingThreads
  BY DEF RingThreads
<1>13. \A u \in RingThreads : ringPc'[u] # "lock"
  BY <1>3 DEF TicketsAreQueued
<1>14. Ahead(Lap, ticket_', next_') = Cardinality(queue1')
  BY <1>5, <1>7 DEF TicketsAreQueued, queue1
<1> QED BY <1>9, <1>10, <1>11, <1>12, <1>13, <1>14
        DEF TicketsAreQueued, Ahead, queue1

LEMMA TicketsStep ==
    ASSUME RingTypeOK, SystemLockHeld, TicketsAreQueued, [RingNext]_ringVars
    PROVE  TicketsAreQueued'
<1> SUFFICES ASSUME lockKind = "ticket" PROVE TicketsAreQueued'
  <2>1. lockKind' = lockKind
    BY DEF RingNext, RingSteps, LockBegin, SystemLock, FetchTicket, SpinUntilNext,
           RingUnlock, RingCheck, RingMove, RingCount, ringVars
  <2> QED BY <2>1 DEF TicketsAreQueued
<1>1. ASSUME NEW t \in RingThreads, NEW label \in {"fetchTicket", "check", "move", "count",
                                                   "unlock"},
             RingGoto(t, label), Queued(t) <=> Queued(t)',
             UNCHANGED <<lockKind, lockVars, myTicket>>,
             InRing(t)' => myTicket[t] = next_
      PROVE  TicketsAreQueued'
  <2>1. {u \in RingThreads : Queued(u)}' = {u \in RingThreads : Queued(u)}
    BY <1>1, SameQueue
  <2>2. RingThreads' = RingThreads /\ Ahead(Lap, ticket_, next_)' = Ahead(Lap, ticket_, next_)
    BY <1>1 DEF RingThreads, Ahead, lockVars
  <2>3. /\ ringPc'[t] = label
        /\ \A u \in RingThreads \ {t} : ringPc'[u] = ringPc[u]
    BY <1>1 DEF RingGoto, RingTypeOK
  <2>4. \A u \in RingThreads : Queued(u)' <=> Queued(u)
    BY <1>1, <2>3 DEF Queued, InRing
  <2>5. \A u \in RingThreads : Ahead(Lap, myTicket[u], next_)' = Ahead(Lap, myTicket[u], next_)
    BY <1>1 DEF Ahead, lockVars
  <2>6. \A u \in RingThreads : InRing(u)' => myTicket'[u] = next_'
    BY <1>1, <2>3 DEF InRing, lockVars, TicketsAreQueued
  <2>7. \A u \in RingThreads : ringPc'[u] # "lock"
    BY <1>1, <2>3 DEF TicketsAreQueued
  <2>8. ticket_' = ticket_ /\ next_' = next_ /\ myTicket' = myTicket
    BY <1>1 DEF lockVars
  <2> QED BY <2>1, <2>2, <2>4, <2>5, <2>6, <2>7, <2>8 DEF TicketsAreQueued
<1>2. ASSUME NEW t \in RingThreads, LockBegin(t) PROVE TicketsAreQueued'
  BY <1>1, <1>2 DEF LockBegin, RingGoto, RingTypeOK, Queued, InRing
<1>3. ASSUME NEW t \in RingThreads, SystemLock(t) PROVE FALSE
  BY <1>3 DEF SystemLock, TicketsAreQueued
<1>4. ASSUME NEW t \in RingThreads, FetchTicket(t) PROVE TicketsAreQueued'
  BY <1>4, FetchTicketStep
<1>5. ASSUME NEW t \in RingThreads, SpinUntilNext(t) PROVE TicketsAreQueued'
  <2>1. Ahead(Lap, myTicket[t], next_) = 0
    BY <1>5 DEF SpinUntilNext, Ahead
  <2>2. myTicket[t] \in 0 .. Lap - 1 /\ next_ \in 0 .. Lap - 1
    BY DEF RingTypeOK
  <2>3. myTicket[t] = next_
    BY <2>1, <2>2, LapType, AheadZero
  <2>4. RingGoto(t, "check") /\ Queued(t) /\ Queued(t)'
    BY <1>5 DEF SpinUntilNext, RingGoto, RingTypeOK, Queued, InRing
  <2> QED BY <1>1, <1>5, <2>3, <2>4 DEF SpinUntilNext
<1>6. ASSUME NEW t \in RingThreads, RingUnlock(t) PROVE TicketsAreQueued'
  BY <1>6, TicketUnlockStep
<1>7. ASSUME NEW t \in RingThreads, RingCheck(t) \/ RingMove(t) \/ RingCount(t)
      PROVE  TicketsAreQueued'
  <2>1. InRing(t) /\ UNCHANGED <<lockKind, lockVars, myTicket>>
    BY <1>7 DEF RingCheck, RingMove, RingCount, InRing
  <2>2. PICK label \in {"move", "count", "unlock"} : RingGoto(t, label)
    BY <1>7 DEF RingCheck, RingMove, RingCount
  <2>3. Queued(t) /\ Queued(t)'
    BY <2>1, <2>2 DEF RingGoto, RingTypeOK, Queued, InRing
  <2>4. myTicket[t] = next_
    BY <2>1 DEF TicketsAreQueued
  <2> QED BY <1>1, <2>1, <2>2, <2>3, <2>4
<1>8. CASE UNCHANGED ringVars
  BY <1>8 DEF ringVars, lockVars, TicketsAreQueued, Ahead, Queued, InRing, RingThreads
<1> QED BY <1>2, <1>3, <1>4, <1>5, <1>6, <1>7, <1>8 DEF RingNext, RingSteps

\* The check, the move and the count of one thread are not interrupted.
LEMMA RoomStep ==
    ASSUME RingInv, [RingNext]_ringVars
    PROVE  RoomIsKept'
<1>0. /\ RingTypeOK /\ RoomIsKept /\ RingPushers \cap RingPoppers = {}
      /\ ringHead \in 0 .. Lap - 1 /\ ringTail \in 0 .. Lap - 1 /\ RingLen \in 0 .. Lap - 1
  BY LapType, AheadCases, AtomicQueueMutexAssumption DEF RingInv, RingTypeOK, RingLen
<1>1. ASSUME UNCHANGED <<ringHead, ringTail, q_>>,
             NEW t \in RingThreads, NEW label \in RingPcs \ {"move", "count"},
             RingGoto(t, label)
      PROVE  RoomIsKept'
  <2>1. RingLen' = RingLen
    BY <1>1 DEF RingLen, Ahead
  <2>2. \A u \in RingThreads : ringPc'[u] \in {"move", "count"} => ringPc'[u] = ringPc[u]
    BY <1>0, <1>1 DEF RingGoto, RingTypeOK
  <2> QED BY <1>0, <1>1, <2>1, <2>2 DEF RoomIsKept, RingThreads
<1>2. ASSUME NEW t \in RingThreads,
             LockBegin(t) \/ SystemLock(t) \/ FetchTicket(t) \/ SpinUntilNext(t)
             \/ RingUnlock(t)
      PROVE  RoomIsKept'
  <2>1. UNCHANGED <<ringHead, ringTail, q_>>
    BY <1>2 DEF LockBegin, SystemLock, FetchTicket, SpinUntilNext, RingUnlock
  <2>2. PICK label \in RingPcs \ {"move", "count"} : RingGoto(t, label)
    BY <1>2 DEF LockBegin, SystemLock, FetchTicket, SpinUntilNext, RingUnlock, RingPcs
  <2> QED BY <1>1, <2>1, <2>2
<1>3. ASSUME NEW t \in RingThreads, RingCheck(t) PROVE RoomIsKept'
  <2>1. CASE RingGoto(t, "unlock")
    BY <1>1, <1>3, <2>1 DEF RingCheck, RingPcs
  <2>2. CASE RingGoto(t, "move")
    <3>1. RingLen' = RingLen
      BY <1>3 DEF RingCheck, RingLen, Ahead
    <3>2. t \in RingPushers => RingLen < RingSize
      BY <1>0, <1>3, <2>2 DEF RingCheck, RingGoto, Room, RingLen, Ahead, RingTypeOK
    <3>3. t \in RingPoppers => ringHead # ringTail
      BY <1>0, <1>3, <2>2 DEF RingCheck, RingGoto, RingTypeOK
    <3>4. t \in RingPoppers => RingLen > 0
      <4>1. t \in RingPoppers => RingLen # 0
        BY <1>0, <3>3, LapType, AheadZero DEF RingLen
      <4> QED BY <1>0, <4>1
    <3>5. /\ ringPc'[t] = "move" /\ q_' = q_ /\ ringHead' = ringHead
          /\ \A u \in RingThreads \ {t} : ringPc'[u] = ringPc[u]
      BY <1>0, <1>3, <2>2 DEF RingCheck, RingGoto, RingTypeOK
    <3> QED BY <1>0, <3>1, <3>2, <3>4, <3>5 DEF RoomIsKept, RingThreads
  <2> QED BY <1>3, <2>1, <2>2 DEF RingCheck
<1>4. ASSUME NEW t \in RingThreads, RingMove(t) PROVE RoomIsKept'
  <2>1. /\ RingLen' = RingLen /\ ringHead' = ringHead /\ ringPc[t] = "move"
        /\ ringPc'[t] = "count"
        /\ \A u \in RingThreads \ {t} : ringPc'[u] = ringPc[u]
    BY <1>0, <1>4 DEF RingMove, RingGoto, RingTypeOK, RingLen, Ahead
  <2>2. \A u \in RingThreads \ {t} : ringPc[u] # "count"
    BY <2>1, Alone DEF RingInv, InRing
  <2>3. t \in RingPushers => q_'[ringHead % RingSize] \in RingData
    <3>1. ringHead % RingSize \in 0 .. RingSize - 1
      BY <1>0, LapType, DivMod
    <3> QED BY <1>0, <1>4, <3>1 DEF RingMove, RingTypeOK
  <2> QED BY <1>0, <2>1, <2>2, <2>3 DEF RoomIsKept, RingThreads
<1>5. ASSUME NEW t \in RingThreads, RingCount(t) PROVE RoomIsKept'
  <2>1. /\ ringPc[t] = "count" /\ ringPc'[t] = "unlock"
        /\ \A u \in RingThreads \ {t} : ringPc'[u] = ringPc[u]
    BY <1>0, <1>5 DEF RingCount, RingGoto, RingTypeOK
  <2>2. \A u \in RingThreads : ringPc'[u] \notin {"move", "count"}
    BY <2>1, Alone DEF RingInv, InRing
  <2>3. RingLen' <= RingSize
    <3>1. CASE t \in RingPushers
      <4>1. RingLen < RingSize /\ ringHead' = (ringHead + 1) % Lap /\ ringTail' = ringTail
        BY <1>0, <1>5, <2>1, <3>1 DEF RingCount, RoomIsKept
      <4>2. RingLen' = RingLen + 1
        BY <1>0, <4>1, AheadNext, LapType DEF RingLen, Ahead
      <4> QED BY <1>0, <4>1, <4>2, LapType
    <3>2. CASE t \in RingPoppers
      <4>1. RingLen > 0 /\ ringTail' = (ringTail + 1) % Lap /\ ringHead' = ringHead
        BY <1>0, <1>5, <2>1, <3>2 DEF RingCount, RoomIsKept
      <4>2. ringHead # ringTail
        BY <1>0, <4>1, LapType, AheadZero DEF RingLen
      <4>3. RingLen' = RingLen - 1
        BY <1>0, <4>1, <4>2, LapType, AheadNext DEF RingLen, Ahead
      <4> QED BY <1>0, <4>3, LapType DEF RoomIsKept
    <3> QED BY <3>1, <3>2 DEF RingThreads
  <2> QED BY <2>2, <2>3 DEF RoomIsKept, RingThreads
<1>6. CASE UNCHANGED ringVars
  BY <1>0, <1>6 DEF ringVars, RoomIsKept, RingLen, Ahead
<1> QED BY <1>2, <1>3, <1>4, <1>5, <1>6 DEF RingNext, RingSteps

LEMMA RingStepInv == RingInv /\ [RingNext]_ringVars => RingInv'
  BY RingTypeStep, SystemLockStep, TicketsStep, RoomStep DEF RingInv

-----------------------------------------------------------------------------
(***************************************************************************)
(* AtomicQueueMutex implements a FIFO of size_ elements.                   *)
(***************************************************************************)

\* How many elements have been moved out and not been counted yet.
Gone == IF \E t \in RingPoppers : ringPc[t] = "count" THEN 1 ELSE 0

RingShape == RingItems = RingSeq(q_, RingSize, ringTail + Gone, RingLen - Gone)

LEMMA GoneType ==
    ASSUME RingInv
    PROVE  /\ Gone \in {0, 1} /\ RingLen \in 0 .. Lap - 1 /\ RingLen <= RingSize
           /\ RingLen - Gone \in Nat
           /\ ringHead \in 0 .. Lap - 1 /\ ringTail \in 0 .. Lap - 1
<1>1. ringHead \in 0 .. Lap - 1 /\ ringTail \in 0 .. Lap - 1
  BY DEF RingInv, RingTypeOK
<1>2. RingLen \in 0 .. Lap - 1 /\ RingLen <= RingSize
  BY <1>1, LapType, AheadCases DEF RingLen, RingInv, RoomIsKept
<1>3. Gone \in {0, 1} /\ (Gone = 1 => RingLen > 0)
  BY DEF Gone, RingInv, RoomIsKept
<1> QED BY <1>1, <1>2, <1>3

LEMMA RingShapeHolds == RingInv => RingShape
<1> SUFFICES ASSUME RingInv PROVE RingShape
  OBVIOUS
<1> DEFINE first == (ringTail + Gone) % Lap
<1>1. /\ Gone \in {0, 1} /\ RingLen \in 0 .. Lap - 1
      /\ RingLen - Gone \in Nat
      /\ ringHead \in 0 .. Lap - 1 /\ ringTail \in 0 .. Lap - 1
  BY GoneType
<1>2. RingItems = RingSeq(q_, RingSize, first, Ahead(Lap, ringHead, first))
  BY DEF RingItems, Gone, RingSeq, Ahead
<1>3. Ahead(Lap, ringHead, first) = RingLen - Gone
  <2>1. CASE Gone = 0
    <3>1. ringTail + 0 = ringTail /\ ringTail \in 0 .. 2 * Lap - 1
      BY <1>1, LapType
    <3>2. ringTail % Lap = ringTail
      BY <1>1, <3>1, LapType, ModCases
    <3> QED BY <1>1, <2>1, <3>1, <3>2 DEF RingLen
  <2>2. CASE Gone = 1
    <3>1. ringHead # ringTail
      BY <1>1, <2>2, LapType, AheadZero DEF RingLen
    <3> QED BY <1>1, <2>2, <3>1, LapType, AheadNext DEF RingLen
  <2> QED BY <1>1, <2>1, <2>2
<1>4. RingSeq(q_, RingSize, (ringTail + Gone) % Lap, RingLen - Gone)
          = RingSeq(q_, RingSize, ringTail + Gone, RingLen - Gone)
  <2>1. Lap % RingSize = 0
    BY Zenon, AtomicQueueMutexAssumption
  <2>2. ringTail + Gone \in Int
    BY <1>1
  <2> QED BY <1>1, <2>1, <2>2, LapType, RingWrap
<1> QED BY <1>2, <1>3, <1>4 DEF RingShape

\* head_ names the slot after the last element.
LEMMA HeadSlot ==
    ASSUME RingInv
    PROVE  (ringTail + RingLen) % RingSize = ringHead % RingSize
<1>1. ringHead \in 0 .. Lap - 1 /\ ringTail \in 0 .. Lap - 1
  BY GoneType
<1>2. Lap % RingSize = 0
  BY Zenon, AtomicQueueMutexAssumption
<1> QED BY <1>1, <1>2, LapType, AheadSlot DEF RingLen

\* A try_push moves its element in: it is not inside before it is counted.
LEMMA PushMoveStutters ==
    ASSUME RingInv, RingInv', NEW t \in RingPushers, RingMove(t)
    PROVE  UNCHANGED <<RingItems, ringOut>>
<1>0. t \in RingThreads /\ t \notin RingPoppers /\ RingTypeOK
  BY AtomicQueueMutexAssumption DEF RingThreads, RingInv
<1>1. RingShape /\ RingShape'
  BY RingShapeHolds, PTL
<1>2. PICK d \in RingData : q_' = [q_ EXCEPT ![ringHead % RingSize] = d]
  BY <1>0 DEF RingMove
<1>3. /\ ringPc[t] = "move" /\ ringPc'[t] = "count" /\ ringOut' = ringOut
      /\ \A u \in RingThreads \ {t} : ringPc'[u] = ringPc[u]
      /\ ringTail' = ringTail /\ RingLen' = RingLen
  BY <1>0 DEF RingMove, RingGoto, RingTypeOK, RingLen, Ahead
<1>4. \A u \in RingPoppers : ringPc[u] # "count" /\ ringPc'[u] # "count"
  BY <1>0, <1>3, Alone DEF RingInv, InRing, RingThreads
<1>5. Gone = 0 /\ Gone' = 0
  BY <1>4 DEF Gone
<1>6. RingLen < RingSize
  BY <1>3 DEF RingInv, RoomIsKept
<1>7. /\ RingLen \in 0 .. RingSize - 1 /\ ringTail \in Int
      /\ ringTail + 0 = ringTail /\ RingLen - 0 = RingLen
  BY <1>6, GoneType, LapType
<1>8. q_' = [q_ EXCEPT ![(ringTail + RingLen) % RingSize] = d]
  BY <1>2, HeadSlot
<1>9. RingSeq(q_', RingSize, ringTail, RingLen) = RingSeq(q_, RingSize, ringTail, RingLen)
  <2>1. q_ \in [0 .. RingSize - 1 -> RingData \cup {Blank}]
    BY <1>0 DEF RingTypeOK
  <2>2. RingSeq([q_ EXCEPT ![(ringTail + RingLen) % RingSize] = d],
                RingSize, ringTail, RingLen) = RingSeq(q_, RingSize, ringTail, RingLen)
    <3> DEFINE V == RingData \cup {Blank}
    <3>1. /\ RingSize \in Nat /\ RingSize > 0 /\ q_ \in [0 .. RingSize - 1 -> V]
          /\ ringTail \in Int /\ RingLen \in 0 .. RingSize - 1
      BY <1>7, <2>1, LapType
    <3> HIDE DEF V
    <3> QED BY <3>1, RingWriteOutside, ZenonT(60)
  <2> QED BY <1>8, <2>2
<1> QED BY <1>1, <1>3, <1>5, <1>7, <1>9 DEF RingShape

\* It counts it: the element is the newest.
LEMMA PushCountEnqueues ==
    ASSUME RingInv, RingInv', NEW t \in RingPushers, RingCount(t)
    PROVE  \E d \in RingData : RingFifo!Enqueue(d)
<1>0. t \in RingThreads /\ t \notin RingPoppers /\ RingTypeOK
  BY AtomicQueueMutexAssumption DEF RingThreads, RingInv
<1>1. RingShape /\ RingShape'
  BY RingShapeHolds, PTL
<1>2. /\ ringPc[t] = "count" /\ ringPc'[t] = "unlock" /\ ringOut' = ringOut /\ q_' = q_
      /\ \A u \in RingThreads \ {t} : ringPc'[u] = ringPc[u]
      /\ ringTail' = ringTail /\ ringHead' = (ringHead + 1) % Lap
  BY <1>0 DEF RingCount, RingGoto, RingTypeOK
<1>3. \A u \in RingPoppers : ringPc[u] # "count" /\ ringPc'[u] # "count"
  BY <1>0, <1>2, Alone DEF RingInv, InRing, RingThreads
<1>4. Gone = 0 /\ Gone' = 0
  BY <1>3 DEF Gone
<1>5. RingLen < RingSize /\ q_[ringHead % RingSize] \in RingData
  BY <1>2 DEF RingInv, RoomIsKept
<1>6. /\ RingLen \in 0 .. RingSize - 1 /\ RingLen \in Nat /\ ringTail \in Int
      /\ ringTail + 0 = ringTail /\ RingLen - 0 = RingLen
      /\ (RingLen + 1) - 0 = RingLen + 1
  BY <1>5, GoneType, LapType
<1>7. RingLen' = RingLen + 1
  <2>1. RingLen + 1 < Lap /\ ringHead \in 0 .. Lap - 1 /\ ringTail \in 0 .. Lap - 1
    BY <1>5, <1>6, GoneType, LapType
  <2>2. Ahead(Lap, (ringHead + 1) % Lap, ringTail) = RingLen + 1
    BY <2>1, LapType, AheadNext DEF RingLen
  <2> QED BY <1>2, <2>2 DEF RingLen, Ahead
<1>8. RingSeq(q_, RingSize, ringTail, RingLen + 1)
          = Append(RingSeq(q_, RingSize, ringTail, RingLen), q_[ringHead % RingSize])
  BY <1>6, HeadSlot, RingAppend
<1>9. RingItems' = Append(RingItems, q_[ringHead % RingSize])
  BY <1>1, <1>2, <1>4, <1>6, <1>7, <1>8 DEF RingShape
<1>10. Len(RingItems) = RingLen
  BY <1>1, <1>4, <1>6 DEF RingShape, RingSeq
<1> QED BY <1>2, <1>5, <1>9, <1>10 DEF RingFifo!Enqueue

\* A try_pop moves its element out: it is the oldest.
LEMMA PopMoveDequeues ==
    ASSUME RingInv, RingInv', NEW t \in RingPoppers, RingMove(t)
    PROVE  RingFifo!Dequeue
<1>0. t \in RingThreads /\ t \notin RingPushers /\ RingTypeOK
  BY AtomicQueueMutexAssumption DEF RingThreads, RingInv
<1>1. RingShape /\ RingShape'
  BY RingShapeHolds, PTL
<1>2. /\ ringPc[t] = "move" /\ ringPc'[t] = "count" /\ q_' = q_
      /\ ringOut' = q_[ringTail % RingSize]
      /\ \A u \in RingThreads \ {t} : ringPc'[u] = ringPc[u]
      /\ ringTail' = ringTail /\ RingLen' = RingLen
  BY <1>0 DEF RingMove, RingGoto, RingTypeOK, RingLen, Ahead
<1>3. \A u \in RingPoppers : ringPc[u] # "count"
  BY <1>0, <1>2, Alone DEF RingInv, InRing, RingThreads
<1>4. Gone = 0 /\ Gone' = 1
  BY <1>2, <1>3 DEF Gone
<1>5. RingLen > 0
  BY <1>2 DEF RingInv, RoomIsKept
<1>6. /\ RingLen - 1 \in Nat /\ ringTail \in Int /\ (RingLen - 1) + 1 = RingLen
      /\ ringTail + 0 = ringTail /\ RingLen - 0 = RingLen
  BY <1>5, GoneType
<1>7. /\ RingSeq(q_, RingSize, ringTail, RingLen) # <<>>
      /\ Head(RingSeq(q_, RingSize, ringTail, RingLen)) = q_[ringTail % RingSize]
      /\ Tail(RingSeq(q_, RingSize, ringTail, RingLen))
             = RingSeq(q_, RingSize, ringTail + 1, RingLen - 1)
  <2>1. RingLen \in Nat
    BY GoneType
  <2> QED BY <1>5, <1>6, <2>1, RingTail
<1>8. RingItems = RingSeq(q_, RingSize, ringTail, RingLen)
  BY <1>1, <1>4, <1>6 DEF RingShape
<1>9. RingItems' = RingSeq(q_, RingSize, ringTail + 1, RingLen - 1)
  BY <1>1, <1>2, <1>4 DEF RingShape
<1> QED BY <1>2, <1>7, <1>8, <1>9 DEF RingFifo!Dequeue

\* It counts it: nothing changes inside.
LEMMA PopCountStutters ==
    ASSUME RingInv, RingInv', NEW t \in RingPoppers, RingCount(t)
    PROVE  UNCHANGED <<RingItems, ringOut>>
<1>0. t \in RingThreads /\ t \notin RingPushers /\ RingTypeOK
  BY AtomicQueueMutexAssumption DEF RingThreads, RingInv
<1>1. RingShape /\ RingShape'
  BY RingShapeHolds, PTL
<1>2. /\ ringPc[t] = "count" /\ ringPc'[t] = "unlock" /\ ringOut' = ringOut /\ q_' = q_
      /\ \A u \in RingThreads \ {t} : ringPc'[u] = ringPc[u]
      /\ ringHead' = ringHead /\ ringTail' = (ringTail + 1) % Lap
  BY <1>0 DEF RingCount, RingGoto, RingTypeOK
<1>3. \A u \in RingPoppers : ringPc'[u] # "count"
  BY <1>0, <1>2, Alone DEF RingInv, InRing, RingThreads
<1>4. Gone = 1 /\ Gone' = 0
  BY <1>2, <1>3 DEF Gone
<1>5. RingLen > 0
  BY <1>2 DEF RingInv, RoomIsKept
<1>6. RingLen' = RingLen - 1
  <2>1. ringHead # ringTail
    BY <1>5, GoneType, LapType, AheadZero DEF RingLen
  <2> QED BY <1>2, <2>1, GoneType, LapType, AheadNext DEF RingLen, Ahead
<1>7. /\ RingLen - 1 \in Nat /\ ringTail + 1 \in Int /\ (RingLen - 1) - 0 = RingLen - 1
      /\ ringTail' + 0 = ringTail'
  <2>1. ringTail' \in 0 .. Lap - 1
    BY DEF RingInv, RingTypeOK
  <2>2. RingLen \in Nat /\ ringTail \in Int
    BY GoneType
  <2>3. ringTail' + 0 = ringTail'
    <3>1. \A x \in 0 .. Lap - 1 : x + 0 = x
      BY LapType
    <3> QED BY <2>1, <3>1, Zenon
  <2> QED BY <1>5, <2>2, <2>3
<1>8. RingSeq(q_, RingSize, (ringTail + 1) % Lap, RingLen - 1)
          = RingSeq(q_, RingSize, ringTail + 1, RingLen - 1)
  <2>1. Lap % RingSize = 0
    BY Zenon, AtomicQueueMutexAssumption
  <2> QED BY <1>7, <2>1, LapType, RingWrap
<1> QED BY <1>1, <1>2, <1>4, <1>6, <1>7, <1>8 DEF RingShape

LEMMA RingInitImplements ==
    ASSUME Locks \subseteq {"system", "ticket"}, RingInit
    PROVE  RingFifo!Init
<1>1. RingShape
  BY RingInitInv, RingShapeHolds
<1>2. Gone = 0
  BY DEF RingInit, RingThreads, Gone
<1>3. RingLen = 0
  <2>1. ringHead = 0 /\ ringTail = 0 /\ 0 \in 0 .. Lap - 1
    BY LapType DEF RingInit
  <2> QED BY <2>1, LapType, AheadZero DEF RingLen
<1>4. RingItems = RingSeq(q_, RingSize, ringTail + Gone, 0)
  BY <1>1, <1>2, <1>3 DEF RingShape
<1>5. RingItems = <<>>
  BY <1>4, RingEmpty
<1> QED BY <1>5, LapType DEF RingInit, RingFifo!Init

LEMMA RingStepImplements ==
    ASSUME RingInv, RingInv', [RingNext]_ringVars
    PROVE  [RingFifo!Next]_(RingFifo!vars)
<1>0. RingTypeOK
  BY DEF RingInv
<1>1. ASSUME NEW t \in RingThreads, NEW label, RingGoto(t, label), label # "count",
             ringPc[t] # "count", UNCHANGED <<ringHead, ringTail, q_, ringOut>>
      PROVE  UNCHANGED RingFifo!vars
  <2>1. \A u \in RingPoppers : ringPc'[u] = "count" <=> ringPc[u] = "count"
    BY <1>0, <1>1 DEF RingGoto, RingTypeOK, RingThreads
  <2> QED BY <1>1, <2>1 DEF RingFifo!vars, RingItems
<1>2. ASSUME NEW t \in RingThreads,
             LockBegin(t) \/ SystemLock(t) \/ FetchTicket(t) \/ SpinUntilNext(t)
             \/ RingUnlock(t) \/ RingCheck(t)
      PROVE  UNCHANGED RingFifo!vars
  <2>1. UNCHANGED <<ringHead, ringTail, q_, ringOut>> /\ ringPc[t] # "count"
    BY <1>2 DEF LockBegin, SystemLock, FetchTicket, SpinUntilNext, RingUnlock, RingCheck
  <2>2. PICK label \in RingPcs \ {"count"} : RingGoto(t, label)
    BY <1>2 DEF LockBegin, SystemLock, FetchTicket, SpinUntilNext, RingUnlock, RingCheck,
                RingPcs
  <2> QED BY <1>1, <2>1, <2>2
<1>3. ASSUME NEW t \in RingThreads, RingMove(t) PROVE [RingFifo!Next]_(RingFifo!vars)
  <2>1. CASE t \in RingPushers
    BY <1>3, <2>1, PushMoveStutters DEF RingFifo!vars
  <2>2. CASE t \in RingPoppers
    BY <1>3, <2>2, PopMoveDequeues DEF RingFifo!Next
  <2> QED BY <2>1, <2>2 DEF RingThreads
<1>4. ASSUME NEW t \in RingThreads, RingCount(t) PROVE [RingFifo!Next]_(RingFifo!vars)
  <2>1. CASE t \in RingPushers
    BY <1>4, <2>1, PushCountEnqueues DEF RingFifo!Next
  <2>2. CASE t \in RingPoppers
    BY <1>4, <2>2, PopCountStutters DEF RingFifo!vars
  <2> QED BY <2>1, <2>2 DEF RingThreads
<1>5. CASE UNCHANGED ringVars
  BY <1>5 DEF ringVars, RingFifo!vars, RingItems
<1> QED BY <1>2, <1>3, <1>4, <1>5 DEF RingNext, RingSteps

-----------------------------------------------------------------------------
(***************************************************************************)
(* AtomicQueue between one producer and one consumer: the inductive        *)
(* invariant.                                                              *)
(***************************************************************************)
AqPcs == {"idle", "compare", "advance", "wait", "tryWait", "move", "release"}

AqTypeOK ==
    /\ aqConfig \in AqConfigs
    /\ aqHead \in 0 .. Modulus - 1 /\ aqTail \in 0 .. Modulus - 1
    /\ states_ \in [0 .. size_ - 1 -> {"EMPTY", "STORING", "STORED", "LOADING"}]
    /\ elements_ \in [0 .. size_ - 1 -> AllElements \cup {Nil}]
    /\ aqPc \in [Users -> AqPcs]
    /\ aqTicket \in [Users -> 0 .. Modulus - 1]
    /\ serial \in [Pushers -> {0, 1}]

\* The ticket a thread is busy with is the last one its counter gave out.
TicketsAreLast ==
    \A t \in Users :
        TicketPending(t) \/ aqPc[t] = "release" => AqCounter(t) = (aqTicket[t] + 1) % Modulus

AqLen == Ahead(Modulus, PushedCount, PoppedCount)
Num(S, label) == IF \E t \in S : aqPc[t] = label THEN 1 ELSE 0

\* Who has claimed a slot finds it as it was, and a slot that is not released yet
\* is not claimed again.
LenFits ==
    /\ AqLen + Num(Pushers, "move") + Num(Poppers, "release") <= size_
    /\ Num(Poppers, "move") + Num(Pushers, "release") <= AqLen

\* The slots with an element are those of the tickets pushed and not popped.
PresentSlots == Present = RingSlots(size_, PoppedCount, AqLen)

\* So are the slots marked so, but for the one that is being released.
Stored == {s \in 0 .. size_ - 1 : states_[s] = "STORED"}
StoredSlots ==
    IF aqConfig.any
    THEN /\ Stored = RingSlots(size_, PoppedCount - Num(Poppers, "release"),
                               AqLen - Num(Pushers, "release") + Num(Poppers, "release"))
         /\ \A s \in 0 .. size_ - 1 : states_[s] \in {"EMPTY", "STORED"}
    ELSE \A t \in Users : aqPc[t] \notin {"move", "release"}

AqBase == AqTypeOK /\ aqConfig.spsc /\ TicketsAreLast
AqSlots == LenFits /\ PresentSlots /\ StoredSlots
AqInv == AqTypeOK /\ (aqConfig.spsc => TicketsAreLast /\ AqSlots)

LEMMA AqConfigType ==
    ASSUME aqConfig \in AqConfigs
    PROVE  /\ Modulus \in Nat /\ Modulus > 0
           /\ size_ \in Nat /\ size_ > 0 /\ size_ < Modulus
           /\ Modulus % size_ = 0
           /\ Pushers \cap Poppers = {} /\ Nil \notin AllElements
           /\ aqConfig.spsc => /\ \A p, q \in Pushers : p = q
                               /\ \A c, d \in Poppers : c = d
<1>1. /\ Modulus \in Nat \ {0}
      /\ \A c \in AqConfigs :
             /\ c.size \in Nat \ {0}
             /\ IsFiniteSet(c.pushers) /\ IsFiniteSet(c.poppers)
             /\ c.pushers \cap c.poppers = {} /\ Nil \notin c.pushers \X {0, 1}
             /\ c.spsc => Cardinality(c.pushers) <= 1 /\ Cardinality(c.poppers) <= 1
             /\ Modulus % c.size = 0
             /\ c.size + Cardinality(c.pushers) < Modulus \div 2
  BY Zenon, AtomicQueueAssumption
<1>2. size_ < Modulus
  <2>1. /\ size_ \in Nat /\ Cardinality(Pushers) \in Nat
        /\ size_ + Cardinality(Pushers) < Modulus \div 2
    BY <1>1, FS_CardinalityType DEF size_, Pushers
  <2> QED BY <1>1, <2>1
<1>3. Nil \notin AllElements
  BY <1>1 DEF AllElements
<1>4. ASSUME NEW S, IsFiniteSet(S), Cardinality(S) <= 1, NEW x \in S, NEW y \in S
      PROVE  x = y
  <2>1. Cardinality(S) \in Nat
    BY <1>4, FS_CardinalityType
  <2>2. Cardinality(S) # 0
    BY <1>4, FS_EmptySet
  <2>3. Cardinality(S) = 1
    BY <1>4, <2>1, <2>2
  <2>4. PICK z : S = {z}
    BY <1>4, <2>3, FS_Singleton
  <2> QED BY <2>4
<1>5. aqConfig.spsc => /\ \A p, q \in Pushers : p = q
                       /\ \A c, d \in Poppers : c = d
  BY <1>1, <1>4 DEF Pushers, Poppers
<1> QED BY <1>1, <1>2, <1>3, <1>5 DEF size_, Pushers, Poppers

\* The counter before the one after x.
LEMMA Previous ==
    ASSUME NEW m \in Nat, m > 0, NEW x \in 0 .. m - 1
    PROVE  /\ x % m = x
           /\ (((x + 1) % m) + m - 1) % m = x
<1>1. x \in 0 .. 2 * m - 1
  OBVIOUS
<1>2. x % m = x
  BY <1>1, ModCases
<1>3. (x + 1) % m = IF x + 1 = m THEN 0 ELSE x + 1
  BY NextCases
<1> DEFINE y == ((x + 1) % m) + m - 1
<1>4. y \in 0 .. 2 * m - 1 /\ y = IF x + 1 = m THEN m - 1 ELSE x + m
  BY <1>3
<1> HIDE DEF y
<1>5. y % m = x
  BY <1>4, ModCases
<1> QED BY <1>2, <1>5 DEF y

\* Both counts in terms of the one producer and the one consumer.
CountsAre ==
    /\ PushedCount \in 0 .. Modulus - 1
    /\ PoppedCount \in 0 .. Modulus - 1
    /\ \A p \in Pushers : PushedCount = IF TicketPending(p) THEN aqTicket[p] ELSE aqHead
    /\ \A c \in Poppers : PoppedCount = IF TicketPending(c) THEN aqTicket[c] ELSE aqTail

LEMMA CountsHold == AqBase => CountsAre
<1> SUFFICES ASSUME AqBase PROVE CountsAre
  OBVIOUS
<1>0. /\ Modulus \in Nat /\ Modulus > 0
      /\ aqHead \in 0 .. Modulus - 1 /\ aqTail \in 0 .. Modulus - 1
      /\ \A t \in Users : aqTicket[t] \in 0 .. Modulus - 1
      /\ Pushers \cap Poppers = {}
      /\ \A p, q \in Pushers : p = q
      /\ \A c, d \in Poppers : c = d
  BY AqConfigType DEF AqBase, AqTypeOK
<1>1. PushedCount \in 0 .. Modulus - 1 /\ PoppedCount \in 0 .. Modulus - 1
  <2>1. \A x \in Int : x % Modulus \in 0 .. Modulus - 1
    BY <1>0, DivMod
  <2>2. /\ aqHead \in Int /\ aqHead + Modulus - 1 \in Int
        /\ aqTail \in Int /\ aqTail + Modulus - 1 \in Int
    BY <1>0
  <2> QED BY <2>1, <2>2 DEF PushedCount, PoppedCount
<1>2. ASSUME NEW p \in Pushers
      PROVE  PushedCount = IF TicketPending(p) THEN aqTicket[p] ELSE aqHead
  <2>1. CASE TicketPending(p)
    <3>1. aqHead = (aqTicket[p] + 1) % Modulus /\ aqTicket[p] \in 0 .. Modulus - 1
      BY <1>0, <2>1 DEF AqBase, TicketsAreLast, AqCounter, Users
    <3>2. PushedCount = (aqHead + Modulus - 1) % Modulus
      BY <2>1 DEF PushedCount
    <3> QED BY <1>0, <2>1, <3>1, <3>2, Previous
  <2>2. CASE ~TicketPending(p)
    <3>1. PushedCount = aqHead % Modulus
      BY <1>0, <2>2 DEF PushedCount
    <3> QED BY <1>0, <2>2, <3>1, Previous
  <2> QED BY <2>1, <2>2
<1>3. ASSUME NEW c \in Poppers
      PROVE  PoppedCount = IF TicketPending(c) THEN aqTicket[c] ELSE aqTail
  <2>1. CASE TicketPending(c)
    <3>1. aqTail = (aqTicket[c] + 1) % Modulus /\ aqTicket[c] \in 0 .. Modulus - 1
      BY <1>0, <2>1 DEF AqBase, TicketsAreLast, AqCounter, Users
    <3>2. PoppedCount = (aqTail + Modulus - 1) % Modulus
      BY <2>1 DEF PoppedCount
    <3> QED BY <1>0, <2>1, <3>1, <3>2, Previous
  <2>2. CASE ~TicketPending(c)
    <3>1. PoppedCount = aqTail % Modulus
      BY <1>0, <2>2 DEF PoppedCount
    <3> QED BY <1>0, <2>2, <3>1, Previous
  <2> QED BY <2>1, <2>2
<1> QED BY <1>1, <1>2, <1>3 DEF CountsAre

LEMMA AqInitInv == AqInit => AqInv
<1> SUFFICES ASSUME AqInit PROVE AqInv
  OBVIOUS
<1>0. /\ Modulus \in Nat /\ Modulus > 0 /\ size_ \in Nat /\ size_ > 0
      /\ aqConfig \in AqConfigs
  BY AqConfigType DEF AqInit
<1>1. 0 \in 0 .. Modulus - 1
  BY <1>0
<1>2. AqTypeOK
  BY <1>0, <1>1 DEF AqInit, AqTypeOK, AqPcs
<1>3. \A t \in Users : aqPc[t] = "idle"
  BY DEF AqInit
<1>4. TicketsAreLast
  BY <1>3 DEF TicketsAreLast, TicketPending, HasTicket
<1>5. PushedCount = 0 /\ PoppedCount = 0
  <2>1. aqHead = 0 /\ aqTail = 0 /\ 0 % Modulus = 0
    BY <1>0, <1>1, Previous DEF AqInit
  <2> QED BY <1>3, <2>1 DEF PushedCount, PoppedCount, TicketPending, HasTicket, Users
<1>6. AqLen = 0
  BY <1>0, <1>1, <1>5, AheadZero DEF AqLen
<1>7. \A l \in {"move", "release"} : Num(Pushers, l) = 0 /\ Num(Poppers, l) = 0
  BY <1>3 DEF Num, Users
<1>8. \A first : RingSlots(size_, first, 0) = {}
  BY DEF RingSlots
<1>9. Present = {} /\ Stored = {} /\ \A s \in 0 .. size_ - 1 : states_[s] = "EMPTY"
  BY DEF AqInit, Present, Stored
<1>10. 0 - 0 + 0 = 0
  OBVIOUS
<1> QED BY <1>0, <1>2, <1>3, <1>4, <1>6, <1>7, <1>8, <1>9, <1>10
        DEF AqInv, AqSlots, LenFits, PresentSlots, StoredSlots

-----------------------------------------------------------------------------
(***************************************************************************)
(* AtomicQueue: what a step of one thread changes.                         *)
(***************************************************************************)
LEMMA AqTypeStep == AqTypeOK /\ [AqNext]_aqVars => AqTypeOK'
<1> SUFFICES ASSUME AqTypeOK, [AqNext]_aqVars PROVE AqTypeOK'
  OBVIOUS
<1> USE DEF AqGoto, AqReturn
<1>0. /\ Modulus \in Nat /\ Modulus > 0 /\ size_ \in Nat /\ size_ > 0
      /\ 0 \in 0 .. Modulus - 1
      /\ \A x \in 0 .. Modulus - 1 : Plus1(x) \in 0 .. Modulus - 1
      /\ \A t \in Users : AqCounter(t) \in 0 .. Modulus - 1
  <2>1. /\ Modulus \in Nat /\ Modulus > 0 /\ size_ \in Nat /\ size_ > 0
    BY AqConfigType DEF AqTypeOK
  <2> QED BY <2>1, NextCases DEF Plus1, AqCounter, AqTypeOK
<1>1. UNCHANGED <<size_, Pushers, Poppers, Users>>
  BY DEF AqNext, TakeTicket, TryLoadCounter, Compare, AdvanceCounter, SlotSteps,
         PushAtomic, PopAtomic, ClaimSlot, MoveElement, ReleaseSlot, aqVars,
         size_, Pushers, Poppers, Users
<1>2. ASSUME NEW t \in Users, AqAdvance(t)
      PROVE  aqHead' \in 0 .. Modulus - 1 /\ aqTail' \in 0 .. Modulus - 1
  BY <1>0, <1>2 DEF AqAdvance, AqTypeOK
<1>3. ASSUME NEW t \in Users, TakeTicket(t) PROVE AqTypeOK'
  BY <1>0, <1>1, <1>2, <1>3 DEF TakeTicket, AqTypeOK, AqPcs
<1>4. ASSUME NEW t \in Users, TryLoadCounter(t) PROVE AqTypeOK'
  BY <1>0, <1>1, <1>4 DEF TryLoadCounter, AqTypeOK, AqPcs
<1>5. ASSUME NEW t \in Users, Compare(t) PROVE AqTypeOK'
  <2>1. AqReturn(t) \/ (AqGoto(t, "advance") /\ UNCHANGED aqTicket)
    BY <1>5 DEF Compare
  <2> QED BY <1>0, <1>1, <1>5, <2>1 DEF Compare, AqTypeOK, AqPcs
<1>6. ASSUME NEW t \in Users, AdvanceCounter(t) PROVE AqTypeOK'
  BY <1>0, <1>1, <1>2, <1>6 DEF AdvanceCounter, AqTypeOK, AqPcs
<1>7. ASSUME NEW t \in Users
      PROVE  SlotOf(aqTicket[t]) \in 0 .. size_ - 1
  <2>1. aqTicket[t] \in 0 .. Modulus - 1
    BY <1>7 DEF AqTypeOK
  <2>2. aqTicket[t] \in Int
    BY <1>0, <2>1
  <2> QED BY <1>0, <2>2, DivMod DEF SlotOf
<1>8. ASSUME NEW p \in Pushers
      PROVE  Element(p) \in AllElements /\ NextSerial(serial[p]) \in {0, 1}
  BY <1>8 DEF AqTypeOK, Element, AllElements, NextSerial, Pushers
<1>9. ASSUME NEW t \in Users, PushAtomic(t) PROVE AqTypeOK'
  BY <1>0, <1>1, <1>7, <1>8, <1>9 DEF PushAtomic, AqTypeOK, AqPcs
<1>10. ASSUME NEW t \in Users, PopAtomic(t) PROVE AqTypeOK'
  BY <1>0, <1>1, <1>7, <1>10 DEF PopAtomic, AqTypeOK, AqPcs
<1>11. ASSUME NEW t \in Users, ClaimSlot(t) PROVE AqTypeOK'
  BY <1>0, <1>1, <1>7, <1>11 DEF ClaimSlot, AqTypeOK, AqPcs
<1>12. ASSUME NEW t \in Users, MoveElement(t) PROVE AqTypeOK'
  BY <1>0, <1>1, <1>7, <1>8, <1>12 DEF MoveElement, AqTypeOK, AqPcs
<1>13. ASSUME NEW t \in Users, ReleaseSlot(t) PROVE AqTypeOK'
  BY <1>0, <1>1, <1>7, <1>13 DEF ReleaseSlot, AqTypeOK, AqPcs
<1>14. CASE UNCHANGED aqVars
  BY <1>1, <1>14 DEF aqVars, AqTypeOK
<1> QED BY <1>3, <1>4, <1>5, <1>6, <1>9, <1>10, <1>11, <1>12, <1>13, <1>14
        DEF AqNext, SlotSteps

\* The config stays, and so does where the other threads are.
LEMMA AqFrame ==
    ASSUME AqTypeOK, NEW t \in Users,
           TakeTicket(t) \/ TryLoadCounter(t) \/ Compare(t) \/ AdvanceCounter(t)
           \/ SlotSteps(t)
    PROVE  /\ UNCHANGED <<aqConfig, size_, Pushers, Poppers, Users>>
           /\ \A u \in Users \ {t} : aqPc'[u] = aqPc[u] /\ aqTicket'[u] = aqTicket[u]
  BY DEF AqGoto, AqReturn, AqTypeOK, TakeTicket, TryLoadCounter, Compare,
         AdvanceCounter, SlotSteps, PushAtomic, PopAtomic, ClaimSlot, MoveElement,
         ReleaseSlot, size_, Pushers, Poppers, Users

\* A step that takes no ticket leaves the counters.
LEMMA CountersStay ==
    ASSUME NEW t \in Users, TryLoadCounter(t) \/ Compare(t) \/ SlotSteps(t)
    PROVE  UNCHANGED <<aqHead, aqTail>>
  BY DEF TryLoadCounter, Compare, SlotSteps, PushAtomic, PopAtomic, ClaimSlot,
         MoveElement, ReleaseSlot

\* A ticket is taken from the thread's own counter, which nobody else advances.
LEMMA TakesLastTicket ==
    ASSUME AqTypeOK, aqConfig.spsc, NEW t \in Users, TakeTicket(t) \/ AdvanceCounter(t)
    PROVE  /\ aqPc[t] \in {"idle", "advance"} /\ aqPc'[t] \in {"wait", "tryWait"}
           /\ aqTicket'[t] = AqCounter(t)
           /\ IF t \in Pushers THEN aqHead' = (aqHead + 1) % Modulus /\ aqTail' = aqTail
                               ELSE aqTail' = (aqTail + 1) % Modulus /\ aqHead' = aqHead
           /\ UNCHANGED <<states_, elements_, taken>>
  BY DEF AqGoto, AqTypeOK, TakeTicket, AdvanceCounter, AqAdvance, AqCounter, Plus1

LEMMA LastTicketStep ==
    ASSUME AqBase, [AqNext]_aqVars
    PROVE  TicketsAreLast'
<1>0. /\ AqTypeOK /\ aqConfig.spsc /\ TicketsAreLast
      /\ Pushers \cap Poppers = {}
      /\ \A p, q \in Pushers : p = q
      /\ \A c, d \in Poppers : c = d
  BY AqConfigType DEF AqBase, AqTypeOK
<1>1. ASSUME NEW t \in Users, TakeTicket(t) \/ AdvanceCounter(t) PROVE TicketsAreLast'
  <2>1. /\ aqTicket'[t] = AqCounter(t)
        /\ IF t \in Pushers THEN aqHead' = (aqHead + 1) % Modulus /\ aqTail' = aqTail
                            ELSE aqTail' = (aqTail + 1) % Modulus /\ aqHead' = aqHead
    BY <1>0, <1>1, TakesLastTicket
  <2>2. /\ UNCHANGED <<Pushers, Poppers, Users>>
        /\ \A u \in Users \ {t} : aqPc'[u] = aqPc[u] /\ aqTicket'[u] = aqTicket[u]
    BY <1>0, <1>1, AqFrame
  <2>3. AqCounter(t)' = (aqTicket'[t] + 1) % Modulus
    BY <2>1, <2>2 DEF AqCounter
  <2>4. \A u \in Users \ {t} : AqCounter(u)' = AqCounter(u)
    BY <1>0, <2>1, <2>2 DEF AqCounter, Users
  <2>5. \A u \in Users \ {t} : /\ TicketPending(u)' <=> TicketPending(u)
                               /\ aqPc'[u] = "release" <=> aqPc[u] = "release"
    BY <2>2 DEF TicketPending, HasTicket
  <2> QED BY <1>0, <2>2, <2>3, <2>4, <2>5 DEF TicketsAreLast
<1>2. ASSUME NEW t \in Users, TryLoadCounter(t) \/ Compare(t) \/ SlotSteps(t)
      PROVE  TicketsAreLast'
  <2>1. /\ UNCHANGED <<Pushers, Poppers, Users>>
        /\ \A u \in Users \ {t} : aqPc'[u] = aqPc[u] /\ aqTicket'[u] = aqTicket[u]
    BY <1>0, <1>2, AqFrame
  <2>2. \A u \in Users : AqCounter(u)' = AqCounter(u)
    BY <1>2, <2>1, CountersStay DEF AqCounter
  <2>3. \A u \in Users \ {t} : /\ TicketPending(u)' <=> TicketPending(u)
                               /\ aqPc'[u] = "release" <=> aqPc[u] = "release"
    BY <2>1 DEF TicketPending, HasTicket
  <2>4. ASSUME TicketPending(t)' \/ aqPc'[t] = "release"
        PROVE  TicketPending(t) /\ aqTicket'[t] = aqTicket[t]
    BY <1>0, <1>2, <2>4 DEF TryLoadCounter, Compare, SlotSteps, PushAtomic, PopAtomic,
       ClaimSlot, MoveElement, ReleaseSlot, AqGoto, AqReturn, AqTypeOK, TicketPending,
       HasTicket
  <2> QED BY <1>0, <2>1, <2>2, <2>3, <2>4 DEF TicketsAreLast
<1>3. CASE UNCHANGED aqVars
  BY <1>0, <1>3 DEF aqVars, TicketsAreLast, TicketPending, HasTicket, AqCounter, Users,
                    Pushers, Poppers
<1> QED BY <1>1, <1>2, <1>3 DEF AqNext

\* The other side's count and claims are left alone; on a thread's own side they are
\* the thread's.
LEMMA OneSide ==
    ASSUME AqBase, NEW t \in Users,
           TakeTicket(t) \/ TryLoadCounter(t) \/ Compare(t) \/ AdvanceCounter(t)
           \/ SlotSteps(t)
    PROVE  /\ t \in Pushers =>
                  /\ PoppedCount' = PoppedCount
                  /\ \A l \in {"move", "release"} :
                         /\ Num(Poppers, l)' = Num(Poppers, l)
                         /\ Num(Pushers, l) = IF aqPc[t] = l THEN 1 ELSE 0
                         /\ Num(Pushers, l)' = IF aqPc'[t] = l THEN 1 ELSE 0
           /\ t \in Poppers =>
                  /\ PushedCount' = PushedCount
                  /\ \A l \in {"move", "release"} :
                         /\ Num(Pushers, l)' = Num(Pushers, l)
                         /\ Num(Poppers, l) = IF aqPc[t] = l THEN 1 ELSE 0
                         /\ Num(Poppers, l)' = IF aqPc'[t] = l THEN 1 ELSE 0
<1>0. /\ AqTypeOK /\ aqConfig.spsc
      /\ Pushers \cap Poppers = {}
      /\ \A p, q \in Pushers : p = q
      /\ \A c, d \in Poppers : c = d
  BY AqConfigType DEF AqBase, AqTypeOK
<1>1. /\ UNCHANGED <<Pushers, Poppers, Users>>
      /\ \A u \in Users \ {t} : aqPc'[u] = aqPc[u]
  BY <1>0, AqFrame
<1>2. /\ t \in Pushers => aqTail' = aqTail
      /\ t \in Poppers => aqHead' = aqHead
  BY <1>0, CountersStay, TakesLastTicket
<1>3. ASSUME t \in Pushers
      PROVE  /\ PoppedCount' = PoppedCount
             /\ \A l \in {"move", "release"} :
                    /\ Num(Poppers, l)' = Num(Poppers, l)
                    /\ Num(Pushers, l) = IF aqPc[t] = l THEN 1 ELSE 0
                    /\ Num(Pushers, l)' = IF aqPc'[t] = l THEN 1 ELSE 0
  <2>1. \A c \in Poppers : c \in Users \ {t} /\ aqPc'[c] = aqPc[c]
    BY <1>0, <1>1, <1>3 DEF Users
  <2>2. \A c \in Poppers : TicketPending(c)' <=> TicketPending(c)
    BY <2>1 DEF TicketPending, HasTicket
  <2>3. PoppedCount' = PoppedCount
    BY <1>1, <1>2, <1>3, <2>2 DEF PoppedCount
  <2> QED BY <1>0, <1>1, <1>3, <2>1, <2>3 DEF Num
<1>4. ASSUME t \in Poppers
      PROVE  /\ PushedCount' = PushedCount
             /\ \A l \in {"move", "release"} :
                    /\ Num(Pushers, l)' = Num(Pushers, l)
                    /\ Num(Poppers, l) = IF aqPc[t] = l THEN 1 ELSE 0
                    /\ Num(Poppers, l)' = IF aqPc'[t] = l THEN 1 ELSE 0
  <2>1. \A p \in Pushers : p \in Users \ {t} /\ aqPc'[p] = aqPc[p]
    BY <1>0, <1>1, <1>4 DEF Users
  <2>2. \A p \in Pushers : TicketPending(p)' <=> TicketPending(p)
    BY <2>1 DEF TicketPending, HasTicket
  <2>3. PushedCount' = PushedCount
    BY <1>1, <1>2, <1>4, <2>2 DEF PushedCount
  <2> QED BY <1>0, <1>1, <1>4, <2>1, <2>3 DEF Num
<1> QED BY <1>3, <1>4

\* The items are a ring from the oldest ticket on.
AqShape == AqItems = RingSeq(elements_, size_, PoppedCount, AqLen)

LEMMA AqShapeHolds == AqBase => AqShape
  BY DEF AqShape, AqBase, AqItems, RingSeq, AqLen, Ahead, SlotOf

\* Numbers of elements and slots.
LEMMA AqNumbers ==
    ASSUME AqBase, LenFits
    PROVE  /\ AqLen \in Nat /\ AqLen \in 0 .. size_ /\ AqLen \in 0 .. Modulus - 1
           /\ \A l \in {"move", "release"} :
                  Num(Pushers, l) \in {0, 1} /\ Num(Poppers, l) \in {0, 1}
           /\ PushedCount \in 0 .. Modulus - 1 /\ PoppedCount \in 0 .. Modulus - 1
<1>1. /\ PushedCount \in 0 .. Modulus - 1 /\ PoppedCount \in 0 .. Modulus - 1
      /\ Modulus \in Nat /\ Modulus > 0 /\ size_ \in Nat
  BY CountsHold, AqConfigType DEF CountsAre, AqBase, AqTypeOK
<1>2. AqLen \in 0 .. Modulus - 1
  BY <1>1, AheadCases DEF AqLen
<1>3. \A l \in {"move", "release"} :
          Num(Pushers, l) \in {0, 1} /\ Num(Poppers, l) \in {0, 1}
  BY DEF Num
<1>4. AqLen <= size_
  BY <1>1, <1>2, <1>3 DEF LenFits
<1> QED BY <1>1, <1>2, <1>3, <1>4

\* Where the next element goes, and where the next one comes from.
LEMMA PushSlot ==
    ASSUME AqBase, LenFits, NEW p \in Pushers, TicketPending(p)
    PROVE  SlotOf(aqTicket[p]) = (PoppedCount + AqLen) % size_
<1>1. PushedCount = aqTicket[p]
  BY CountsHold DEF CountsAre
<1>2. PushedCount \in 0 .. Modulus - 1 /\ PoppedCount \in 0 .. Modulus - 1
  BY AqNumbers
<1>3. /\ Modulus \in Nat /\ Modulus > 0 /\ size_ \in Nat /\ size_ > 0
      /\ Modulus % size_ = 0
  BY AqConfigType DEF AqBase, AqTypeOK
<1>4. (PoppedCount + AqLen) % size_ = PushedCount % size_
  BY <1>2, <1>3, AheadSlot DEF AqLen
<1> QED BY <1>1, <1>4 DEF SlotOf

LEMMA PopSlot ==
    ASSUME AqBase, NEW c \in Poppers, TicketPending(c)
    PROVE  SlotOf(aqTicket[c]) = PoppedCount % size_
  BY CountsHold DEF CountsAre, SlotOf

-----------------------------------------------------------------------------
(***************************************************************************)
(* AtomicQueue between one producer and one consumer: each step preserves  *)
(* the invariant, and is a step of a FIFO or none.                         *)
(***************************************************************************)

\* Tickets are taken, and looked at, with nothing happening inside.
LEMMA TicketsChangeNothing ==
    ASSUME AqBase, AqBase', AqSlots, NEW t \in Users,
           TakeTicket(t) \/ TryLoadCounter(t) \/ Compare(t) \/ AdvanceCounter(t)
    PROVE  AqSlots' /\ UNCHANGED AqFifo!vars
<1>0. AqTypeOK /\ aqConfig.spsc /\ Pushers \cap Poppers = {}
  BY AqConfigType DEF AqBase, AqTypeOK
<1>1. CountsAre /\ CountsAre'
  BY CountsHold, PTL
<1>2. UNCHANGED <<aqConfig, size_, Pushers, Poppers, Users, states_, elements_, taken>>
  BY <1>0, AqFrame, TakesLastTicket DEF TryLoadCounter, Compare
<1>3. /\ ~TicketPending(t)
      /\ aqPc[t] \notin {"move", "release"} /\ aqPc'[t] \notin {"move", "release"}
  BY <1>0 DEF TakeTicket, TryLoadCounter, Compare, AdvanceCounter, AqGoto, AqReturn,
              AqTypeOK, TicketPending, HasTicket
<1>4. AqCounter(t) = IF TicketPending(t)' THEN aqTicket'[t] ELSE AqCounter(t)'
  <2>1. CASE TakeTicket(t) \/ AdvanceCounter(t)
    BY <1>0, <2>1, TakesLastTicket DEF TicketPending, HasTicket
  <2>2. CASE TryLoadCounter(t) \/ Compare(t)
    <3>1. ~TicketPending(t)'
      BY <1>0, <2>2 DEF TryLoadCounter, Compare, AqGoto, AqReturn, AqTypeOK,
                        TicketPending, HasTicket
    <3>2. AqCounter(t)' = AqCounter(t)
      BY <1>2, <2>2, CountersStay DEF AqCounter
    <3> QED BY <3>1, <3>2
  <2> QED BY <2>1, <2>2
<1>5. PushedCount' = PushedCount /\ PoppedCount' = PoppedCount
  <2>1. CASE t \in Pushers
    <3>1. PushedCount = aqHead
      BY <1>1, <1>3, <2>1 DEF CountsAre
    <3>2. PushedCount' = IF TicketPending(t)' THEN aqTicket'[t] ELSE aqHead'
      BY <1>1, <1>2, <2>1 DEF CountsAre
    <3>3. aqHead = AqCounter(t) /\ aqHead' = AqCounter(t)'
      BY <1>2, <2>1 DEF AqCounter
    <3> QED BY <1>4, <2>1, <3>1, <3>2, <3>3, OneSide
  <2>2. CASE t \in Poppers
    <3>1. PoppedCount = aqTail
      BY <1>1, <1>3, <2>2 DEF CountsAre
    <3>2. PoppedCount' = IF TicketPending(t)' THEN aqTicket'[t] ELSE aqTail'
      BY <1>1, <1>2, <2>2 DEF CountsAre
    <3>3. aqTail = AqCounter(t) /\ aqTail' = AqCounter(t)'
      BY <1>0, <1>2, <2>2 DEF AqCounter
    <3> QED BY <1>4, <2>2, <3>1, <3>2, <3>3, OneSide
  <2> QED BY <2>1, <2>2 DEF Users
<1>6. \A l \in {"move", "release"} :
          Num(Pushers, l)' = Num(Pushers, l) /\ Num(Poppers, l)' = Num(Poppers, l)
  BY <1>3, OneSide DEF Users
<1>7. AqLen' = AqLen /\ Present' = Present /\ Stored' = Stored
  BY <1>2, <1>5 DEF AqLen, Ahead, Present, Stored
<1>8. AqItems' = AqItems
  BY <1>2, <1>5 DEF AqItems, SlotOf
<1>9. \A u \in Users : aqPc[u] \notin {"move", "release"} => aqPc'[u] \notin {"move", "release"}
  BY <1>0, <1>3, AqFrame
<1>10. AqSlots'
  BY <1>2, <1>5, <1>6, <1>7, <1>9
     DEF AqSlots, LenFits, PresentSlots, StoredSlots, RingSlots
<1> QED BY <1>2, <1>8, <1>10 DEF AqFifo!vars

\* An element moved in is the newest, in the first free slot.
LEMMA PushedInside ==
    ASSUME AqBase, AqBase', AqSlots, NEW p \in Pushers,
           PushAtomic(p) \/ MoveElement(p), AqLen < size_
    PROVE  /\ AqLen' = AqLen + 1 /\ PoppedCount' = PoppedCount
           /\ PresentSlots'
           /\ \E d \in AllElements : AqFifo!Enqueue(d)
<1>0. /\ AqTypeOK /\ aqConfig.spsc /\ p \in Users /\ LenFits /\ PresentSlots
      /\ Modulus \in Nat /\ Modulus > 0 /\ size_ \in Nat /\ size_ > 0 /\ size_ < Modulus
      /\ Nil \notin AllElements /\ Pushers \cap Poppers = {}
  BY AqConfigType DEF AqBase, AqTypeOK, Users, AqSlots
<1>1. CountsAre /\ CountsAre'
  BY CountsHold, PTL
<1>2. /\ AqLen \in Nat
      /\ PushedCount \in 0 .. Modulus - 1 /\ PoppedCount \in 0 .. Modulus - 1
  BY <1>0, AqNumbers
<1>3. /\ UNCHANGED <<aqConfig, size_, Pushers, Poppers, Users>>
      /\ aqHead' = aqHead /\ PoppedCount' = PoppedCount
  BY <1>0, AqFrame, CountersStay, OneSide DEF SlotSteps
<1>4. /\ TicketPending(p) /\ ~TicketPending(p)'
      /\ elements_' = [elements_ EXCEPT ![SlotOf(aqTicket[p])] = Element(p)]
      /\ taken' = taken
  BY <1>0 DEF PushAtomic, MoveElement, AqGoto, AqReturn, AqTypeOK, TicketPending, HasTicket
<1>5. PushedCount' = (PushedCount + 1) % Modulus
  <2>1. PushedCount = aqTicket[p] /\ PushedCount' = aqHead'
    BY <1>1, <1>3, <1>4 DEF CountsAre
  <2>2. aqHead = (aqTicket[p] + 1) % Modulus
    BY <1>0, <1>4 DEF AqBase, TicketsAreLast, AqCounter
  <2> QED BY <1>3, <2>1, <2>2
<1>6. AqLen' = AqLen + 1
  <2>1. AqLen + 1 < Modulus
    BY <1>0, <1>2
  <2>2. Ahead(Modulus, (PushedCount + 1) % Modulus, PoppedCount) = AqLen + 1
    BY <1>0, <1>2, <2>1, AheadNext DEF AqLen
  <2> QED BY <1>3, <1>5, <2>2 DEF AqLen, Ahead
<1>7. elements_' = [elements_ EXCEPT ![(PoppedCount + AqLen) % size_] = Element(p)]
  BY <1>0, <1>4, PushSlot
<1>8. /\ Element(p) \in AllElements
      /\ (PoppedCount + AqLen) % size_ \in 0 .. size_ - 1
      /\ elements_ \in [0 .. size_ - 1 -> AllElements \cup {Nil}]
      /\ PoppedCount \in Int
  <2>1. PoppedCount + AqLen \in Int /\ PoppedCount \in Int
    BY <1>0, <1>2
  <2> QED BY <1>0, <2>1, DivMod DEF AqTypeOK, Element, AllElements, Pushers
<1>9. PresentSlots'
  <2>1. Present' = Present \cup {(PoppedCount + AqLen) % size_}
    BY <1>0, <1>3, <1>7, <1>8 DEF Present
  <2>2. RingSlots(size_, PoppedCount, AqLen + 1)
            = RingSlots(size_, PoppedCount, AqLen) \cup {(PoppedCount + AqLen) % size_}
    BY <1>0, <1>2, <1>8, SlotsAppend
  <2> QED BY <1>0, <1>3, <1>6, <2>1, <2>2 DEF PresentSlots, RingSlots
<1>10. AqItems' = Append(AqItems, Element(p))
  <2>1. RingSeq(elements_', size_, PoppedCount, AqLen)
            = RingSeq(elements_, size_, PoppedCount, AqLen)
    <3> DEFINE V == AllElements \cup {Nil}
               e == Element(p)
    <3>1. /\ elements_ \in [0 .. size_ - 1 -> V] /\ AqLen \in 0 .. size_ - 1
          /\ size_ \in Nat /\ size_ > 0 /\ PoppedCount \in Int
          /\ elements_' = [elements_ EXCEPT ![(PoppedCount + AqLen) % size_] = e]
      BY <1>0, <1>2, <1>7, <1>8
    <3> HIDE DEF V, e
    <3>2. RingSeq([elements_ EXCEPT ![(PoppedCount + AqLen) % size_] = e],
                  size_, PoppedCount, AqLen) = RingSeq(elements_, size_, PoppedCount, AqLen)
      BY <3>1, RingWriteOutside
    <3> QED BY <3>1, <3>2
  <2>2. RingSeq(elements_', size_, PoppedCount, AqLen + 1)
            = Append(RingSeq(elements_', size_, PoppedCount, AqLen),
                     elements_'[(PoppedCount + AqLen) % size_])
    BY <1>2, <1>8, RingAppend
  <2>3. elements_'[(PoppedCount + AqLen) % size_] = Element(p)
    BY <1>7, <1>8
  <2>4. /\ AqItems = RingSeq(elements_, size_, PoppedCount, AqLen)
        /\ AqItems' = RingSeq(elements_', size_, PoppedCount, AqLen + 1)
    <3>1. AqShape /\ AqShape'
      BY AqShapeHolds, PTL
    <3> QED BY <1>3, <1>6, <3>1 DEF AqShape, RingSeq
  <2> QED BY <2>1, <2>2, <2>3, <2>4
<1>11. Len(AqItems) = AqLen
  BY <1>2, AqShapeHolds DEF AqShape, RingSeq
<1>12. AqFifo!Enqueue(Element(p))
  BY <1>3, <1>4, <1>10, <1>11 DEF AqFifo!Enqueue
<1> QED BY <1>3, <1>6, <1>8, <1>9, <1>12

\* An element moved out is the oldest, and its slot is empty.
LEMMA PoppedFromInside ==
    ASSUME AqBase, AqBase', AqSlots, NEW c \in Poppers,
           PopAtomic(c) \/ MoveElement(c), AqLen > 0
    PROVE  /\ AqLen' = AqLen - 1 /\ PoppedCount' = (PoppedCount + 1) % Modulus
           /\ PresentSlots'
           /\ AqFifo!Dequeue
<1>0. /\ AqTypeOK /\ aqConfig.spsc /\ c \in Users /\ c \notin Pushers
      /\ LenFits /\ PresentSlots
      /\ Modulus \in Nat /\ Modulus > 0 /\ size_ \in Nat /\ size_ > 0
      /\ Modulus % size_ = 0
  BY AqConfigType DEF AqBase, AqTypeOK, Users, AqSlots
<1>1. CountsAre /\ CountsAre'
  BY CountsHold, PTL
<1>2. /\ AqLen \in Nat /\ AqLen \in 0 .. size_ /\ AqLen - 1 \in Nat
      /\ PushedCount \in 0 .. Modulus - 1 /\ PoppedCount \in 0 .. Modulus - 1
      /\ PoppedCount \in Int /\ PoppedCount + 1 \in Int
  <2>1. /\ AqLen \in Nat /\ AqLen \in 0 .. size_
        /\ PushedCount \in 0 .. Modulus - 1 /\ PoppedCount \in 0 .. Modulus - 1
    BY <1>0, AqNumbers
  <2> QED BY <1>0, <2>1
<1>3. /\ UNCHANGED <<aqConfig, size_, Pushers, Poppers, Users>>
      /\ aqTail' = aqTail /\ PushedCount' = PushedCount
  BY <1>0, AqFrame, CountersStay, OneSide DEF SlotSteps
<1>4. /\ TicketPending(c) /\ ~TicketPending(c)'
      /\ elements_' = [elements_ EXCEPT ![SlotOf(aqTicket[c])] = Nil]
      /\ taken' = elements_[SlotOf(aqTicket[c])]
  BY <1>0 DEF PopAtomic, MoveElement, AqGoto, AqReturn, AqTypeOK, TicketPending, HasTicket
<1>5. PoppedCount' = (PoppedCount + 1) % Modulus
  <2>1. PoppedCount = aqTicket[c] /\ PoppedCount' = aqTail'
    BY <1>1, <1>3, <1>4 DEF CountsAre
  <2>2. aqTail = (aqTicket[c] + 1) % Modulus
    BY <1>0, <1>4 DEF AqBase, TicketsAreLast, AqCounter
  <2> QED BY <1>3, <2>1, <2>2
<1>6. AqLen' = AqLen - 1
  <2>1. PushedCount # PoppedCount
    BY <1>0, <1>2, AheadZero DEF AqLen
  <2>2. Ahead(Modulus, PushedCount, (PoppedCount + 1) % Modulus) = AqLen - 1
    BY <1>0, <1>2, <2>1, AheadNext DEF AqLen
  <2> QED BY <1>3, <1>5, <2>2 DEF AqLen, Ahead
<1>7. /\ elements_' = [elements_ EXCEPT ![PoppedCount % size_] = Nil]
      /\ taken' = elements_[PoppedCount % size_]
  BY <1>4, PopSlot
<1>8. /\ PoppedCount % size_ \in 0 .. size_ - 1
      /\ elements_ \in [0 .. size_ - 1 -> AllElements \cup {Nil}]
  BY <1>0, <1>2, DivMod DEF AqTypeOK
<1>9. PresentSlots'
  <2>1. Present' = Present \ {PoppedCount % size_}
    BY <1>3, <1>7, <1>8 DEF Present
  <2>2. RingSlots(size_, PoppedCount + 1, AqLen - 1)
            = RingSlots(size_, PoppedCount, AqLen) \ {PoppedCount % size_}
    BY <1>0, <1>2, SlotsFirst
  <2>3. RingSlots(size_, (PoppedCount + 1) % Modulus, AqLen - 1)
            = RingSlots(size_, PoppedCount + 1, AqLen - 1)
    <3> DEFINE x == PoppedCount + 1
               n == AqLen - 1
    <3>1. x \in Int /\ n \in Nat
      BY <1>2
    <3> HIDE DEF x, n
    <3>2. RingSlots(size_, x % Modulus, n) = RingSlots(size_, x, n)
      BY <1>0, <3>1, SlotsWrap
    <3> QED BY <3>2 DEF x, n
  <2>5. RingSlots(size_, (PoppedCount + 1) % Modulus, AqLen - 1)
            = RingSlots(size_, PoppedCount, AqLen) \ {PoppedCount % size_}
    BY <2>2, <2>3
  <2> QED BY <1>0, <1>3, <1>5, <1>6, <2>1, <2>5 DEF PresentSlots, RingSlots
<1>10. /\ AqItems # <<>> /\ Head(AqItems) = elements_[PoppedCount % size_]
       /\ Tail(AqItems) = RingSeq(elements_, size_, PoppedCount + 1, AqLen - 1)
  <2>1. AqItems = RingSeq(elements_, size_, PoppedCount, AqLen)
    BY AqShapeHolds DEF AqShape
  <2>2. /\ RingSeq(elements_, size_, PoppedCount, AqLen) # <<>>
        /\ Head(RingSeq(elements_, size_, PoppedCount, AqLen)) = elements_[PoppedCount % size_]
        /\ Tail(RingSeq(elements_, size_, PoppedCount, AqLen))
               = RingSeq(elements_, size_, PoppedCount + 1, AqLen - 1)
    BY <1>2, RingTail
  <2> QED BY <2>1, <2>2
<1>11. AqItems' = RingSeq(elements_, size_, PoppedCount + 1, AqLen - 1)
  <2>1. AqShape'
    BY AqShapeHolds, PTL
  <2>2. AqItems' = RingSeq(elements_', size_, (PoppedCount + 1) % Modulus, AqLen - 1)
    BY <1>3, <1>5, <1>6, <2>1 DEF AqShape, RingSeq
  <2>3. RingSeq(elements_', size_, (PoppedCount + 1) % Modulus, AqLen - 1)
            = RingSeq(elements_', size_, PoppedCount + 1, AqLen - 1)
    BY <1>0, <1>2, RingWrap
  <2>4. RingSeq(elements_', size_, PoppedCount + 1, AqLen - 1)
            = RingSeq(elements_, size_, PoppedCount + 1, AqLen - 1)
    <3> DEFINE V == AllElements \cup {Nil}
    <3>1. /\ elements_ \in [0 .. size_ - 1 -> V] /\ AqLen \in 1 .. size_
          /\ size_ \in Nat /\ size_ > 0 /\ PoppedCount \in Int
          /\ elements_' = [elements_ EXCEPT ![PoppedCount % size_] = Nil]
      BY <1>0, <1>2, <1>7, <1>8
    <3> HIDE DEF V
    <3>2. RingSeq([elements_ EXCEPT ![PoppedCount % size_] = Nil],
                  size_, PoppedCount + 1, AqLen - 1)
              = RingSeq(elements_, size_, PoppedCount + 1, AqLen - 1)
      BY <3>1, RingWriteFirst
    <3> QED BY <3>1, <3>2
  <2> QED BY <2>2, <2>3, <2>4
<1>12. AqFifo!Dequeue
  BY <1>0, <1>3, <1>7, <1>10, <1>11 DEF AqFifo!Dequeue
<1> QED BY <1>5, <1>6, <1>9, <1>12

\* do_push_atomic, do_pop_atomic: one access, which finds the slot empty, or full.
LEMMA AtomicSteps ==
    ASSUME AqBase, AqBase', AqSlots, NEW t \in Users, PushAtomic(t) \/ PopAtomic(t)
    PROVE  AqSlots' /\ [AqFifo!Next]_(AqFifo!vars)
<1>0. /\ AqTypeOK /\ LenFits /\ PresentSlots /\ StoredSlots
      /\ size_ \in Nat /\ size_ > 0 /\ Pushers \cap Poppers = {}
  BY AqConfigType DEF AqBase, AqTypeOK, AqSlots
<1>1. AqLen \in 0 .. size_ /\ PoppedCount \in Int
  BY AqNumbers, <1>0
<1>2. /\ UNCHANGED <<aqConfig, size_, Pushers, Poppers, Users>>
      /\ \A u \in Users \ {t} : aqPc'[u] = aqPc[u]
  BY <1>0, AqFrame DEF SlotSteps
<1>3. /\ aqPc[t] \notin {"move", "release"} /\ aqPc'[t] \notin {"move", "release"}
      /\ TicketPending(t) /\ ~aqConfig.any
  BY <1>0 DEF PushAtomic, PopAtomic, AqReturn, AqGoto, AqTypeOK, TicketPending, HasTicket
<1>4. \A l \in {"move", "release"} :
          /\ Num(Pushers, l) = 0 /\ Num(Poppers, l) = 0
          /\ Num(Pushers, l)' = 0 /\ Num(Poppers, l)' = 0
  <2>1. \A u \in Users : aqPc[u] \notin {"move", "release"} /\ aqPc'[u] \notin {"move", "release"}
    BY <1>0, <1>2, <1>3 DEF StoredSlots
  <2> QED BY <1>2, <2>1 DEF Num, Users
<1>5. StoredSlots'
  BY <1>0, <1>2, <1>3 DEF StoredSlots
<1>6. CASE PushAtomic(t)
  <2>1. t \in Pushers /\ elements_[SlotOf(aqTicket[t])] = Nil
    BY <1>6 DEF PushAtomic
  <2>2. (PoppedCount + AqLen) % size_ \notin RingSlots(size_, PoppedCount, AqLen)
    BY <1>0, <1>3, <2>1, PushSlot DEF PresentSlots, Present
  <2>3. AqLen < size_
    <3>1. AqLen # size_
      BY <1>0, <1>1, <2>2, SlotsFull
    <3> QED BY <1>0, <1>1, <3>1
  <2>4. /\ AqLen' = AqLen + 1 /\ PresentSlots'
        /\ \E d \in AllElements : AqFifo!Enqueue(d)
    BY <1>6, <2>1, <2>3, PushedInside
  <2>5. LenFits'
    BY <1>0, <1>1, <1>2, <1>4, <2>3, <2>4 DEF LenFits
  <2> QED BY <1>5, <2>4, <2>5 DEF AqSlots, AqFifo!Next
<1>7. CASE PopAtomic(t)
  <2>1. t \in Poppers /\ elements_[SlotOf(aqTicket[t])] # Nil
    BY <1>7 DEF PopAtomic
  <2>2. SlotOf(aqTicket[t]) = PoppedCount % size_ /\ PoppedCount % size_ \in 0 .. size_ - 1
    BY <1>0, <1>1, <1>3, <2>1, PopSlot, DivMod
  <2>3. PoppedCount % size_ \in RingSlots(size_, PoppedCount, AqLen)
    BY <1>0, <2>1, <2>2 DEF PresentSlots, Present
  <2>4. AqLen > 0
    BY <1>0, <1>1, <2>3, SlotsFirst
  <2>5. AqLen' = AqLen - 1 /\ PresentSlots' /\ AqFifo!Dequeue
    BY <1>7, <2>1, <2>4, PoppedFromInside
  <2>6. LenFits'
    BY <1>0, <1>1, <1>2, <1>4, <2>4, <2>5 DEF LenFits
  <2> QED BY <1>5, <2>5, <2>6 DEF AqSlots, AqFifo!Next
<1> QED BY <1>6, <1>7

\* do_push_any, do_pop_any: the state says that the slot is the thread's.
LEMMA ClaimStep ==
    ASSUME AqBase, AqBase', AqSlots, NEW t \in Users, ClaimSlot(t)
    PROVE  AqSlots' /\ UNCHANGED AqFifo!vars
<1>0. /\ AqTypeOK /\ LenFits /\ PresentSlots /\ StoredSlots /\ aqConfig.spsc
      /\ size_ \in Nat /\ size_ > 0 /\ Pushers \cap Poppers = {}
  BY AqConfigType DEF AqBase, AqTypeOK, AqSlots
<1>1. /\ AqLen \in 0 .. size_ /\ PoppedCount \in Int
      /\ \A l \in {"move", "release"} :
             Num(Pushers, l) \in {0, 1} /\ Num(Poppers, l) \in {0, 1}
  BY AqNumbers, <1>0
<1>2. CountsAre /\ CountsAre'
  BY CountsHold, PTL
<1>3. /\ UNCHANGED <<aqConfig, size_, Pushers, Poppers, Users, states_, elements_, taken>>
      /\ UNCHANGED <<aqTicket, aqHead, aqTail>>
      /\ aqPc[t] \in {"wait", "tryWait"} /\ aqPc'[t] = "move"
      /\ TicketPending(t) /\ TicketPending(t)' /\ aqConfig.any
  BY <1>0, AqFrame DEF ClaimSlot, AqGoto, AqTypeOK, TicketPending, HasTicket, SlotSteps
<1>4. PushedCount' = PushedCount /\ PoppedCount' = PoppedCount
  <2>1. CASE t \in Pushers
    BY <1>2, <1>3, <2>1, OneSide DEF CountsAre, SlotSteps
  <2>2. CASE t \in Poppers
    BY <1>2, <1>3, <2>2, OneSide DEF CountsAre, SlotSteps
  <2> QED BY <2>1, <2>2 DEF Users
<1>5. AqLen' = AqLen /\ Present' = Present /\ Stored' = Stored /\ AqItems' = AqItems
  BY <1>3, <1>4 DEF AqLen, Ahead, Present, Stored, AqItems, SlotOf
<1>6. UNCHANGED AqFifo!vars
  BY <1>3, <1>5 DEF AqFifo!vars
<1> DEFINE first == PoppedCount - Num(Poppers, "release")
           n == AqLen - Num(Pushers, "release") + Num(Poppers, "release")
<1>7. /\ Stored = RingSlots(size_, first, n)
      /\ \A s \in 0 .. size_ - 1 : states_[s] \in {"EMPTY", "STORED"}
  BY <1>0, <1>3 DEF StoredSlots
<1>8. n \in 0 .. size_ /\ first \in Int
  BY <1>0, <1>1 DEF LenFits
<1>9. CASE t \in Pushers
  <2>1. /\ Num(Pushers, "move") = 0 /\ Num(Pushers, "release") = 0
        /\ Num(Pushers, "move")' = 1 /\ Num(Pushers, "release")' = 0
        /\ Num(Poppers, "move")' = Num(Poppers, "move")
        /\ Num(Poppers, "release")' = Num(Poppers, "release")
    BY <1>3, <1>9, OneSide DEF SlotSteps
  <2>2. SlotOf(aqTicket[t]) = (first + n) % size_
    <3>1. first + n = PoppedCount + AqLen
      BY <1>1, <2>1
    <3> QED BY <1>0, <1>3, <1>9, <3>1, PushSlot
  <2>3. SlotOf(aqTicket[t]) \notin Stored
    BY <1>9 DEF ClaimSlot, Stored
  <2>4. n # size_
    <3> HIDE DEF first, n
    <3> QED BY <1>0, <1>7, <1>8, <2>2, <2>3, SlotsFull
  <2>5. AqLen + 1 + Num(Poppers, "release") <= size_
    BY <1>0, <1>1, <1>8, <2>1, <2>4
  <2>6. LenFits'
    BY <1>0, <1>1, <1>3, <1>5, <2>1, <2>5 DEF LenFits
  <2>7. StoredSlots'
    BY <1>3, <1>4, <1>5, <1>7, <2>1 DEF StoredSlots, RingSlots
  <2>8. PresentSlots'
    BY <1>0, <1>3, <1>4, <1>5 DEF PresentSlots, RingSlots
  <2> QED BY <1>6, <2>6, <2>7, <2>8 DEF AqSlots
<1>10. CASE t \in Poppers
  <2>1. /\ Num(Poppers, "move") = 0 /\ Num(Poppers, "release") = 0
        /\ Num(Poppers, "move")' = 1 /\ Num(Poppers, "release")' = 0
        /\ Num(Pushers, "move")' = Num(Pushers, "move")
        /\ Num(Pushers, "release")' = Num(Pushers, "release")
    BY <1>3, <1>10, OneSide DEF SlotSteps
  <2>2. SlotOf(aqTicket[t]) = first % size_ /\ first % size_ \in 0 .. size_ - 1
    <3>1. first = PoppedCount
      BY <1>1, <2>1
    <3> QED BY <1>0, <1>1, <1>3, <1>10, <3>1, PopSlot, DivMod
  <2>3. SlotOf(aqTicket[t]) \in Stored
    BY <1>0, <1>10, <2>2 DEF ClaimSlot, Stored
  <2>4. n > 0
    <3> HIDE DEF first, n
    <3> QED BY <1>0, <1>7, <1>8, <2>2, <2>3, SlotsFirst
  <2>5. 1 + Num(Pushers, "release") <= AqLen
    BY <1>0, <1>1, <1>8, <2>1, <2>4
  <2>6. LenFits'
    BY <1>0, <1>1, <1>3, <1>5, <2>1, <2>5 DEF LenFits
  <2>7. StoredSlots'
    BY <1>3, <1>4, <1>5, <1>7, <2>1 DEF StoredSlots, RingSlots
  <2>8. PresentSlots'
    BY <1>0, <1>3, <1>4, <1>5 DEF PresentSlots, RingSlots
  <2> QED BY <1>6, <2>6, <2>7, <2>8 DEF AqSlots
<1> QED BY <1>9, <1>10 DEF Users

\* The element is moved; the slot is released by the next step.
LEMMA MoveStep ==
    ASSUME AqBase, AqBase', AqSlots, NEW t \in Users, MoveElement(t)
    PROVE  AqSlots' /\ [AqFifo!Next]_(AqFifo!vars)
<1>0. /\ AqTypeOK /\ LenFits /\ PresentSlots /\ StoredSlots /\ aqConfig.spsc
      /\ Modulus \in Nat /\ Modulus > 0 /\ Modulus % size_ = 0
      /\ size_ \in Nat /\ size_ > 0 /\ Pushers \cap Poppers = {}
  BY AqConfigType DEF AqBase, AqTypeOK, AqSlots
<1>1. /\ AqLen \in 0 .. size_ /\ PoppedCount \in Int
      /\ \A l \in {"move", "release"} :
             Num(Pushers, l) \in {0, 1} /\ Num(Poppers, l) \in {0, 1}
  BY AqNumbers, <1>0
<1>2. /\ UNCHANGED <<aqConfig, size_, Pushers, Poppers, Users, states_>>
      /\ aqPc[t] = "move" /\ aqPc'[t] = "release" /\ aqConfig.any
  BY <1>0, AqFrame DEF MoveElement, AqGoto, AqTypeOK, SlotSteps, StoredSlots
<1>3. Stored' = Stored
  BY <1>2 DEF Stored
<1>4. /\ Stored = RingSlots(size_, PoppedCount - Num(Poppers, "release"),
                            AqLen - Num(Pushers, "release") + Num(Poppers, "release"))
      /\ \A s \in 0 .. size_ - 1 : states_[s] \in {"EMPTY", "STORED"}
  BY <1>0, <1>2 DEF StoredSlots
<1>5. CASE t \in Pushers
  <2>1. /\ Num(Pushers, "move") = 1 /\ Num(Pushers, "release") = 0
        /\ Num(Pushers, "move")' = 0 /\ Num(Pushers, "release")' = 1
        /\ Num(Poppers, "move")' = Num(Poppers, "move")
        /\ Num(Poppers, "release")' = Num(Poppers, "release")
    BY <1>2, <1>5, OneSide DEF SlotSteps
  <2>2. AqLen < size_
    BY <1>0, <1>1, <2>1 DEF LenFits
  <2>3. /\ AqLen' = AqLen + 1 /\ PoppedCount' = PoppedCount
        /\ PresentSlots'
        /\ \E d \in AllElements : AqFifo!Enqueue(d)
    BY <1>5, <2>2, PushedInside
  <2>4. LenFits'
    BY <1>0, <1>1, <1>2, <2>1, <2>3 DEF LenFits
  <2>5. (AqLen + 1) - 1 + Num(Poppers, "release") = AqLen - 0 + Num(Poppers, "release")
    BY <1>1
  <2>6. StoredSlots'
    BY <1>2, <1>3, <1>4, <2>1, <2>3, <2>5 DEF StoredSlots, RingSlots
  <2> QED BY <2>3, <2>4, <2>6 DEF AqSlots, AqFifo!Next
<1>6. CASE t \in Poppers
  <2>1. /\ Num(Poppers, "move") = 1 /\ Num(Poppers, "release") = 0
        /\ Num(Poppers, "move")' = 0 /\ Num(Poppers, "release")' = 1
        /\ Num(Pushers, "move")' = Num(Pushers, "move")
        /\ Num(Pushers, "release")' = Num(Pushers, "release")
    BY <1>2, <1>6, OneSide DEF SlotSteps
  <2>2. AqLen > 0
    BY <1>0, <1>1, <2>1 DEF LenFits
  <2>3. /\ AqLen' = AqLen - 1 /\ PoppedCount' = (PoppedCount + 1) % Modulus
        /\ PresentSlots'
        /\ AqFifo!Dequeue
    BY <1>6, <2>2, PoppedFromInside
  <2>4. LenFits'
    BY <1>0, <1>1, <1>2, <2>1, <2>3 DEF LenFits
  <2> DEFINE n == AqLen - Num(Pushers, "release")
             x == PoppedCount + 1
  <2>5. /\ n \in Nat /\ x \in Int
        /\ n = AqLen - Num(Pushers, "release") + 0
        /\ n = (AqLen - 1) - Num(Pushers, "release") + 1
        /\ x - 1 = PoppedCount - 0
    <3>1. AqLen - Num(Pushers, "release") \in Nat
      BY <1>0, <1>1, <2>1 DEF LenFits
    <3> QED BY <1>0, <1>1, <3>1
  <2> HIDE DEF n, x
  <2>6. RingSlots(size_, (x % Modulus) - 1, n) = RingSlots(size_, x - 1, n)
    <3>1. /\ Modulus \in Nat /\ Modulus > 0 /\ Modulus % size_ = 0
          /\ size_ \in Nat /\ size_ > 0 /\ x \in Int /\ n \in Nat
      BY <1>0, <2>5
    <3> QED BY <3>1, SlotsWrap
  <2>7. Stored = RingSlots(size_, (x % Modulus) - 1, n)
    BY <1>4, <2>1, <2>5, <2>6
  <2>8. /\ PoppedCount' - Num(Poppers, "release")' = (x % Modulus) - 1
        /\ AqLen' - Num(Pushers, "release")' + Num(Poppers, "release")' = n
    BY <2>1, <2>3, <2>5 DEF x
  <2>10. Stored' = RingSlots(size_', PoppedCount' - Num(Poppers, "release")',
                             AqLen' - Num(Pushers, "release")' + Num(Poppers, "release")')
    BY <1>2, <1>3, <2>7, <2>8, Zenon
  <2>9. StoredSlots'
    BY <1>2, <1>4, <2>10 DEF StoredSlots
  <2> QED BY <2>3, <2>4, <2>9 DEF AqSlots, AqFifo!Next
<1> QED BY <1>5, <1>6 DEF Users

\* The slot is the other side's again.
LEMMA ReleaseStep ==
    ASSUME AqBase, AqBase', AqSlots, NEW t \in Users, ReleaseSlot(t)
    PROVE  AqSlots' /\ UNCHANGED AqFifo!vars
<1>0. /\ AqTypeOK /\ LenFits /\ PresentSlots /\ StoredSlots /\ aqConfig.spsc
      /\ Modulus \in Nat /\ Modulus > 0 /\ Modulus % size_ = 0
      /\ size_ \in Nat /\ size_ > 0 /\ Pushers \cap Poppers = {}
  BY AqConfigType DEF AqBase, AqTypeOK, AqSlots
<1>1. /\ AqLen \in 0 .. size_ /\ PoppedCount \in Int
      /\ PushedCount \in 0 .. Modulus - 1 /\ PoppedCount \in 0 .. Modulus - 1
      /\ \A l \in {"move", "release"} :
             Num(Pushers, l) \in {0, 1} /\ Num(Poppers, l) \in {0, 1}
  BY AqNumbers, <1>0
<1>2. CountsAre /\ CountsAre'
  BY CountsHold, PTL
<1>3. /\ UNCHANGED <<aqConfig, size_, Pushers, Poppers, Users, elements_, taken>>
      /\ UNCHANGED <<aqHead, aqTail>>
      /\ aqPc[t] = "release" /\ aqPc'[t] = "idle" /\ aqConfig.any
      /\ ~TicketPending(t) /\ ~TicketPending(t)'
      /\ states_' = [states_ EXCEPT ![SlotOf(aqTicket[t])] =
                         IF t \in Pushers THEN "STORED" ELSE "EMPTY"]
  BY <1>0, AqFrame
     DEF ReleaseSlot, AqReturn, AqGoto, AqTypeOK, SlotSteps, StoredSlots, TicketPending,
         HasTicket
<1>4. PushedCount' = PushedCount /\ PoppedCount' = PoppedCount
  <2>1. CASE t \in Pushers
    BY <1>2, <1>3, <2>1, OneSide DEF CountsAre, SlotSteps
  <2>2. CASE t \in Poppers
    BY <1>2, <1>3, <2>2, OneSide DEF CountsAre, SlotSteps
  <2> QED BY <2>1, <2>2 DEF Users
<1>5. AqLen' = AqLen /\ Present' = Present /\ AqItems' = AqItems
  BY <1>3, <1>4 DEF AqLen, Ahead, Present, AqItems, SlotOf
<1>6. UNCHANGED AqFifo!vars /\ PresentSlots'
  BY <1>0, <1>3, <1>4, <1>5 DEF AqFifo!vars, PresentSlots, RingSlots
<1>7. aqTicket[t] \in 0 .. Modulus - 1 /\ AqCounter(t) = (aqTicket[t] + 1) % Modulus
  BY <1>3 DEF AqBase, AqTypeOK, TicketsAreLast
<1>8. /\ Stored = RingSlots(size_, PoppedCount - Num(Poppers, "release"),
                            AqLen - Num(Pushers, "release") + Num(Poppers, "release"))
      /\ \A s \in 0 .. size_ - 1 : states_[s] \in {"EMPTY", "STORED"}
  BY <1>0, <1>3 DEF StoredSlots
<1>9. /\ SlotOf(aqTicket[t]) \in 0 .. size_ - 1
      /\ states_ \in [0 .. size_ - 1 -> {"EMPTY", "STORING", "STORED", "LOADING"}]
  BY <1>0, <1>7, DivMod DEF SlotOf, AqTypeOK
<1>10. CASE t \in Pushers
  <2>1. /\ Num(Pushers, "move") = 0 /\ Num(Pushers, "release") = 1
        /\ Num(Pushers, "move")' = 0 /\ Num(Pushers, "release")' = 0
        /\ Num(Poppers, "move")' = Num(Poppers, "move")
        /\ Num(Poppers, "release")' = Num(Poppers, "release")
    BY <1>3, <1>10, OneSide DEF SlotSteps
  <2>2. LenFits'
    BY <1>0, <1>1, <1>3, <1>5, <2>1 DEF LenFits
  <2> DEFINE first == PoppedCount - Num(Poppers, "release")
             n == AqLen - 1 + Num(Poppers, "release")
  <2>3. /\ first \in Int /\ n \in Nat /\ first + n = PoppedCount + (AqLen - 1)
        /\ n + 1 = AqLen - 0 + Num(Poppers, "release")
    BY <1>0, <1>1, <2>1 DEF LenFits
  <2>4. SlotOf(aqTicket[t]) = (first + n) % size_
    <3>1. PushedCount = (aqTicket[t] + 1) % Modulus
      BY <1>2, <1>3, <1>7, <1>10 DEF CountsAre, AqCounter
    <3>2. AqLen = Ahead(Modulus, PushedCount, PoppedCount) /\ AqLen > 0
      BY <1>0, <1>1, <2>1 DEF AqLen, LenFits
    <3>3. Ahead(Modulus, aqTicket[t], PoppedCount) = AqLen - 1
      BY <1>0, <1>1, <1>7, <3>1, <3>2, AheadBefore
    <3>4. (PoppedCount + Ahead(Modulus, aqTicket[t], PoppedCount)) % size_
              = aqTicket[t] % size_
      <4> DEFINE x == aqTicket[t]
                 y == PoppedCount
      <4>1. /\ x \in 0 .. Modulus - 1 /\ y \in 0 .. Modulus - 1
            /\ size_ \in Nat /\ size_ > 0 /\ Modulus \in Nat /\ Modulus > 0
            /\ Modulus % size_ = 0
        BY <1>0, <1>1, <1>7
      <4> HIDE DEF x, y
      <4>2. (y + Ahead(Modulus, x, y)) % size_ = x % size_
        BY <4>1, AheadSlot, Zenon
      <4> QED BY <4>2 DEF x, y
    <3> QED BY <2>3, <3>3, <3>4 DEF SlotOf
  <2>5. Stored' = Stored \cup {(first + n) % size_}
    BY <1>3, <1>9, <1>10, <2>4 DEF Stored
  <2>6. \A s \in 0 .. size_ - 1 : states_'[s] \in {"EMPTY", "STORED"}
    BY <1>3, <1>8, <1>9, <1>10
  <2>7. Stored = RingSlots(size_, first, n)
    BY <1>8, <2>1
  <2> HIDE DEF first, n
  <2>8. Stored' = RingSlots(size_, first, n + 1)
    BY <1>0, <2>3, <2>5, <2>7, SlotsAppend
  <2>9. StoredSlots'
    BY <1>3, <1>4, <1>5, <2>1, <2>3, <2>6, <2>8 DEF StoredSlots, RingSlots, first
  <2> QED BY <1>6, <2>2, <2>9 DEF AqSlots
<1>11. CASE t \in Poppers
  <2>1. /\ Num(Poppers, "move") = 0 /\ Num(Poppers, "release") = 1
        /\ Num(Poppers, "move")' = 0 /\ Num(Poppers, "release")' = 0
        /\ Num(Pushers, "move")' = Num(Pushers, "move")
        /\ Num(Pushers, "release")' = Num(Pushers, "release")
    BY <1>3, <1>11, OneSide DEF SlotSteps
  <2>2. LenFits'
    BY <1>0, <1>1, <1>3, <1>5, <2>1 DEF LenFits
  <2> DEFINE first == PoppedCount - 1
             n == AqLen - Num(Pushers, "release") + 1
  <2>3. /\ first \in Int /\ n \in 0 .. size_ /\ n > 0
        /\ first + 1 = PoppedCount - 0
        /\ n - 1 = AqLen - Num(Pushers, "release") + 0
    BY <1>0, <1>1, <2>1 DEF LenFits
  <2>4. SlotOf(aqTicket[t]) = first % size_
    <3>1. PoppedCount = (aqTicket[t] + 1) % Modulus
      BY <1>0, <1>2, <1>3, <1>7, <1>11 DEF CountsAre, AqCounter
    <3> DEFINE x == aqTicket[t] + 1
    <3>2. x \in Int /\ -1 \in Int /\ x + (-1) = aqTicket[t]
      BY <1>7
    <3> HIDE DEF x
    <3>3. ((x % Modulus) + (-1)) % size_ = (x + (-1)) % size_
      BY <1>0, <3>2, WrapKeepsSlots
    <3>4. (x % Modulus) + (-1) = first
      BY <1>1, <3>1 DEF x
    <3> QED BY <3>2, <3>3, <3>4 DEF SlotOf
  <2>5. Stored' = Stored \ {first % size_}
    BY <1>0, <1>3, <1>9, <1>11, <2>4 DEF Stored
  <2>6. \A s \in 0 .. size_ - 1 : states_'[s] \in {"EMPTY", "STORED"}
    BY <1>0, <1>3, <1>8, <1>9, <1>11
  <2>7. Stored = RingSlots(size_, first, n)
    BY <1>8, <2>1
  <2> HIDE DEF first, n
  <2>8. Stored' = RingSlots(size_, first + 1, n - 1)
    BY <1>0, <2>3, <2>5, <2>7, SlotsFirst
  <2>11. /\ first + 1 = PoppedCount' - Num(Poppers, "release")'
         /\ n - 1 = AqLen' - Num(Pushers, "release")' + Num(Poppers, "release")'
    BY <1>4, <1>5, <2>1, <2>3
  <2>10. Stored' = RingSlots(size_', PoppedCount' - Num(Poppers, "release")',
                             AqLen' - Num(Pushers, "release")' + Num(Poppers, "release")')
    BY <1>3, <2>8, <2>11, Zenon
  <2>9. StoredSlots'
    BY <1>3, <2>6, <2>10 DEF StoredSlots
  <2> QED BY <1>6, <2>2, <2>9 DEF AqSlots
<1> QED BY <1>10, <1>11 DEF Users

LEMMA AqStep ==
    ASSUME AqInv, [AqNext]_aqVars
    PROVE  AqInv' /\ [AqFifo!Next]_(AqFifo!vars)
<1>0. AqTypeOK /\ AqTypeOK' /\ aqConfig' = aqConfig
  <2>1. AqTypeOK /\ AqTypeOK'
    BY AqTypeStep DEF AqInv
  <2>2. aqConfig' = aqConfig
    BY <2>1, AqFrame DEF AqNext, aqVars
  <2> QED BY <2>1, <2>2
<1>1. CASE ~aqConfig.spsc
  BY <1>0, <1>1 DEF AqInv, AqFifo!vars, AqItems, size_
<1>2. CASE aqConfig.spsc
  <2>1. AqBase /\ AqSlots
    BY <1>0, <1>2 DEF AqInv, AqBase
  <2>2. AqBase'
    BY <1>0, <1>2, <2>1, LastTicketStep DEF AqBase
  <2>3. AqSlots' /\ [AqFifo!Next]_(AqFifo!vars)
    <3>1. ASSUME NEW t \in Users,
                 TakeTicket(t) \/ TryLoadCounter(t) \/ Compare(t) \/ AdvanceCounter(t)
          PROVE  AqSlots' /\ [AqFifo!Next]_(AqFifo!vars)
      BY <2>1, <2>2, <3>1, TicketsChangeNothing
    <3>2. ASSUME NEW t \in Users, SlotSteps(t)
          PROVE  AqSlots' /\ [AqFifo!Next]_(AqFifo!vars)
      BY <2>1, <2>2, <3>2, AtomicSteps, ClaimStep, MoveStep, ReleaseStep DEF SlotSteps
    <3>3. CASE UNCHANGED aqVars
      BY <2>1, <3>3 DEF aqVars, AqFifo!vars, AqItems, size_, PushedCount, PoppedCount,
         Pushers, Poppers, TicketPending, HasTicket, SlotOf, AqSlots, LenFits,
         PresentSlots, StoredSlots, AqLen, Ahead, Num, Present, Stored, RingSlots, Users
    <3> QED BY <3>1, <3>2, <3>3 DEF AqNext
  <2> QED BY <1>0, <1>2, <2>2, <2>3 DEF AqInv, AqBase
<1> QED BY <1>1, <1>2

LEMMA AqInitImplements == AqInit => AqFifo!Init
<1> SUFFICES ASSUME AqInit PROVE AqFifo!Init
  OBVIOUS
<1>0. AqInv /\ size_ \in Nat
  BY AqInitInv, AqConfigType DEF AqInv, AqTypeOK
<1>1. AqItems = <<>>
  <2>1. CASE ~aqConfig.spsc
    BY <2>1 DEF AqItems
  <2>2. CASE aqConfig.spsc
    <3>1. AqBase /\ PresentSlots /\ LenFits
      BY <1>0, <2>2 DEF AqInv, AqBase, AqSlots
    <3>2. Present = {}
      BY DEF AqInit, Present
    <3>3. AqLen = 0
      <4>1. /\ AqLen \in Nat /\ AqLen \in 0 .. size_ /\ PoppedCount \in Int
            /\ size_ \in Nat /\ size_ > 0
        BY <1>0, <3>1, AqNumbers, AqConfigType DEF AqBase, AqTypeOK
      <4>2. PoppedCount % size_ \in RingSlots(size_, PoppedCount, AqLen) <=> AqLen > 0
        BY <4>1, SlotsFirst
      <4> QED BY <3>1, <3>2, <4>1, <4>2 DEF PresentSlots
    <3> QED BY <3>1, <3>3, AqShapeHolds, RingEmpty DEF AqShape
  <2> QED BY <2>1, <2>2
<1> QED BY <1>0, <1>1 DEF AqInit, AqFifo!Init

-----------------------------------------------------------------------------
(***************************************************************************)
(* AtomicQueue for any threads: a pool.                                    *)
(***************************************************************************)
InSlot(t) == aqPc[t] \in {"move", "release"}
ClaimedBy(t) ==
    IF aqConfig.spsc THEN IF t \in Pushers THEN "EMPTY" ELSE "STORED"
                     ELSE IF t \in Pushers THEN "STORING" ELSE "LOADING"

\* The state of a slot is a lock on it: a slot somebody is in is one thread's, the
\* others say whether there is an element.  With one producer and one consumer the
\* state that each of them needs keeps the other out.
SlotsAreClaimed ==
    \A t \in Users :
        InSlot(t) => aqConfig.any /\ states_[SlotOf(aqTicket[t])] = ClaimedBy(t)
OneInSlot ==
    \A t, u \in Users :
        InSlot(t) /\ InSlot(u) /\ SlotOf(aqTicket[t]) = SlotOf(aqTicket[u]) => t = u
Vacant(s) == \A t \in Users : InSlot(t) => SlotOf(aqTicket[t]) # s
StatesTell ==
    aqConfig.any => \A s \in 0 .. size_ - 1 :
        Vacant(s) => states_[s] = IF elements_[s] = Nil THEN "EMPTY" ELSE "STORED"

\* The element is where the thread in the slot expects it to be.
MovesFit ==
    \A t \in Users :
        /\ aqPc[t] = "move" => (elements_[SlotOf(aqTicket[t])] = Nil <=> t \in Pushers)
        /\ aqPc[t] = "release" => (elements_[SlotOf(aqTicket[t])] = Nil <=> t \in Poppers)

SlotsAreOwned == SlotsAreClaimed /\ OneInSlot /\ StatesTell /\ MovesFit

AqPoolInv == AqInv /\ SlotsAreOwned

LEMMA SlotType ==
    ASSUME AqTypeOK, NEW t \in Users
    PROVE  SlotOf(aqTicket[t]) \in 0 .. size_ - 1
  BY AqConfigType, DivMod DEF SlotOf, AqTypeOK

\* A slot is used by its thread alone; what a step does not touch stays as it was.
LEMMA SlotsAreOwnedStep ==
    ASSUME AqTypeOK, SlotsAreOwned, [AqNext]_aqVars
    PROVE  SlotsAreOwned'
<1>0. /\ SlotsAreClaimed /\ OneInSlot /\ StatesTell /\ MovesFit
      /\ Pushers \cap Poppers = {} /\ Nil \notin AllElements
      /\ aqConfig.spsc => (\A p, q \in Pushers : p = q) /\ (\A c, d \in Poppers : c = d)
  BY AqConfigType DEF SlotsAreOwned, AqTypeOK
<1>1. ASSUME NEW t \in Users,
             TakeTicket(t) \/ TryLoadCounter(t) \/ Compare(t) \/ AdvanceCounter(t)
      PROVE  SlotsAreOwned'
  <2>1. /\ UNCHANGED <<aqConfig, size_, Pushers, Poppers, Users, states_, elements_>>
        /\ \A u \in Users \ {t} : aqPc'[u] = aqPc[u] /\ aqTicket'[u] = aqTicket[u]
        /\ aqPc[t] \notin {"move", "release"} /\ aqPc'[t] \notin {"move", "release"}
    BY <1>1, AqFrame DEF TakeTicket, TryLoadCounter, Compare, AdvanceCounter, AqGoto,
                         AqReturn, AqTypeOK
  <2>2. \A u \in Users : /\ InSlot(u)' <=> InSlot(u)
                         /\ InSlot(u) => /\ aqPc'[u] = aqPc[u]
                                         /\ SlotOf(aqTicket[u])' = SlotOf(aqTicket[u])
                                         /\ ClaimedBy(u)' = ClaimedBy(u)
    BY <2>1 DEF InSlot, SlotOf, ClaimedBy
  <2>3. SlotsAreClaimed' /\ OneInSlot'
    BY <1>0, <2>1, <2>2 DEF SlotsAreClaimed, OneInSlot
  <2>4. StatesTell'
    <3>1. \A s \in 0 .. size_ - 1 : Vacant(s)' => Vacant(s)
      BY <2>1, <2>2 DEF Vacant
    <3> QED BY <1>0, <2>1, <3>1 DEF StatesTell
  <2>5. MovesFit'
    BY <1>0, <2>1, <2>2 DEF MovesFit, InSlot
  <2> QED BY <2>3, <2>4, <2>5 DEF SlotsAreOwned
<1>2. ASSUME NEW t \in Users, PushAtomic(t) \/ PopAtomic(t)
      PROVE  SlotsAreOwned'
  <2>1. /\ UNCHANGED <<aqConfig, size_, Pushers, Poppers, Users, states_>>
        /\ \A u \in Users \ {t} : aqPc'[u] = aqPc[u]
        /\ aqPc'[t] = "idle" /\ ~aqConfig.any
    BY <1>2, AqFrame DEF SlotSteps, PushAtomic, PopAtomic, AqGoto, AqReturn, AqTypeOK
  <2>2. \A u \in Users : ~InSlot(u)'
    BY <1>0, <2>1 DEF InSlot, SlotsAreClaimed
  <2>3. SlotsAreClaimed' /\ OneInSlot' /\ MovesFit'
    BY <2>1, <2>2 DEF SlotsAreClaimed, OneInSlot, MovesFit, InSlot
  <2> QED BY <2>1, <2>3 DEF SlotsAreOwned, StatesTell
<1>3. ASSUME NEW t \in Users, ClaimSlot(t) \/ MoveElement(t) \/ ReleaseSlot(t)
      PROVE  SlotsAreOwned'
  <2> DEFINE s == SlotOf(aqTicket[t])
  <2>1. /\ UNCHANGED <<aqConfig, size_, Pushers, Poppers, Users>>
        /\ \A u \in Users \ {t} : aqPc'[u] = aqPc[u] /\ aqTicket'[u] = aqTicket[u]
    BY <1>3, AqFrame DEF SlotSteps
  <2>2. s \in 0 .. size_ - 1
    BY SlotType
  <2>3. aqConfig.any
    BY <1>0, <1>3 DEF ClaimSlot, MoveElement, ReleaseSlot, SlotsAreClaimed, InSlot
  <2>4. \A u \in Users \ {t} :
            /\ InSlot(u)' <=> InSlot(u)
            /\ SlotOf(aqTicket[u])' = SlotOf(aqTicket[u])
            /\ ClaimedBy(u)' = ClaimedBy(u)
    BY <2>1 DEF InSlot, SlotOf, ClaimedBy
  <2>5. \A u \in Users \ {t} : InSlot(u) => SlotOf(aqTicket[u]) # s
    <3>1. CASE ClaimSlot(t)
      <4>1. states_[s] = IF t \in Pushers THEN "EMPTY" ELSE "STORED"
        BY <3>1 DEF ClaimSlot
      <4>2. \A u \in Users : InSlot(u) /\ SlotOf(aqTicket[u]) = s => states_[s] = ClaimedBy(u)
        BY <1>0 DEF SlotsAreClaimed
      <4> QED BY <1>0, <4>1, <4>2 DEF ClaimedBy, Users
    <3>2. CASE MoveElement(t) \/ ReleaseSlot(t)
      <4>1. InSlot(t)
        BY <3>2 DEF MoveElement, ReleaseSlot, InSlot
      <4> QED BY <1>0, <4>1 DEF OneInSlot
    <3> QED BY <1>3, <3>1, <3>2
  <2>6. /\ states_' \in [0 .. size_ - 1 -> {"EMPTY", "STORING", "STORED", "LOADING"}]
        /\ \A r \in 0 .. size_ - 1 : r # s => states_'[r] = states_[r] /\ elements_'[r] = elements_[r]
    BY <1>3, <2>2 DEF ClaimSlot, MoveElement, ReleaseSlot, AqTypeOK
  <2>7. \A u \in Users : SlotOf(aqTicket[u]) \in 0 .. size_ - 1
    BY SlotType
  <2>8. InSlot(t)' => /\ SlotOf(aqTicket[t])' = s /\ ClaimedBy(t)' = ClaimedBy(t)
                      /\ states_'[s] = ClaimedBy(t)
    <3>1. CASE ClaimSlot(t)
      <4>1. SlotOf(aqTicket[t])' = s /\ ClaimedBy(t)' = ClaimedBy(t)
        BY <2>1, <3>1 DEF ClaimSlot, SlotOf, ClaimedBy
      <4>2. states_'[s] = ClaimedBy(t)
        BY <2>2, <3>1 DEF ClaimSlot, ClaimedBy, AqTypeOK
      <4> QED BY <4>1, <4>2
    <3>2. CASE MoveElement(t)
      <4>1. states_[s] = ClaimedBy(t)
        BY <1>0, <3>2 DEF MoveElement, SlotsAreClaimed, InSlot
      <4> QED BY <2>1, <3>2, <4>1 DEF MoveElement, SlotOf, ClaimedBy
    <3>3. CASE ReleaseSlot(t)
      BY <3>3 DEF ReleaseSlot, AqReturn, AqGoto, InSlot, AqTypeOK
    <3> QED BY <1>3, <3>1, <3>2, <3>3
  <2>9. SlotsAreClaimed'
    BY <1>0, <2>1, <2>3, <2>4, <2>5, <2>6, <2>7, <2>8 DEF SlotsAreClaimed
  <2>10. OneInSlot'
    BY <1>0, <2>1, <2>4, <2>5, <2>8 DEF OneInSlot
  <2>11. ASSUME NEW r \in 0 .. size_ - 1, r = s, Vacant(r)'
         PROVE  states_'[r] = IF elements_'[r] = Nil THEN "EMPTY" ELSE "STORED"
    <3>1. CASE ClaimSlot(t) \/ MoveElement(t)
      <4>1. InSlot(t)'
        BY <3>1 DEF ClaimSlot, MoveElement, AqGoto, InSlot, AqTypeOK
      <4>2. t \in Users' /\ SlotOf(aqTicket[t])' = r
        BY <2>1, <2>8, <2>11, <4>1
      <4> QED BY <2>11, <4>1, <4>2 DEF Vacant
    <3>2. CASE ReleaseSlot(t)
      <4>1. /\ states_'[s] = IF t \in Pushers THEN "STORED" ELSE "EMPTY"
            /\ elements_' = elements_ /\ aqPc[t] = "release"
        BY <2>2, <3>2 DEF ReleaseSlot, AqTypeOK
      <4>2. elements_[s] = Nil <=> t \in Poppers
        BY <1>0, <4>1 DEF MovesFit
      <4> QED BY <1>0, <2>11, <4>1, <4>2 DEF Users
    <3> QED BY <1>3, <3>1, <3>2
  <2>12. StatesTell'
    <3>1. ASSUME NEW r \in 0 .. size_ - 1, r # s, Vacant(r)'
          PROVE  Vacant(r)
      <4>1. \A u \in Users \ {t} : InSlot(u) => SlotOf(aqTicket[u]) # r
        BY <2>1, <2>4, <3>1 DEF Vacant
      <4> QED BY <3>1, <4>1 DEF Vacant
    <3>2. ASSUME NEW r \in 0 .. size_ - 1, r # s, Vacant(r)'
          PROVE  states_'[r] = IF elements_'[r] = Nil THEN "EMPTY" ELSE "STORED"
      <4>1. states_[r] = IF elements_[r] = Nil THEN "EMPTY" ELSE "STORED"
        BY <1>0, <2>3, <3>1, <3>2 DEF StatesTell
      <4> QED BY <2>6, <3>2, <4>1
    <3>3. \A r \in 0 .. size_ - 1 :
              Vacant(r)' => states_'[r] = IF elements_'[r] = Nil THEN "EMPTY" ELSE "STORED"
      <4> HIDE DEF s, Vacant
      <4>1. ASSUME NEW r \in 0 .. size_ - 1, Vacant(r)'
            PROVE  states_'[r] = IF elements_'[r] = Nil THEN "EMPTY" ELSE "STORED"
        <5>1. CASE r = s
          BY <2>11, <4>1, <5>1
        <5>2. CASE r # s
          BY <3>2, <4>1, <5>2
        <5> QED BY <5>1, <5>2
      <4> QED BY <4>1
    <3>4. aqConfig' = aqConfig /\ size_' = size_
      BY <2>1
    <3> HIDE DEF s, Vacant, size_
    <3> QED BY <3>3, <3>4 DEF StatesTell
  <2>13. ASSUME NEW u \in Users \ {t}
         PROVE  /\ aqPc'[u] = "move" => (elements_'[SlotOf(aqTicket[u])'] = Nil <=> u \in Pushers)
                /\ aqPc'[u] = "release" => (elements_'[SlotOf(aqTicket[u])'] = Nil <=> u \in Poppers)
    BY <1>0, <2>1, <2>4, <2>5, <2>6, <2>7 DEF MovesFit, InSlot
  <2>14. /\ aqPc'[t] = "move" => (elements_'[SlotOf(aqTicket[t])'] = Nil <=> t \in Pushers)
         /\ aqPc'[t] = "release" => (elements_'[SlotOf(aqTicket[t])'] = Nil <=> t \in Poppers)
    <3>1. CASE ClaimSlot(t)
      <4>1. /\ states_[s] = IF t \in Pushers THEN "EMPTY" ELSE "STORED"
            /\ elements_' = elements_ /\ aqPc'[t] = "move" /\ SlotOf(aqTicket[t])' = s
        BY <2>1, <3>1 DEF ClaimSlot, AqGoto, AqTypeOK, SlotOf
      <4>2. Vacant(s)
        <5>1. ~InSlot(t)
          BY <3>1 DEF ClaimSlot, HasTicket, InSlot
        <5> QED BY <2>5, <5>1 DEF Vacant
      <4>3. states_[s] = IF elements_[s] = Nil THEN "EMPTY" ELSE "STORED"
        BY <1>0, <2>2, <2>3, <4>2 DEF StatesTell
      <4> QED BY <4>1, <4>3
    <3>2. CASE MoveElement(t)
      <4>1. /\ aqPc'[t] = "release" /\ SlotOf(aqTicket[t])' = s
            /\ elements_'[s] = IF t \in Pushers THEN Element(t) ELSE Nil
        BY <2>1, <2>2, <3>2 DEF MoveElement, AqGoto, AqTypeOK, SlotOf
      <4>2. t \in Pushers => Element(t) # Nil
        BY <1>0 DEF Element, AllElements, Pushers, AqTypeOK
      <4> QED BY <1>0, <4>1, <4>2 DEF Users
    <3>3. CASE ReleaseSlot(t)
      BY <3>3 DEF ReleaseSlot, AqReturn, AqGoto, AqTypeOK
    <3> QED BY <1>3, <3>1, <3>2, <3>3
  <2>15. MovesFit'
    BY <2>1, <2>13, <2>14 DEF MovesFit
  <2> QED BY <2>9, <2>10, <2>12, <2>15 DEF SlotsAreOwned
<1>4. CASE UNCHANGED aqVars
  BY <1>4 DEF aqVars, SlotsAreOwned, SlotsAreClaimed, OneInSlot, StatesTell, MovesFit,
              InSlot, ClaimedBy, Vacant, SlotOf, size_, Pushers, Poppers, Users
<1> QED BY <1>1, <1>2, <1>3, <1>4 DEF AqNext, SlotSteps

-----------------------------------------------------------------------------
\* An element put into an empty slot.
LEMMA ElementIn ==
    ASSUME AqTypeOK, UNCHANGED size_, UNCHANGED taken,
           NEW s \in 0 .. size_ - 1, elements_[s] = Nil,
           NEW e, e # Nil, elements_' = [elements_ EXCEPT ![s] = e]
    PROVE  /\ AqPool!Put(e)
           /\ Present' = Present \cup {s} /\ s \notin Present /\ IsFiniteSet(Present)
<1> DEFINE At(x) == {r \in Present : elements_[r] = x}
<1>0. size_ \in Nat /\ \A r \in 0 .. size_ - 1 : elements_'[r] = IF r = s THEN e ELSE elements_[r]
  BY AqConfigType DEF AqTypeOK
<1>1. Present' = Present \cup {s} /\ s \notin Present
  BY <1>0 DEF Present
<1>2. IsFiniteSet(Present) /\ \A x : IsFiniteSet(At(x)) /\ Cardinality(At(x)) \in Nat
  <2>1. IsFiniteSet(0 .. size_ - 1)
    BY <1>0, FS_Interval
  <2>2. IsFiniteSet(Present)
    BY <2>1, FS_Subset DEF Present
  <2>3. \A x : At(x) \in SUBSET Present
    OBVIOUS
  <2> QED BY <2>2, <2>3, FS_Subset, FS_CardinalityType
<1>3. \A x : At(x)' = IF x = e THEN At(x) \cup {s} ELSE At(x)
  BY <1>0, <1>1 DEF Present
<1>4. \A x : Cardinality(At(x)') = IF x = e THEN Cardinality(At(x)) + 1 ELSE Cardinality(At(x))
  <2>1. \A x : s \notin At(x)
    BY <1>1
  <2>2. Cardinality(At(e) \cup {s}) = Cardinality(At(e)) + 1
    <3> DEFINE S == At(e)
    <3>1. IsFiniteSet(S) /\ s \notin S
      BY <1>2, <2>1
    <3> HIDE DEF S
    <3>2. Cardinality(S \cup {s}) = Cardinality(S) + 1
      BY <3>1, FS_AddElement
    <3> QED BY <3>2 DEF S
  <2> QED BY <1>3, <2>2
<1>5. {elements_'[r] : r \in Present'} = {elements_[r] : r \in Present} \cup {e}
  BY <1>0, <1>1 DEF Present
<1>6. /\ AqBag = [x \in {elements_[r] : r \in Present} |-> Cardinality(At(x))]
      /\ AqBag' = [x \in {elements_'[r] : r \in Present'} |-> Cardinality(At(x)')]
  BY DEF AqBag
<1>7. e \notin {elements_[r] : r \in Present} => Cardinality(At(e)) = 0
  <2>1. e \notin {elements_[r] : r \in Present} => At(e) = {}
    OBVIOUS
  <2> QED BY <2>1, FS_EmptySet
<1> HIDE DEF At
<1>8. AqBag' = [x \in DOMAIN AqBag \cup {e} |->
                    (IF x \in DOMAIN AqBag THEN AqBag[x] ELSE 0) + (IF x \in {e} THEN 1 ELSE 0)]
  <2> DEFINE D == {elements_[r] : r \in Present}
  <2>1. DOMAIN AqBag = D /\ \A x \in D : AqBag[x] = Cardinality(At(x))
    BY <1>6
  <2>2. AqBag' = [x \in D \cup {e} |-> Cardinality(At(x)')]
    BY <1>5, <1>6
  <2> HIDE DEF D
  <2>3. ASSUME NEW x \in D \cup {e}
        PROVE  Cardinality(At(x)') = (IF x \in D THEN AqBag[x] ELSE 0) + (IF x \in {e} THEN 1 ELSE 0)
    <3>1. e \notin D => Cardinality(At(e)) = 0
      BY <1>7 DEF D
    <3> QED BY <1>2, <1>4, <2>1, <3>1
  <2> QED BY <2>1, <2>2, <2>3
<1>9. AqPool!Put(e)
  BY <1>8 DEF AqPool!Put, AqPool!SetToBag, AqPool!(+)
<1> QED BY <1>1, <1>2, <1>9

\* An element taken out of its slot.
LEMMA ElementOut ==
    ASSUME AqTypeOK, UNCHANGED size_, NEW s \in 0 .. size_ - 1, elements_[s] # Nil,
           taken' = elements_[s], elements_' = [elements_ EXCEPT ![s] = Nil]
    PROVE  /\ AqPool!Take(elements_[s])
           /\ Present' = Present \ {s} /\ s \in Present /\ IsFiniteSet(Present)
<1> DEFINE At(x) == {r \in Present : elements_[r] = x}
           e == elements_[s]
<1>0. size_ \in Nat /\ \A r \in 0 .. size_ - 1 : elements_'[r] = IF r = s THEN Nil ELSE elements_[r]
  BY AqConfigType DEF AqTypeOK
<1>1. Present' = Present \ {s} /\ s \in Present
  BY <1>0 DEF Present
<1>2. IsFiniteSet(Present) /\ \A x : IsFiniteSet(At(x)) /\ Cardinality(At(x)) \in Nat
  <2>1. IsFiniteSet(0 .. size_ - 1)
    BY <1>0, FS_Interval
  <2>2. IsFiniteSet(Present)
    BY <2>1, FS_Subset DEF Present
  <2>3. \A x : At(x) \in SUBSET Present
    OBVIOUS
  <2> QED BY <2>2, <2>3, FS_Subset, FS_CardinalityType
<1>3. \A x : At(x)' = IF x = e THEN At(x) \ {s} ELSE At(x)
  BY <1>0, <1>1 DEF Present
<1>4. /\ \A x : Cardinality(At(x)') = IF x = e THEN Cardinality(At(x)) - 1 ELSE Cardinality(At(x))
      /\ \A x : Cardinality(At(x)) > 0 <=> x \in {elements_[r] : r \in Present}
      /\ \A x : Cardinality(At(x)') > 0 <=> x \in {elements_'[r] : r \in Present'}
  <2>1. s \in At(e)
    BY <1>1
  <2>2. Cardinality(At(e) \ {s}) = Cardinality(At(e)) - 1
    <3> DEFINE S == At(e)
    <3>1. IsFiniteSet(S) /\ s \in S
      BY <1>2, <2>1
    <3> HIDE DEF S
    <3>2. Cardinality(S \ {s}) = Cardinality(S) - 1
      BY <3>1, FS_RemoveElement
    <3> QED BY <3>2 DEF S
  <2>3. \A x : x \in {elements_[r] : r \in Present} <=> At(x) # {}
    OBVIOUS
  <2>4. \A x : x \in {elements_'[r] : r \in Present'} <=> At(x)' # {}
    OBVIOUS
  <2>5. \A x : IsFiniteSet(At(x)')
    <3>1. \A x : At(x)' \in SUBSET At(x)
      BY <1>3
    <3> HIDE DEF At
    <3> QED BY <1>2, <3>1, FS_Subset
  <2>6. \A S : IsFiniteSet(S) => (Cardinality(S) > 0 <=> S # {})
    BY FS_EmptySet, FS_CardinalityType
  <2>7. \A x : Cardinality(At(x)') = IF x = e THEN Cardinality(At(x)) - 1 ELSE Cardinality(At(x))
    BY <1>3, <2>2
  <2> HIDE DEF At
  <2> QED BY <1>2, <2>3, <2>4, <2>5, <2>6, <2>7
<1>6. /\ AqBag = [x \in {elements_[r] : r \in Present} |-> Cardinality(At(x))]
      /\ AqBag' = [x \in {elements_'[r] : r \in Present'} |-> Cardinality(At(x)')]
  BY DEF AqBag
<1>7. e \in {elements_[r] : r \in Present}
  BY <1>1
<1> HIDE DEF At
<1>8. /\ e \in DOMAIN AqBag
      /\ \A B : B = [x \in DOMAIN AqBag |-> IF x \in {e} THEN AqBag[x] - 1 ELSE AqBag[x]]
                    => AqBag' = [x \in {d \in DOMAIN B : B[d] > 0} |-> B[x]]
  <2> DEFINE D == {elements_[r] : r \in Present}
             D1 == {elements_'[r] : r \in Present'}
  <2>1. DOMAIN AqBag = D /\ \A x \in D : AqBag[x] = Cardinality(At(x))
    BY <1>6
  <2>2. AqBag' = [x \in D1 |-> Cardinality(At(x)')]
    BY <1>6
  <2>3. /\ \A x : Cardinality(At(x)) > 0 <=> x \in D
        /\ \A x : Cardinality(At(x)') > 0 <=> x \in D1
        /\ e \in D
    BY <1>4, <1>7
  <2> HIDE DEF D, D1
  <2>4. ASSUME NEW B, B = [x \in D |-> IF x \in {e} THEN AqBag[x] - 1 ELSE AqBag[x]]
        PROVE  AqBag' = [x \in {d \in DOMAIN B : B[d] > 0} |-> B[x]]
    <3>1. \A x \in D : B[x] = Cardinality(At(x)')
      BY <1>4, <2>1, <2>4
    <3>2. D1 \subseteq D
      BY <1>2, <1>4, <2>3
    <3>3. {d \in DOMAIN B : B[d] > 0} = D1
      BY <2>3, <2>4, <3>1, <3>2
    <3> QED BY <2>2, <3>1, <3>2, <3>3
  <2> QED BY <2>1, <2>3, <2>4
<1>9. AqPool!Take(e)
  <2> DEFINE B == [x \in DOMAIN AqBag |-> IF x \in {e} THEN AqBag[x] - 1 ELSE AqBag[x]]
  <2>1. AqBag' = [x \in {d \in DOMAIN B : B[d] > 0} |-> B[x]]
    BY <1>8
  <2>2. \A x \in {e} : [y \in {e} |-> 1][x] = 1
    OBVIOUS
  <2> QED BY <1>8, <2>1, <2>2
          DEF AqPool!Take, AqPool!SetToBag, AqPool!(-), AqPool!BagIn, AqPool!BagToSet
<1> QED BY <1>1, <1>2, <1>9

\* A thread that moves an element in finds none, one that moves one out does.
LEMMA MoveFinds ==
    ASSUME AqPoolInv, NEW t \in Users, aqPc[t] = "move"
    PROVE  elements_[SlotOf(aqTicket[t])] = Nil <=> t \in Pushers
  BY DEF AqPoolInv, SlotsAreOwned, MovesFit

\* Where an element goes in or out, one more or less is present.
LEMMA PushPuts ==
    ASSUME AqPoolInv, NEW t \in Pushers, PushAtomic(t) \/ MoveElement(t)
    PROVE  /\ \E e \in AllElements : AqPool!Put(e)
           /\ \E s : /\ Present' = Present \cup {s} /\ s \notin Present
           /\ IsFiniteSet(Present)
<1> DEFINE s == SlotOf(aqTicket[t])
<1>0. /\ AqTypeOK /\ t \in Users /\ Pushers \cap Poppers = {} /\ Nil \notin AllElements
  BY AqConfigType DEF AqPoolInv, AqInv, AqTypeOK, Users
<1>1. /\ s \in 0 .. size_ - 1 /\ UNCHANGED <<size_, taken>>
      /\ elements_' = [elements_ EXCEPT ![s] = Element(t)]
  BY <1>0, SlotType DEF PushAtomic, MoveElement, size_
<1>2. elements_[s] = Nil
  BY <1>0, MoveFinds DEF PushAtomic, MoveElement
<1>3. Element(t) \in AllElements /\ Element(t) # Nil
  BY <1>0 DEF Element, AllElements, Pushers, AqTypeOK
<1> HIDE DEF s
<1> QED BY <1>0, <1>1, <1>2, <1>3, ElementIn

LEMMA PopTakes ==
    ASSUME AqPoolInv, NEW t \in Poppers, PopAtomic(t) \/ MoveElement(t)
    PROVE  /\ \E e \in AllElements : AqPool!Take(e)
           /\ \E s : /\ Present' = Present \ {s} /\ s \in Present
           /\ IsFiniteSet(Present)
<1> DEFINE s == SlotOf(aqTicket[t])
<1>0. /\ AqTypeOK /\ t \in Users /\ t \notin Pushers
  BY AqConfigType DEF AqPoolInv, AqInv, AqTypeOK, Users
<1>1. /\ s \in 0 .. size_ - 1 /\ UNCHANGED size_ /\ taken' = elements_[s]
      /\ elements_' = [elements_ EXCEPT ![s] = Nil]
  BY <1>0, SlotType DEF PopAtomic, MoveElement, size_
<1>2. elements_[s] # Nil
  BY <1>0, MoveFinds DEF PopAtomic, MoveElement
<1>3. elements_[s] \in AllElements
  BY <1>0, <1>1, <1>2 DEF AqTypeOK
<1> HIDE DEF s
<1> QED BY <1>0, <1>1, <1>2, <1>3, ElementOut

\* What the pool is made of.
LEMMA SameBag ==
    ASSUME UNCHANGED <<size_, elements_>>
    PROVE  AqBag' = AqBag /\ Present' = Present
<1>1. Present' = Present
  BY DEF Present
<1> QED BY <1>1 DEF AqBag

LEMMA AqPoolStep ==
    ASSUME AqPoolInv, [AqNext]_aqVars
    PROVE  AqPoolInv' /\ [AqPool!Next]_<<AqBag, taken>>
<1>0. AqTypeOK /\ aqConfig' = aqConfig /\ size_' = size_
  <2>1. AqTypeOK
    BY DEF AqPoolInv, AqInv
  <2>2. aqConfig' = aqConfig
    BY <2>1, AqFrame DEF AqNext, aqVars
  <2> QED BY <2>1, <2>2 DEF size_
<1>1. AqPoolInv'
  <2>1. AqInv'
    BY AqStep DEF AqPoolInv
  <2>2. SlotsAreOwned'
    BY <1>0, SlotsAreOwnedStep DEF AqPoolInv
  <2> QED BY <2>1, <2>2 DEF AqPoolInv
<1>2. ASSUME NEW t \in Users,
             \/ TakeTicket(t) \/ TryLoadCounter(t) \/ Compare(t) \/ AdvanceCounter(t)
             \/ ClaimSlot(t) \/ ReleaseSlot(t)
      PROVE  UNCHANGED <<AqBag, taken>>
  <2>1. UNCHANGED <<elements_, taken>>
    BY <1>2 DEF TakeTicket, TryLoadCounter, Compare, AdvanceCounter, ClaimSlot, ReleaseSlot
  <2> QED BY <1>0, <2>1, SameBag
<1>3. ASSUME NEW t \in Users, PushAtomic(t) \/ PopAtomic(t) \/ MoveElement(t)
      PROVE  AqPool!Next
  <2>1. CASE t \in Pushers /\ (PushAtomic(t) \/ MoveElement(t))
    BY <2>1, PushPuts DEF AqPool!Next
  <2>2. CASE t \in Poppers /\ (PopAtomic(t) \/ MoveElement(t))
    BY <2>2, PopTakes DEF AqPool!Next
  <2> QED BY <1>3, <2>1, <2>2 DEF Users, PushAtomic, PopAtomic
<1>4. ASSUME UNCHANGED aqVars PROVE UNCHANGED <<AqBag, taken>>
  BY <1>0, <1>4, SameBag DEF aqVars
<1>5. [AqPool!Next]_<<AqBag, taken>>
  BY <1>2, <1>3, <1>4 DEF AqNext, SlotSteps
<1> QED BY <1>1, <1>5

LEMMA AqPoolInitInv ==
    ASSUME AqInit
    PROVE  AqPoolInv /\ AqBag = AqPool!EmptyBag
<1>1. AqInv
  BY AqInitInv
<1>2. \A s \in 0 .. size_ - 1 : states_[s] = "EMPTY" /\ elements_[s] = Nil
  BY DEF AqInit
<1>3. \A t \in Users : aqPc[t] = "idle"
  BY DEF AqInit
<1>4. SlotsAreOwned
  BY <1>2, <1>3
     DEF SlotsAreOwned, SlotsAreClaimed, OneInSlot, StatesTell, MovesFit, InSlot
<1>5. Present = {}
  BY <1>2 DEF Present
<1>6. AqBag = AqPool!EmptyBag
  BY <1>5 DEF AqBag, AqPool!EmptyBag, AqPool!SetToBag
<1> QED BY <1>1, <1>4, <1>6 DEF AqPoolInv

-----------------------------------------------------------------------------
(***************************************************************************)
(* AtomicQueue: a try takes its ticket where there is room, or an element, *)
(* and needs no later call if its side uses tries alone.                   *)
(***************************************************************************)
Half == Modulus \div 2
Pending(S) == {t \in S : TicketPending(t)}

\* The tickets given out for pushes and not used yet will fill slots, those for pops
\* will empty some: by how much head_ is beyond tail_.
Level == Cardinality(Present) + Cardinality(Pending(Pushers)) - Cardinality(Pending(Poppers))
LevelIs == aqHead - aqTail \in {Level - Modulus, Level, Level + Modulus}

\* How far the counter has moved since thread t loaded it.
Late(t) == Ahead(Modulus, AqCounter(t), aqTicket[t])
NotOvertaken ==
    \A t \in Users : aqPc[t] \in {"compare", "advance"} => Late(t) < Half

\* Where the counter was when t loaded it, there was room, or an element, and still
\* is: the other side can only have made more.
ComparedWell ==
    \A t \in Users :
        aqPc[t] = "advance" =>
            IF t \in Pushers THEN Level - Late(t) < size_ ELSE Level + Late(t) > 0

\* How many tickets were given out for slot s of n before the counter x, if it did
\* not wrap.
TicketsBefore(n, x, s) == (x \div n) + (IF x % n > s THEN 1 ELSE 0)

\* The tickets not used yet of one slot.
PendingAt(t, s) == TicketPending(t) /\ SlotOf(aqTicket[t]) = s
At(S, s) == {t \in S : PendingAt(t, s)}
Filled(s) == IF elements_[s] = Nil THEN 0 ELSE 1

\* At each slot, what was put in and not taken out is what the tickets given out for
\* it make up to, but for those not used yet; x is tail_ as if it did not wrap.
Balance(s) == Filled(s) + Cardinality(At(Pushers, s)) - Cardinality(At(Poppers, s))
Balanced(x) ==
    \A s \in 0 .. size_ - 1 :
        Balance(s) = TicketsBefore(size_, x + Level, s) - TicketsBefore(size_, x, s)
SlotsBalance ==
    \E x \in Int : x % Modulus = aqTail /\ (x + Level) % Modulus = aqHead /\ Balanced(x)

\* A side that only tries goes no further than the other lets it.
LevelKept ==
    /\ Poppers \subseteq aqConfig.onlyTries => Level >= 0
    /\ Pushers \subseteq aqConfig.onlyTries => Level <= size_

TriesInv ==
    AqPoolInv /\ LevelIs /\ NotOvertaken /\ ComparedWell /\ SlotsBalance /\ LevelKept

\* AsInt of a difference of counters, whose true value is x.
LEMMA AsIntIs ==
    ASSUME NEW x \in Int, NEW l \in Int, Modulus \in Nat, Modulus > 1,
           -(Half) <= x, x < Half
    PROVE  AsInt(x + Modulus * l) = x
<1>0. Half \in Nat /\ Half > 0 /\ 2 * Half <= Modulus
  BY DEF Half
<1>1. (x + Modulus * l) % Modulus = x % Modulus
  <2>1. Modulus > 0
    OBVIOUS
  <2> QED BY <2>1, LapsOff
<1>2. CASE x >= 0
  <2>1. x % Modulus = x
    BY <1>0, <1>2
  <2> QED BY <1>0, <1>1, <2>1 DEF AsInt, Half
<1>3. CASE x < 0
  <2>1. x + Modulus \in 0 .. Modulus - 1 /\ Modulus * (-1) = - Modulus
    BY <1>0, <1>3
  <2>2. (Modulus * (-1) + (x + Modulus)) % Modulus = x + Modulus
    BY <2>1, RemainderIs
  <2>3. x % Modulus = x + Modulus
    BY <2>1, <2>2
  <2>4. ~(x + Modulus < Half)
    BY <1>0, <1>3
  <2> QED BY <1>1, <2>3, <2>4 DEF AsInt, Half
<1> QED BY <1>2, <1>3

\* AsInt of such a difference when it may have gone round.
LEMMA AsIntBeyond ==
    ASSUME NEW x \in Int, NEW l \in Int, Modulus \in Nat, Modulus > 1
    PROVE  /\ AsInt(x + Modulus * l) \in Int
           /\ Half <= x /\ x < Modulus => AsInt(x + Modulus * l) < 0
<1>0. Half \in Nat /\ Half > 0 /\ 2 * Half <= Modulus
  BY DEF Half
<1>1. (x + Modulus * l) % Modulus = x % Modulus /\ x % Modulus \in 0 .. Modulus - 1
  <2>1. Modulus > 0
    OBVIOUS
  <2> QED BY <2>1, LapsOff, DivMod
<1>2. AsInt(x + Modulus * l) = IF x % Modulus < Half THEN x % Modulus ELSE (x % Modulus) - Modulus
  BY <1>1 DEF AsInt, Half
<1>3. Half <= x /\ x < Modulus => x % Modulus = x
  BY <1>0
<1> QED BY <1>0, <1>1, <1>2, <1>3

LEMMA LevelType ==
    ASSUME AqTypeOK
    PROVE  /\ Modulus \in Nat /\ Modulus > 1
           /\ size_ \in Nat /\ size_ > 0 /\ Half \in Nat
           /\ IsFiniteSet(Present)
           /\ IsFiniteSet(Pending(Pushers)) /\ IsFiniteSet(Pending(Poppers))
           /\ Cardinality(Present) \in Nat
           /\ Cardinality(Pending(Pushers)) \in Nat /\ Cardinality(Pending(Poppers)) \in Nat
           /\ Level \in Int /\ -(Half) <= Level /\ Level < Half
<1>1. /\ Modulus \in Nat \ {0} /\ size_ \in Nat \ {0}
      /\ IsFiniteSet(Pushers) /\ IsFiniteSet(Poppers)
      /\ size_ + Cardinality(Pushers) < Half
      /\ Cardinality(Poppers) <= Half
  <2>1. aqConfig \in AqConfigs
    BY DEF AqTypeOK
  <2>2. /\ Modulus \in Nat \ {0}
        /\ \A c \in AqConfigs :
               /\ c.size \in Nat \ {0}
               /\ IsFiniteSet(c.pushers) /\ IsFiniteSet(c.poppers)
               /\ c.size + Cardinality(c.pushers) < Modulus \div 2
               /\ Cardinality(c.poppers) <= Modulus \div 2
    BY Zenon, AtomicQueueAssumption
  <2> QED BY <2>1, <2>2 DEF size_, Pushers, Poppers, Half
<1>2. IsFiniteSet(0 .. size_ - 1) /\ Cardinality(0 .. size_ - 1) = size_
  BY <1>1, FS_Interval
<1>3. IsFiniteSet(Present) /\ Cardinality(Present) <= size_
  <2>1. Present \in SUBSET (0 .. size_ - 1)
    BY DEF Present
  <2> QED BY <1>2, <2>1, FS_Subset
<1>4. /\ IsFiniteSet(Pending(Pushers)) /\ Cardinality(Pending(Pushers)) <= Cardinality(Pushers)
      /\ IsFiniteSet(Pending(Poppers)) /\ Cardinality(Pending(Poppers)) <= Cardinality(Poppers)
  <2>1. Pending(Pushers) \in SUBSET Pushers /\ Pending(Poppers) \in SUBSET Poppers
    BY DEF Pending
  <2> QED BY <1>1, <2>1, FS_Subset
<1>5. /\ Cardinality(Present) \in Nat /\ Cardinality(Pushers) \in Nat
      /\ Cardinality(Poppers) \in Nat
      /\ Cardinality(Pending(Pushers)) \in Nat /\ Cardinality(Pending(Poppers)) \in Nat
  BY <1>1, <1>3, <1>4, FS_CardinalityType
<1>6. Half \in Nat /\ 2 * Half <= Modulus
  BY <1>1 DEF Half
<1> HIDE DEF Half
<1> QED BY <1>1, <1>3, <1>4, <1>5, <1>6 DEF Level

\* A step changes no ticket but its thread's.
LEMMA PendingStep ==
    ASSUME AqTypeOK, NEW t \in Users,
           TakeTicket(t) \/ TryLoadCounter(t) \/ Compare(t) \/ AdvanceCounter(t)
           \/ SlotSteps(t)
    PROVE  /\ Pending(Pushers)' = IF t \in Pushers /\ TicketPending(t)'
                                  THEN Pending(Pushers) \cup {t} ELSE Pending(Pushers) \ {t}
           /\ Pending(Poppers)' = IF t \in Poppers /\ TicketPending(t)'
                                  THEN Pending(Poppers) \cup {t} ELSE Pending(Poppers) \ {t}
           /\ t \in Pending(Pushers) <=> t \in Pushers /\ TicketPending(t)
           /\ t \in Pending(Poppers) <=> t \in Poppers /\ TicketPending(t)
<1>1. /\ UNCHANGED <<Pushers, Poppers>>
      /\ \A u \in Users \ {t} : aqPc'[u] = aqPc[u]
  BY AqFrame
<1>2. \A u \in Users \ {t} : TicketPending(u)' <=> TicketPending(u)
  BY <1>1 DEF TicketPending, HasTicket
<1>3. /\ Pending(Pushers)' = {u \in Pushers : TicketPending(u)'}
      /\ Pending(Poppers)' = {u \in Poppers : TicketPending(u)'}
  BY <1>1 DEF Pending
<1> HIDE DEF TicketPending
<1>4. ASSUME NEW S, S \subseteq Users
      PROVE  /\ {u \in S : TicketPending(u)'} = IF t \in S /\ TicketPending(t)'
                     THEN {u \in S : TicketPending(u)} \cup {t} ELSE {u \in S : TicketPending(u)} \ {t}
             /\ t \in {u \in S : TicketPending(u)} <=> t \in S /\ TicketPending(t)
  <2>1. CASE t \in S /\ TicketPending(t)'
    BY <1>2, <1>4, <2>1, Zenon
  <2>2. CASE ~(t \in S /\ TicketPending(t)')
    BY <1>2, <1>4, <2>2, Zenon
  <2> QED BY <2>1, <2>2
<1>5. Pushers \subseteq Users /\ Poppers \subseteq Users
  BY DEF Users
<1> QED BY <1>3, <1>4, <1>5, Zenon DEF Pending

\* A ticket taken raises the level, or lowers it; nothing else changes it.
LEMMA LevelStep ==
    ASSUME AqPoolInv, NEW t \in Users,
           TakeTicket(t) \/ TryLoadCounter(t) \/ Compare(t) \/ AdvanceCounter(t)
           \/ SlotSteps(t)
    PROVE  Level' = IF ~TicketPending(t) /\ TicketPending(t)'
                    THEN IF t \in Pushers THEN Level + 1 ELSE Level - 1
                    ELSE Level
<1> DEFINE F == Cardinality(Present)
           I == Cardinality(Pending(Pushers))
           O == Cardinality(Pending(Poppers))
<1>0. /\ AqTypeOK /\ Pushers \cap Poppers = {} /\ size_' = size_
  BY AqConfigType, AqFrame DEF AqPoolInv, AqInv, AqTypeOK
<1>1. /\ F \in Nat /\ I \in Nat /\ O \in Nat /\ Level = F + I - O /\ Level' = F' + I' - O'
      /\ IsFiniteSet(Pending(Pushers)) /\ IsFiniteSet(Pending(Poppers))
  BY <1>0, LevelType DEF Level
<1>2. /\ t \in Pushers => Pending(Poppers)' = Pending(Poppers)
      /\ t \in Poppers => Pending(Pushers)' = Pending(Pushers)
  BY <1>0, PendingStep
<1>3. ASSUME NEW S, IsFiniteSet(S)
      PROVE  /\ t \notin S => Cardinality(S \cup {t}) = Cardinality(S) + 1
             /\ t \in S => Cardinality(S \ {t}) = Cardinality(S) - 1
             /\ t \notin S => S \ {t} = S
             /\ t \in S => S \cup {t} = S
  BY <1>3, FS_AddElement, FS_RemoveElement
<1>4. /\ t \in Pushers /\ ~TicketPending(t) /\ TicketPending(t)' => I' = I + 1
      /\ t \in Pushers /\ TicketPending(t) /\ ~TicketPending(t)' => I' = I - 1
      /\ t \in Pushers /\ ~TicketPending(t) /\ ~TicketPending(t)' => I' = I
      /\ t \in Pushers /\ TicketPending(t) /\ TicketPending(t)' => I' = I
  <2>1. CASE t \in Pushers /\ ~TicketPending(t) /\ TicketPending(t)'
    <3>1. Pending(Pushers)' = Pending(Pushers) \cup {t} /\ t \notin Pending(Pushers)
      BY <1>0, <2>1, PendingStep, Zenon
    <3> QED BY <1>1, <1>3, <2>1, <3>1
  <2>2. CASE t \in Pushers /\ TicketPending(t) /\ ~TicketPending(t)'
    <3>1. Pending(Pushers)' = Pending(Pushers) \ {t} /\ t \in Pending(Pushers)
      BY <1>0, <2>2, PendingStep, Zenon
    <3> QED BY <1>1, <1>3, <2>2, <3>1
  <2>3. CASE t \in Pushers /\ (TicketPending(t) <=> TicketPending(t)')
    <3>1. Pending(Pushers)' = Pending(Pushers)
      <4>1. CASE TicketPending(t)
        <5>1. Pending(Pushers)' = Pending(Pushers) \cup {t} /\ t \in Pending(Pushers)
          BY <1>0, <2>3, <4>1, PendingStep, Zenon
        <5> QED BY <5>1
      <4>2. CASE ~TicketPending(t)
        <5>1. Pending(Pushers)' = Pending(Pushers) \ {t} /\ t \notin Pending(Pushers)
          BY <1>0, <2>3, <4>2, PendingStep, Zenon
        <5> QED BY <5>1
      <4> QED BY <4>1, <4>2
    <3> QED BY <2>3, <3>1
  <2> QED BY <2>1, <2>2, <2>3
<1>5. /\ t \in Poppers /\ ~TicketPending(t) /\ TicketPending(t)' => O' = O + 1
      /\ t \in Poppers /\ TicketPending(t) /\ ~TicketPending(t)' => O' = O - 1
      /\ t \in Poppers /\ ~TicketPending(t) /\ ~TicketPending(t)' => O' = O
      /\ t \in Poppers /\ TicketPending(t) /\ TicketPending(t)' => O' = O
  <2>1. CASE t \in Poppers /\ ~TicketPending(t) /\ TicketPending(t)'
    <3>1. Pending(Poppers)' = Pending(Poppers) \cup {t} /\ t \notin Pending(Poppers)
      BY <1>0, <2>1, PendingStep, Zenon
    <3> QED BY <1>1, <1>3, <2>1, <3>1
  <2>2. CASE t \in Poppers /\ TicketPending(t) /\ ~TicketPending(t)'
    <3>1. Pending(Poppers)' = Pending(Poppers) \ {t} /\ t \in Pending(Poppers)
      BY <1>0, <2>2, PendingStep, Zenon
    <3> QED BY <1>1, <1>3, <2>2, <3>1
  <2>3. CASE t \in Poppers /\ (TicketPending(t) <=> TicketPending(t)')
    <3>1. Pending(Poppers)' = Pending(Poppers)
      <4>1. CASE TicketPending(t)
        <5>1. Pending(Poppers)' = Pending(Poppers) \cup {t} /\ t \in Pending(Poppers)
          BY <1>0, <2>3, <4>1, PendingStep, Zenon
        <5> QED BY <5>1
      <4>2. CASE ~TicketPending(t)
        <5>1. Pending(Poppers)' = Pending(Poppers) \ {t} /\ t \notin Pending(Poppers)
          BY <1>0, <2>3, <4>2, PendingStep, Zenon
        <5> QED BY <5>1
      <4> QED BY <4>1, <4>2
    <3> QED BY <2>3, <3>1
  <2> QED BY <2>1, <2>2, <2>3
<1>6. CASE \/ TakeTicket(t) \/ TryLoadCounter(t) \/ Compare(t) \/ AdvanceCounter(t)
           \/ ClaimSlot(t) \/ ReleaseSlot(t)
  <2>1. elements_' = elements_
    BY <1>6 DEF TakeTicket, TryLoadCounter, Compare, AdvanceCounter, ClaimSlot, ReleaseSlot
  <2>2. F' = F
    BY <1>0, <2>1, SameBag
  <2>3. ~(TicketPending(t) /\ ~TicketPending(t)')
    BY <1>0, <1>6 DEF TakeTicket, TryLoadCounter, Compare, AdvanceCounter, ClaimSlot,
       ReleaseSlot, TicketPending, HasTicket, AqGoto, AqReturn, AqTypeOK
  <2> HIDE DEF F, I, O
  <2>4. CASE t \in Pushers
    <3>1. t \notin Poppers /\ O' = O
      BY <1>0, <1>2, <2>4 DEF O
    <3> QED BY <1>1, <1>4, <2>2, <2>3, <2>4, <3>1
  <2>5. CASE t \in Poppers
    <3>1. t \notin Pushers /\ I' = I
      BY <1>0, <1>2, <2>5 DEF I
    <3> QED BY <1>1, <1>5, <2>2, <2>3, <2>5, <3>1
  <2> QED BY <2>4, <2>5 DEF Users
<1>7. CASE PushAtomic(t) \/ PopAtomic(t) \/ MoveElement(t)
  <2>1. TicketPending(t) /\ ~TicketPending(t)'
    BY <1>0, <1>7 DEF PushAtomic, PopAtomic, MoveElement, TicketPending, HasTicket, AqGoto,
       AqReturn, AqTypeOK
  <2>2. CASE t \in Pushers
    <3>1. /\ PushAtomic(t) \/ MoveElement(t)
          /\ t \notin Poppers
      BY <1>0, <1>7, <2>2 DEF PopAtomic
    <3>2. PICK s : Present' = Present \cup {s} /\ s \notin Present /\ IsFiniteSet(Present)
      BY <2>2, <3>1, PushPuts
    <3>3. F' = F + 1
      BY <3>2, FS_AddElement
    <3>4. O' = O
      BY <1>2, <2>2
    <3> HIDE DEF F, I, O
    <3> QED BY <1>1, <1>4, <2>1, <2>2, <3>3, <3>4
  <2>3. CASE t \in Poppers
    <3>1. /\ PopAtomic(t) \/ MoveElement(t)
          /\ t \notin Pushers
      BY <1>0, <1>7, <2>3 DEF PushAtomic
    <3>2. PICK s : Present' = Present \ {s} /\ s \in Present /\ IsFiniteSet(Present)
      BY <2>3, <3>1, PopTakes
    <3>3. F' = F - 1
      BY <3>2, FS_RemoveElement
    <3>4. I' = I
      BY <1>2, <2>3
    <3> HIDE DEF F, I, O
    <3> QED BY <1>1, <1>5, <2>1, <2>3, <3>3, <3>4
  <2> QED BY <2>2, <2>3 DEF Users
<1> QED BY <1>6, <1>7 DEF SlotSteps

\* Which steps take a ticket, and what they do to the counters.
LEMMA CounterStep ==
    ASSUME AqTypeOK, NEW t \in Users,
           TakeTicket(t) \/ TryLoadCounter(t) \/ Compare(t) \/ AdvanceCounter(t)
           \/ SlotSteps(t)
    PROVE  IF ~TicketPending(t) /\ TicketPending(t)'
           THEN /\ ~Overtakes(t) /\ aqPc'[t] \in {"wait", "tryWait"}
                /\ IF t \in Pushers THEN aqHead' = (aqHead + 1) % Modulus /\ aqTail' = aqTail
                                    ELSE aqTail' = (aqTail + 1) % Modulus /\ aqHead' = aqHead
           ELSE UNCHANGED <<aqHead, aqTail>>
<1>1. CASE TryLoadCounter(t) \/ Compare(t) \/ SlotSteps(t)
  <2>1. UNCHANGED <<aqHead, aqTail>>
    BY <1>1, CountersStay
  <2>2. ~(~TicketPending(t) /\ TicketPending(t)')
    BY <1>1 DEF TryLoadCounter, Compare, SlotSteps, PushAtomic, PopAtomic, ClaimSlot,
       MoveElement, ReleaseSlot, TicketPending, HasTicket, AqGoto, AqReturn, AqTypeOK
  <2> QED BY <2>1, <2>2
<1>2. CASE TakeTicket(t) \/ AdvanceCounter(t)
  <2>1. /\ ~TicketPending(t)
        /\ \/ aqPc'[t] \in {"wait", "tryWait"} /\ AqAdvance(t)
           \/ aqPc'[t] = "compare" /\ UNCHANGED <<aqHead, aqTail>>
    BY <1>2 DEF TakeTicket, AdvanceCounter, TicketPending, HasTicket, AqGoto, AqTypeOK
  <2>2. CASE aqPc'[t] \in {"wait", "tryWait"} /\ AqAdvance(t)
    <3>1. TicketPending(t)'
      BY <2>2 DEF TicketPending, HasTicket
    <3> QED BY <2>1, <2>2, <3>1 DEF AqAdvance, Plus1
  <2>3. CASE aqPc'[t] = "compare" /\ UNCHANGED <<aqHead, aqTail>>
    <3>1. ~TicketPending(t)'
      BY <2>3 DEF TicketPending, HasTicket
    <3> QED BY <2>3, <3>1
  <2> QED BY <2>1, <2>2, <2>3
<1> QED BY <1>1, <1>2

LevelFits == Level \in Int /\ -(Half) <= Level /\ Level < Half

LEMMA LevelTypeHolds == AqTypeOK => LevelFits
  BY LevelType DEF LevelFits

LEMMA LevelIsStep ==
    ASSUME TriesInv, NEW t \in Users,
           TakeTicket(t) \/ TryLoadCounter(t) \/ Compare(t) \/ AdvanceCounter(t)
           \/ SlotSteps(t),
           AqTypeOK'
    PROVE  LevelIs'
<1>0. /\ AqTypeOK /\ AqPoolInv /\ LevelIs /\ t \in Pushers \cup Poppers
      /\ aqHead \in 0 .. Modulus - 1 /\ aqTail \in 0 .. Modulus - 1
      /\ aqHead' \in 0 .. Modulus - 1 /\ aqTail' \in 0 .. Modulus - 1
  BY DEF TriesInv, AqPoolInv, AqInv, AqTypeOK, Users
<1>1. /\ Level \in Int /\ -(Half) <= Level /\ Level < Half
      /\ Modulus \in Nat /\ Modulus > 1 /\ Half \in Nat
  BY <1>0, LevelType
<1>2. Level' \in Int /\ -(Half) <= Level' /\ Level' < Half
  <2>1. LevelFits'
    BY LevelTypeHolds, PTL
  <2> QED BY <2>1 DEF LevelFits, Half
<1>3. 2 * Half <= Modulus
  BY <1>1 DEF Half
<1>4. /\ (aqHead + 1) % Modulus = IF aqHead + 1 = Modulus THEN 0 ELSE aqHead + 1
      /\ (aqTail + 1) % Modulus = IF aqTail + 1 = Modulus THEN 0 ELSE aqTail + 1
  BY <1>0, <1>1, NextCases
<1> HIDE DEF Level, Half
<1>5. CASE ~TicketPending(t) /\ TicketPending(t)' /\ t \in Pushers
  <2>1. Level' = Level + 1 /\ aqHead' = (aqHead + 1) % Modulus /\ aqTail' = aqTail
    BY <1>0, <1>5, LevelStep, CounterStep
  <2> QED BY <1>0, <1>1, <1>2, <1>3, <1>4, <2>1 DEF LevelIs
<1>6. CASE ~TicketPending(t) /\ TicketPending(t)' /\ t \notin Pushers
  <2>1. Level' = Level - 1 /\ aqTail' = (aqTail + 1) % Modulus /\ aqHead' = aqHead
    BY <1>0, <1>6, LevelStep, CounterStep
  <2> QED BY <1>0, <1>1, <1>2, <1>3, <1>4, <2>1 DEF LevelIs
<1>7. CASE ~(~TicketPending(t) /\ TicketPending(t)')
  <2>1. Level' = Level /\ UNCHANGED <<aqHead, aqTail>>
    BY <1>0, <1>7, LevelStep, CounterStep
  <2> QED BY <1>0, <2>1 DEF LevelIs
<1> QED BY <1>5, <1>6, <1>7

\* A thread between its load and its compare_exchange: what the others did meanwhile.
LEMMA LateStep ==
    ASSUME TriesInv, NEW t \in Users,
           TakeTicket(t) \/ TryLoadCounter(t) \/ Compare(t) \/ AdvanceCounter(t)
           \/ SlotSteps(t),
           NEW u \in Users, u # t, aqPc[u] \in {"compare", "advance"}
    PROVE  /\ Late(u)' < Half
           /\ Late(u)' = IF /\ ~TicketPending(t) /\ TicketPending(t)'
                            /\ (t \in Pushers <=> u \in Pushers)
                         THEN Late(u) + 1 ELSE Late(u)
<1>0. /\ AqTypeOK /\ NotOvertaken /\ t \in Pushers \cup Poppers /\ u \in Pushers \cup Poppers
      /\ Pushers \cap Poppers = {} /\ UNCHANGED <<Pushers, Poppers>>
      /\ aqTicket'[u] = aqTicket[u]
      /\ aqTicket[u] \in 0 .. Modulus - 1 /\ AqCounter(u) \in 0 .. Modulus - 1
      /\ Modulus \in Nat /\ Modulus > 1 /\ Modulus > 0
  <2>1. AqTypeOK /\ NotOvertaken
    BY DEF TriesInv, AqPoolInv, AqInv
  <2> QED BY <2>1, AqConfigType, AqFrame, LevelType DEF AqTypeOK, Users, AqCounter
<1>1. /\ Late(u) \in 0 .. Modulus - 1 /\ Late(u) < Half
      /\ Late(u) = AqCounter(u) - aqTicket[u] \/ Late(u) = AqCounter(u) - aqTicket[u] + Modulus
  <2>1. Late(u) < Half
    BY <1>0 DEF NotOvertaken
  <2>2. /\ Late(u) = IF AqCounter(u) >= aqTicket[u] THEN AqCounter(u) - aqTicket[u]
                     ELSE AqCounter(u) + Modulus - aqTicket[u]
        /\ Late(u) \in 0 .. Modulus - 1
    BY <1>0, AheadCases DEF Late
  <2> QED BY <1>0, <2>1, <2>2
<1>2. Half \in Nat /\ 2 * Half <= Modulus
  BY <1>0 DEF Half
<1>3. CASE ~TicketPending(t) /\ TicketPending(t)' /\ (t \in Pushers <=> u \in Pushers)
  <2>1. /\ ~Overtakes(t)
        /\ AqCounter(t) = AqCounter(u)
        /\ AqCounter(u)' = (AqCounter(u) + 1) % Modulus
    BY <1>0, <1>3, CounterStep DEF AqCounter
  <2>2. AsInt(AqCounter(u) - aqTicket[u]) # Half - 1
    BY <1>0, <1>3, <2>1 DEF Overtakes, Side, Half
  <2>3. AsInt(AqCounter(u) - aqTicket[u]) = Late(u)
    <3> DEFINE x == Late(u)
    <3>1. PICK l \in {0, -1} : AqCounter(u) - aqTicket[u] = x + Modulus * l
      <4>1. Modulus * (-1) = - Modulus /\ Modulus * 0 = 0
        BY <1>0
      <4>2. CASE x = AqCounter(u) - aqTicket[u]
        BY <1>0, <4>1, <4>2
      <4>3. CASE x = AqCounter(u) - aqTicket[u] + Modulus
        <5>1. AqCounter(u) - aqTicket[u] = x + Modulus * (-1)
          BY <1>0, <1>1, <4>1, <4>3
        <5> QED BY <5>1
      <4> QED BY <1>1, <4>2, <4>3
    <3>2. x \in Int /\ l \in Int /\ -(Half) <= x /\ x < Half
      BY <1>1, <1>2
    <3> HIDE DEF x
    <3>3. AsInt(x + Modulus * l) = x
      BY <1>0, <3>2, AsIntIs
    <3> QED BY <3>1, <3>3 DEF x
  <2>4. Late(u) + 1 < Half /\ Late(u) + 1 < Modulus
    <3> DEFINE x == Late(u)
    <3>1. x # Half - 1
      BY <2>2, <2>3
    <3>2. x \in Nat /\ x < Half
      BY <1>1
    <3> HIDE DEF x, Half
    <3>3. x + 1 < Half /\ x + 1 < Modulus
      BY <1>0, <1>2, <3>1, <3>2
    <3> QED BY <3>3 DEF x
  <2>5. Late(u)' = Late(u) + 1
    <3>1. Ahead(Modulus, (AqCounter(u) + 1) % Modulus, aqTicket[u]) = Late(u) + 1
      BY <1>0, <2>4, AheadNext DEF Late
    <3> QED BY <1>0, <2>1, <3>1 DEF Late
  <2> QED BY <1>3, <2>4, <2>5
<1>4. CASE ~(~TicketPending(t) /\ TicketPending(t)' /\ (t \in Pushers <=> u \in Pushers))
  <2>1. AqCounter(u)' = AqCounter(u)
    BY <1>0, <1>4, CounterStep DEF AqCounter
  <2>2. Late(u)' = Late(u)
    BY <1>0, <2>1 DEF Late, Ahead
  <2> QED BY <1>1, <1>4, <2>2
<1> QED BY <1>3, <1>4

LEMMA NotOvertakenStep ==
    ASSUME TriesInv, NEW t \in Users,
           TakeTicket(t) \/ TryLoadCounter(t) \/ Compare(t) \/ AdvanceCounter(t)
           \/ SlotSteps(t)
    PROVE  NotOvertaken'
<1>0. /\ AqTypeOK /\ NotOvertaken /\ UNCHANGED <<Pushers, Poppers, Users>>
      /\ \A u \in Users \ {t} : aqPc'[u] = aqPc[u]
      /\ Modulus \in Nat /\ Modulus > 0 /\ Half \in Nat /\ Half > 0
  <2>1. AqTypeOK /\ NotOvertaken
    BY DEF TriesInv, AqPoolInv, AqInv
  <2>2. Half > 0
    BY <2>1, LevelType DEF Half
  <2> QED BY <2>1, <2>2, AqFrame, LevelType
<1>1. aqPc'[t] \in {"compare", "advance"} => Late(t)' < Half
  <2>1. CASE aqTicket'[t] = AqCounter(t) /\ UNCHANGED <<aqHead, aqTail>>
    <3>1. AqCounter(t)' = AqCounter(t) /\ AqCounter(t) \in 0 .. Modulus - 1
      BY <1>0, <2>1 DEF AqCounter, AqTypeOK
    <3>2. Late(t)' = 0
      BY <1>0, <2>1, <3>1, AheadZero DEF Late, Ahead
    <3> QED BY <1>0, <3>2
  <2>2. CASE Compare(t)
    <3>1. aqPc'[t] = "advance" => aqTicket' = aqTicket
      BY <1>0, <2>2 DEF Compare, AqReturn, AqGoto, AqTypeOK
    <3>2. AqCounter(t)' = AqCounter(t) /\ aqPc[t] = "compare"
      BY <1>0, <2>2 DEF Compare, AqCounter
    <3>3. aqPc'[t] # "compare"
      BY <1>0, <2>2 DEF Compare, AqReturn, AqGoto, AqTypeOK
    <3> QED BY <1>0, <3>1, <3>2, <3>3 DEF Late, Ahead, NotOvertaken
  <2>3. CASE aqPc'[t] \notin {"compare", "advance"}
    BY <2>3
  <2>4. \/ aqTicket'[t] = AqCounter(t) /\ UNCHANGED <<aqHead, aqTail>>
        \/ Compare(t)
        \/ aqPc'[t] \notin {"compare", "advance"}
    BY <1>0 DEF TakeTicket, TryLoadCounter, AdvanceCounter, SlotSteps, PushAtomic, PopAtomic,
       ClaimSlot, MoveElement, ReleaseSlot, AqGoto, AqReturn, AqTypeOK
  <2> QED BY <2>1, <2>2, <2>3, <2>4
<1>2. \A u \in Users \ {t} : aqPc'[u] \in {"compare", "advance"} => Late(u)' < Half
  BY <1>0, LateStep
<1> QED BY <1>0, <1>1, <1>2 DEF NotOvertaken, Half

\* The difference between a counter and a loaded one, in whole laps.
LEMMA LateIs ==
    ASSUME AqTypeOK, LevelIs, NEW t \in Users
    PROVE  /\ Late(t) \in Int
           /\ t \in Pushers =>
                  \E l \in Int : aqTicket[t] - aqTail = (Level - Late(t)) + Modulus * l
           /\ t \in Poppers =>
                  \E l \in Int : aqHead - aqTicket[t] = (Level + Late(t)) + Modulus * l
<1>0. /\ aqHead \in 0 .. Modulus - 1 /\ aqTail \in 0 .. Modulus - 1
      /\ aqTicket[t] \in 0 .. Modulus - 1
      /\ Pushers \cap Poppers = {} /\ Modulus \in Nat /\ Modulus > 0
      /\ Level \in Int
  BY AqConfigType, LevelType DEF AqTypeOK
<1>1. PICK k \in {-1, 0, 1} : aqHead - aqTail = Level + Modulus * k
  <2>1. /\ Modulus * (-1) = - Modulus /\ Modulus * 0 = 0 /\ Modulus * 1 = Modulus
    BY <1>0
  <2>2. CASE aqHead - aqTail = Level - Modulus
    <3>1. aqHead - aqTail = Level + Modulus * (-1)
      BY <1>0, <2>1, <2>2
    <3> QED BY <3>1
  <2>3. CASE aqHead - aqTail = Level
    <3>1. aqHead - aqTail = Level + Modulus * 0
      BY <1>0, <2>1, <2>3
    <3> QED BY <3>1
  <2>4. CASE aqHead - aqTail = Level + Modulus
    <3>1. aqHead - aqTail = Level + Modulus * 1
      BY <1>0, <2>1, <2>4
    <3> QED BY <3>1
  <2> QED BY <2>2, <2>3, <2>4 DEF LevelIs
<1>2. AqCounter(t) \in 0 .. Modulus - 1
  BY <1>0 DEF AqCounter
<1>3. /\ Late(t) \in Int
      /\ \E j \in {0, 1} : Late(t) = AqCounter(t) - aqTicket[t] + Modulus * j
  <2>1. /\ Late(t) = IF AqCounter(t) >= aqTicket[t] THEN AqCounter(t) - aqTicket[t]
                     ELSE AqCounter(t) + Modulus - aqTicket[t]
        /\ Late(t) \in 0 .. Modulus - 1
    BY <1>0, <1>2, AheadCases DEF Late
  <2>2. Modulus * 0 = 0 /\ Modulus * 1 = Modulus
    BY <1>0
  <2>3. CASE AqCounter(t) >= aqTicket[t]
    <3>1. Late(t) = AqCounter(t) - aqTicket[t] + Modulus * 0
      BY <1>0, <1>2, <2>1, <2>2, <2>3
    <3> QED BY <2>1, <3>1
  <2>4. CASE ~(AqCounter(t) >= aqTicket[t])
    <3>1. Late(t) = AqCounter(t) - aqTicket[t] + Modulus * 1
      BY <1>0, <1>2, <2>1, <2>2, <2>4
    <3> QED BY <2>1, <3>1
  <2> QED BY <2>3, <2>4
<1>4. PICK j \in {0, 1} : Late(t) = AqCounter(t) - aqTicket[t] + Modulus * j
  BY <1>3
<1> HIDE DEF Level, Late
<1>5. /\ Modulus * k \in Int /\ Modulus * j \in Int
      /\ Modulus * (k + j) = Modulus * k + Modulus * j
      /\ Modulus * (k - j) = Modulus * k - Modulus * j
      /\ k + j \in Int /\ k - j \in Int
  BY <1>0
<1>6. ASSUME t \in Pushers
      PROVE  aqTicket[t] - aqTail = (Level - Late(t)) + Modulus * (k + j)
  <2>1. AqCounter(t) = aqHead
    BY <1>6 DEF AqCounter
  <2> QED BY <1>0, <1>1, <1>3, <1>4, <1>5, <2>1
<1>7. ASSUME t \in Poppers
      PROVE  aqHead - aqTicket[t] = (Level + Late(t)) + Modulus * (k - j)
  <2>1. AqCounter(t) = aqTail
    BY <1>0, <1>7 DEF AqCounter
  <2> QED BY <1>0, <1>1, <1>3, <1>4, <1>5, <2>1
<1> QED BY <1>3, <1>5, <1>6, <1>7

\* A comparison that does not refuse has found room, or an element.
LEMMA CompareFinds ==
    ASSUME TriesInv, NEW t \in Users, Compare(t), aqPc'[t] = "advance"
    PROVE  IF t \in Pushers THEN Level - Late(t) < size_ ELSE Level + Late(t) > 0
<1>0. /\ AqTypeOK /\ LevelIs /\ NotOvertaken /\ aqPc[t] = "compare"
  BY DEF TriesInv, AqPoolInv, AqInv, Compare
<1>1. /\ Level \in Int /\ -(Half) <= Level /\ Level < Half /\ Late(t) \in Int
      /\ Late(t) < Half /\ Late(t) >= 0
      /\ Modulus \in Nat /\ Modulus > 1 /\ Half \in Nat /\ 2 * Half <= Modulus
      /\ size_ \in Nat /\ size_ > 0 /\ Pushers \cap Poppers = {}
  <2>1. /\ Level \in Int /\ -(Half) <= Level /\ Level < Half
        /\ Modulus \in Nat /\ Modulus > 1 /\ Half \in Nat /\ size_ \in Nat /\ size_ > 0
    BY <1>0, LevelType
  <2>2. Late(t) \in 0 .. Modulus - 1
    <3>1. AqCounter(t) \in 0 .. Modulus - 1 /\ aqTicket[t] \in 0 .. Modulus - 1
      BY <1>0 DEF AqCounter, AqTypeOK
    <3>2. Modulus > 0
      BY <2>1
    <3> QED BY <2>1, <3>1, <3>2, AheadCases DEF Late
  <2>3. Late(t) < Half
    BY <1>0 DEF NotOvertaken
  <2>4. 2 * Half <= Modulus
    BY <2>1 DEF Half
  <2>5. Pushers \cap Poppers = {}
    BY <1>0, AqConfigType DEF AqTypeOK
  <2> QED BY <2>1, <2>2, <2>3, <2>4, <2>5
<1>2. ~(IF t \in Pushers THEN AsInt(aqTicket[t] - aqTail) >= size_
                         ELSE AsInt(aqHead - aqTicket[t]) <= 0)
  BY <1>0 DEF Compare, AqReturn, AqGoto, AqTypeOK
<1>3. CASE t \in Pushers
  <2> DEFINE x == Level - Late(t)
  <2>1. PICK l \in Int : aqTicket[t] - aqTail = x + Modulus * l
    BY <1>0, <1>3, LateIs
  <2>2. x \in Int /\ x < Half
    BY <1>1
  <2> HIDE DEF x
  <2>3. x >= size_ => AsInt(x + Modulus * l) = x
    <3>1. x >= size_ => -(Half) <= x
      BY <1>1, <2>2
    <3> QED BY <1>1, <2>2, <3>1, AsIntIs
  <2>4. ~(AsInt(x + Modulus * l) >= size_)
    BY <1>2, <1>3, <2>1
  <2>5. x < size_
    BY <1>1, <2>2, <2>3, <2>4
  <2> QED BY <1>3, <2>5 DEF x
<1>4. CASE t \notin Pushers
  <2> DEFINE x == Level + Late(t)
  <2>1. PICK l \in Int : aqHead - aqTicket[t] = x + Modulus * l
    BY <1>0, <1>4, LateIs DEF Users
  <2>2. x \in Int /\ -(Half) <= x
    BY <1>1
  <2> HIDE DEF x
  <2>3. x <= 0 => AsInt(x + Modulus * l) = x
    <3>1. x <= 0 => x < Half
      BY <1>1, <2>2, <1>0, LevelType DEF Half
    <3> QED BY <1>1, <2>2, <3>1, AsIntIs
  <2>4. ~(AsInt(x + Modulus * l) <= 0)
    BY <1>2, <1>4, <2>1
  <2>5. x > 0
    BY <1>1, <2>2, <2>3, <2>4
  <2> QED BY <1>4, <2>5 DEF x
<1> QED BY <1>3, <1>4

LEMMA ComparedWellStep ==
    ASSUME TriesInv, NEW t \in Users,
           TakeTicket(t) \/ TryLoadCounter(t) \/ Compare(t) \/ AdvanceCounter(t)
           \/ SlotSteps(t)
    PROVE  ComparedWell'
<1>0. /\ AqTypeOK /\ AqPoolInv /\ ComparedWell
      /\ UNCHANGED <<Pushers, Poppers, Users, size_>>
      /\ \A u \in Users \ {t} : aqPc'[u] = aqPc[u]
      /\ Level \in Int /\ size_ \in Nat
  <2>1. AqTypeOK /\ AqPoolInv /\ ComparedWell
    BY DEF TriesInv, AqPoolInv, AqInv
  <2> QED BY <2>1, AqFrame, LevelType
<1>1. ASSUME aqPc'[t] = "advance"
      PROVE  IF t \in Pushers THEN Level' - Late(t)' < size_ ELSE Level' + Late(t)' > 0
  <2>1. Compare(t) /\ aqTicket' = aqTicket
    BY <1>0, <1>1 DEF TakeTicket, TryLoadCounter, Compare, AdvanceCounter, SlotSteps,
       PushAtomic, PopAtomic, ClaimSlot, MoveElement, ReleaseSlot, AqGoto, AqReturn, AqTypeOK
  <2>2. Late(t)' = Late(t)
    BY <1>0, <2>1 DEF Late, Ahead, AqCounter, Compare
  <2>3. Level' = Level
    <3>1. ~TicketPending(t)'
      BY <1>1 DEF TicketPending, HasTicket
    <3> QED BY <1>0, <3>1, LevelStep
  <2> QED BY <1>1, <2>1, <2>2, <2>3, CompareFinds
<1>2. ASSUME NEW u \in Users \ {t}, aqPc'[u] = "advance"
      PROVE  IF u \in Pushers THEN Level' - Late(u)' < size_ ELSE Level' + Late(u)' > 0
  <2>1. aqPc[u] = "advance" /\ u # t
    BY <1>0, <1>2
  <2>2. IF u \in Pushers THEN Level - Late(u) < size_ ELSE Level + Late(u) > 0
    BY <1>0, <2>1 DEF ComparedWell
  <2>3. Late(u) \in Int
    BY <1>0, LateIs DEF TriesInv
  <2>4. Late(u)' = IF /\ ~TicketPending(t) /\ TicketPending(t)'
                      /\ (t \in Pushers <=> u \in Pushers)
                   THEN Late(u) + 1 ELSE Late(u)
    BY <2>1, LateStep
  <2>5. Level' = IF ~TicketPending(t) /\ TicketPending(t)'
                 THEN IF t \in Pushers THEN Level + 1 ELSE Level - 1
                 ELSE Level
    BY <1>0, LevelStep
  <2> HIDE DEF Level, Late, TicketPending
  <2> QED BY <1>0, <2>2, <2>3, <2>4, <2>5
<1> QED BY <1>0, <1>1, <1>2 DEF ComparedWell

-----------------------------------------------------------------------------
(***************************************************************************)
(* AtomicQueue: the tickets of one slot.                                   *)
(***************************************************************************)
LEMMA QuotientIs ==
    ASSUME NEW s \in Nat, s > 0, NEW q \in Int, NEW r \in 0 .. s - 1
    PROVE  (s * q + r) \div s = q
  OBVIOUS

LEMMA TicketsNext ==
    ASSUME NEW n \in Nat, n > 0, NEW x \in Int, NEW s \in 0 .. n - 1
    PROVE  /\ TicketsBefore(n, x, s) \in Int
           /\ TicketsBefore(n, x + 1, s) =
                  TicketsBefore(n, x, s) + (IF x % n = s THEN 1 ELSE 0)
<1> DEFINE q == x \div n
           r == x % n
<1>1. x = n * q + r /\ q \in Int /\ r \in 0 .. n - 1
  BY DivMod
<1> HIDE DEF q, r
<1>2. TicketsBefore(n, x, s) = q + (IF r > s THEN 1 ELSE 0)
  BY DEF TicketsBefore, q, r
<1>3. CASE r + 1 < n
  <2>1. x + 1 = n * q + (r + 1) /\ r + 1 \in 0 .. n - 1
    BY <1>1, <1>3
  <2>2. (x + 1) \div n = q /\ (x + 1) % n = r + 1
    BY <1>1, <2>1, QuotientIs, RemainderIs
  <2> QED BY <1>1, <1>2, <2>2 DEF TicketsBefore, r
<1>4. CASE r + 1 = n
  <2>1. n * (q + 1) = n * q + n /\ q + 1 \in Int
    BY <1>1
  <2>2. x + 1 = n * (q + 1) + 0 /\ 0 \in 0 .. n - 1
    BY <1>1, <1>4, <2>1
  <2>3. (x + 1) \div n = q + 1 /\ (x + 1) % n = 0
    BY <2>1, <2>2, QuotientIs, RemainderIs
  <2> QED BY <1>1, <1>2, <1>4, <2>3 DEF TicketsBefore, r
<1> QED BY <1>1, <1>3, <1>4

LEMMA TicketsGrow ==
    ASSUME NEW n \in Nat, n > 0, NEW x \in Int, NEW y \in Int, x <= y, NEW s \in 0 .. n - 1
    PROVE  TicketsBefore(n, x, s) <= TicketsBefore(n, y, s)
<1> DEFINE a == x \div n
           b == y \div n
<1>1. /\ x = n * a + (x % n) /\ a \in Int /\ x % n \in 0 .. n - 1
      /\ y = n * b + (y % n) /\ b \in Int /\ y % n \in 0 .. n - 1
  BY DivMod
<1> HIDE DEF a, b
<1>2. a <= b
  <2>1. ASSUME a > b PROVE FALSE
    <3>1. PICK d \in Nat : a = b + 1 + d
      <4>1. a - b - 1 \in Nat /\ a = b + 1 + (a - b - 1)
        BY <1>1, <2>1
      <4> QED BY <4>1
    <3>2. n * (b + 1 + d) = n * b + n + n * d /\ n * d >= 0 /\ n * d \in Int /\ n * b \in Int
      BY <1>1
    <3> QED BY <1>1, <3>1, <3>2
  <2> QED BY <1>1, <2>1
<1>3. CASE a = b
  <2>1. x % n <= y % n
    BY <1>1, <1>3
  <2> QED BY <1>1, <1>3, <2>1 DEF TicketsBefore, a, b
<1>4. CASE a < b
  <2>1. a + 1 <= b
    BY <1>1, <1>4
  <2> QED BY <1>1, <2>1 DEF TicketsBefore, a, b
<1> QED BY <1>1, <1>2, <1>3, <1>4

\* A lap has one ticket for each slot.
LEMMA TicketsOfLap ==
    ASSUME NEW n \in Nat, n > 0, NEW x \in Int, NEW s \in 0 .. n - 1
    PROVE  TicketsBefore(n, x + n, s) = TicketsBefore(n, x, s) + 1
<1> DEFINE q == x \div n
           r == x % n
<1>1. x = n * q + r /\ q \in Int /\ r \in 0 .. n - 1
  BY DivMod
<1> HIDE DEF q, r
<1>2. n * (q + 1) = n * q + n /\ q + 1 \in Int
  BY <1>1
<1>3. x + n = n * (q + 1) + r
  BY <1>1, <1>2
<1>4. (x + n) \div n = q + 1 /\ (x + n) % n = r
  BY <1>1, <1>2, <1>3, QuotientIs, RemainderIs
<1> QED BY <1>1, <1>4 DEF TicketsBefore, q, r

LEMMA BalanceType ==
    ASSUME AqTypeOK, NEW s
    PROVE  /\ Cardinality(At(Pushers, s)) \in Nat /\ Cardinality(At(Poppers, s)) \in Nat
           /\ IsFiniteSet(At(Pushers, s)) /\ IsFiniteSet(At(Poppers, s))
           /\ Filled(s) \in {0, 1} /\ Balance(s) \in Int
<1>1. IsFiniteSet(Pending(Pushers)) /\ IsFiniteSet(Pending(Poppers))
  BY LevelType
<1>2. At(Pushers, s) \subseteq Pending(Pushers) /\ At(Poppers, s) \subseteq Pending(Poppers)
  BY DEF At, Pending, PendingAt
<1>3. IsFiniteSet(At(Pushers, s)) /\ IsFiniteSet(At(Poppers, s))
  BY <1>1, <1>2, FS_Subset
<1>4. Cardinality(At(Pushers, s)) \in Nat /\ Cardinality(At(Poppers, s)) \in Nat
  BY <1>3, FS_CardinalityType
<1> QED BY <1>3, <1>4 DEF Filled, Balance

\* A step changes no ticket but its thread's.
LEMMA AtStep ==
    ASSUME AqTypeOK, NEW t \in Users, NEW s,
           TakeTicket(t) \/ TryLoadCounter(t) \/ Compare(t) \/ AdvanceCounter(t)
           \/ SlotSteps(t)
    PROVE  /\ At(Pushers, s)' = IF t \in Pushers /\ PendingAt(t, s)'
                                THEN At(Pushers, s) \cup {t} ELSE At(Pushers, s) \ {t}
           /\ At(Poppers, s)' = IF t \in Poppers /\ PendingAt(t, s)'
                                THEN At(Poppers, s) \cup {t} ELSE At(Poppers, s) \ {t}
           /\ t \in At(Pushers, s) <=> t \in Pushers /\ PendingAt(t, s)
           /\ t \in At(Poppers, s) <=> t \in Poppers /\ PendingAt(t, s)
<1>1. /\ UNCHANGED <<Pushers, Poppers, size_>>
      /\ \A u \in Users \ {t} : aqPc'[u] = aqPc[u] /\ aqTicket'[u] = aqTicket[u]
  BY AqFrame
<1>2. \A u \in Users \ {t} : PendingAt(u, s)' <=> PendingAt(u, s)
  BY <1>1 DEF PendingAt, TicketPending, HasTicket, SlotOf
<1>3. /\ At(Pushers, s)' = {u \in Pushers : PendingAt(u, s)'}
      /\ At(Poppers, s)' = {u \in Poppers : PendingAt(u, s)'}
  BY <1>1 DEF At
<1> HIDE DEF PendingAt
<1>4. ASSUME NEW S, S \subseteq Users
      PROVE  /\ {u \in S : PendingAt(u, s)'} = IF t \in S /\ PendingAt(t, s)'
                     THEN {u \in S : PendingAt(u, s)} \cup {t} ELSE {u \in S : PendingAt(u, s)} \ {t}
             /\ t \in {u \in S : PendingAt(u, s)} <=> t \in S /\ PendingAt(t, s)
  <2>1. CASE t \in S /\ PendingAt(t, s)'
    BY <1>2, <1>4, <2>1, Zenon
  <2>2. CASE ~(t \in S /\ PendingAt(t, s)')
    BY <1>2, <1>4, <2>2, Zenon
  <2> QED BY <2>1, <2>2
<1>5. Pushers \subseteq Users /\ Poppers \subseteq Users
  BY DEF Users
<1> QED BY <1>3, <1>4, <1>5, Zenon DEF At

\* How many there are then.
LEMMA AtCount ==
    ASSUME AqTypeOK, NEW t \in Users, NEW s,
           TakeTicket(t) \/ TryLoadCounter(t) \/ Compare(t) \/ AdvanceCounter(t)
           \/ SlotSteps(t)
    PROVE  /\ t \in Pushers =>
                  /\ Cardinality(At(Pushers, s))' = Cardinality(At(Pushers, s))
                         - (IF PendingAt(t, s) THEN 1 ELSE 0) + (IF PendingAt(t, s)' THEN 1 ELSE 0)
                  /\ Cardinality(At(Poppers, s))' = Cardinality(At(Poppers, s))
           /\ t \in Poppers =>
                  /\ Cardinality(At(Poppers, s))' = Cardinality(At(Poppers, s))
                         - (IF PendingAt(t, s) THEN 1 ELSE 0) + (IF PendingAt(t, s)' THEN 1 ELSE 0)
                  /\ Cardinality(At(Pushers, s))' = Cardinality(At(Pushers, s))
<1>0. /\ IsFiniteSet(At(Pushers, s)) /\ IsFiniteSet(At(Poppers, s))
      /\ Cardinality(At(Pushers, s)) \in Nat /\ Cardinality(At(Poppers, s)) \in Nat
      /\ Pushers \cap Poppers = {}
  BY BalanceType, AqConfigType DEF AqTypeOK
<1>1. ASSUME NEW S, NEW S1, IsFiniteSet(S), NEW a \in BOOLEAN, NEW b \in BOOLEAN,
             a <=> t \in S, S1 = IF b THEN S \cup {t} ELSE S \ {t}
      PROVE  Cardinality(S1) = Cardinality(S) - (IF a THEN 1 ELSE 0) + (IF b THEN 1 ELSE 0)
  <2>1. Cardinality(S) \in Nat
    BY <1>1, FS_CardinalityType
  <2>2. CASE a
    <3>1. Cardinality(S \ {t}) = Cardinality(S) - 1 /\ S \cup {t} = S
      BY <1>1, <2>2, FS_RemoveElement
    <3>2. CASE b
      <4>1. S1 = S
        BY <1>1, <3>1, <3>2
      <4> QED BY <2>1, <2>2, <3>2, <4>1
    <3>3. CASE ~b
      <4>1. Cardinality(S1) = Cardinality(S) - 1
        BY <1>1, <3>1, <3>3
      <4> QED BY <2>1, <2>2, <3>3, <4>1
    <3> QED BY <3>2, <3>3
  <2>3. CASE ~a
    <3>1. Cardinality(S \cup {t}) = Cardinality(S) + 1 /\ S \ {t} = S
      BY <1>1, <2>3, FS_AddElement
    <3>2. CASE b
      <4>1. Cardinality(S1) = Cardinality(S) + 1
        BY <1>1, <3>1, <3>2
      <4> QED BY <2>1, <2>3, <3>2, <4>1
    <3>3. CASE ~b
      <4>1. S1 = S
        BY <1>1, <3>1, <3>3
      <4> QED BY <2>1, <2>3, <3>3, <4>1
    <3> QED BY <3>2, <3>3
  <2> QED BY <2>2, <2>3
<1> DEFINE a == PendingAt(t, s)
           b == PendingAt(t, s)'
           I == At(Pushers, s)
           I1 == At(Pushers, s)'
           O == At(Poppers, s)
           O1 == At(Poppers, s)'
<1>2. a \in BOOLEAN /\ b \in BOOLEAN
  BY DEF PendingAt
<1>3. /\ I1 = IF t \in Pushers /\ b THEN I \cup {t} ELSE I \ {t}
      /\ O1 = IF t \in Poppers /\ b THEN O \cup {t} ELSE O \ {t}
      /\ t \in I <=> t \in Pushers /\ a
      /\ t \in O <=> t \in Poppers /\ a
  BY AtStep
<1>4. IsFiniteSet(I) /\ IsFiniteSet(O) /\ Pushers \cap Poppers = {}
  BY <1>0
<1>5. Cardinality(At(Pushers, s))' = Cardinality(I1) /\ Cardinality(At(Poppers, s))' = Cardinality(O1)
  OBVIOUS
<1> HIDE DEF a, b, I, I1, O, O1
<1>6. ASSUME t \in Pushers
      PROVE  /\ Cardinality(I1) = Cardinality(I) - (IF a THEN 1 ELSE 0) + (IF b THEN 1 ELSE 0)
             /\ Cardinality(O1) = Cardinality(O)
  <2>1. t \notin Poppers
    BY <1>4, <1>6
  <2>2. O1 = O
    BY <1>3, <2>1
  <2>3. a <=> t \in I
    BY <1>2, <1>3, <1>6
  <2>4. I1 = IF b THEN I \cup {t} ELSE I \ {t}
    BY <1>2, <1>3, <1>6
  <2> QED BY <1>1, <1>2, <1>4, <2>2, <2>3, <2>4
<1>7. ASSUME t \in Poppers
      PROVE  /\ Cardinality(O1) = Cardinality(O) - (IF a THEN 1 ELSE 0) + (IF b THEN 1 ELSE 0)
             /\ Cardinality(I1) = Cardinality(I)
  <2>1. t \notin Pushers
    BY <1>4, <1>7
  <2>2. I1 = I
    BY <1>3, <2>1
  <2>3. a <=> t \in O
    BY <1>2, <1>3, <1>7
  <2>4. O1 = IF b THEN O \cup {t} ELSE O \ {t}
    BY <1>2, <1>3, <1>7
  <2> QED BY <1>1, <1>2, <1>4, <2>2, <2>3, <2>4
<1> QED BY <1>5, <1>6, <1>7 DEF a, b, I, I1, O, O1

\* Steps that put an element in or take one out, and what they leave at each slot.
Moves(t) == PushAtomic(t) \/ PopAtomic(t) \/ MoveElement(t)

LEMMA FilledStep ==
    ASSUME AqPoolInv, NEW t \in Users, NEW s \in 0 .. size_ - 1,
           TakeTicket(t) \/ TryLoadCounter(t) \/ Compare(t) \/ AdvanceCounter(t)
           \/ SlotSteps(t)
    PROVE  IF Moves(t) /\ SlotOf(aqTicket[t]) = s
           THEN /\ Filled(s) = IF t \in Pushers THEN 0 ELSE 1
                /\ Filled(s)' = IF t \in Pushers THEN 1 ELSE 0
           ELSE Filled(s)' = Filled(s)
<1>0. /\ AqTypeOK /\ Pushers \cap Poppers = {} /\ Nil \notin AllElements
  BY AqConfigType DEF AqPoolInv, AqInv, AqTypeOK
<1> DEFINE r == SlotOf(aqTicket[t])
<1>1. CASE Moves(t) /\ t \in Pushers
  <2>1. PushAtomic(t) \/ MoveElement(t)
    BY <1>0, <1>1 DEF Moves, PopAtomic
  <2>2. /\ r \in 0 .. size_ - 1 /\ elements_[r] = Nil
        /\ elements_' = [elements_ EXCEPT ![r] = Element(t)]
    BY <1>0, <1>1, <2>1, SlotType, MoveFinds DEF PushAtomic, MoveElement
  <2>3. Element(t) # Nil
    BY <1>0, <1>1 DEF Element, AllElements, Pushers, AqTypeOK
  <2> HIDE DEF r
  <2> QED BY <1>0, <1>1, <2>2, <2>3 DEF Filled, AqTypeOK, r
<1>2. CASE Moves(t) /\ t \in Poppers
  <2>1. PopAtomic(t) \/ MoveElement(t)
    BY <1>0, <1>2 DEF Moves, PushAtomic
  <2>2. /\ r \in 0 .. size_ - 1 /\ elements_[r] # Nil
        /\ elements_' = [elements_ EXCEPT ![r] = Nil]
    BY <1>0, <1>2, <2>1, SlotType, MoveFinds DEF PopAtomic, MoveElement
  <2> HIDE DEF r
  <2> QED BY <1>0, <1>2, <2>2 DEF Filled, AqTypeOK, r
<1>3. CASE ~Moves(t)
  <2>1. elements_' = elements_
    BY <1>3 DEF Moves, TakeTicket, TryLoadCounter, Compare, AdvanceCounter, SlotSteps,
                ClaimSlot, ReleaseSlot
  <2> QED BY <1>3, <2>1 DEF Filled
<1> QED BY <1>1, <1>2, <1>3 DEF Users

\* Which tickets come and go.
LEMMA PendingAtStep ==
    ASSUME AqTypeOK, NEW t \in Users, NEW s,
           TakeTicket(t) \/ TryLoadCounter(t) \/ Compare(t) \/ AdvanceCounter(t)
           \/ SlotSteps(t)
    PROVE  /\ Moves(t) => (PendingAt(t, s) <=> SlotOf(aqTicket[t]) = s) /\ ~PendingAt(t, s)'
           /\ ~TicketPending(t) /\ TicketPending(t)' =>
                  /\ ~Moves(t) /\ ~PendingAt(t, s)
                  /\ PendingAt(t, s)' <=> SlotOf(AqCounter(t)) = s
           /\ ~Moves(t) /\ ~(~TicketPending(t) /\ TicketPending(t)') =>
                  (PendingAt(t, s)' <=> PendingAt(t, s))
<1>0. size_' = size_
  BY AqFrame
<1>1. CASE TakeTicket(t) \/ AdvanceCounter(t)
  <2>1. ~TicketPending(t) /\ ~Moves(t)
    BY <1>1 DEF TakeTicket, AdvanceCounter, TicketPending, HasTicket, Moves, PushAtomic,
                PopAtomic, MoveElement
  <2>2. TicketPending(t)' => aqTicket'[t] = AqCounter(t)
    BY <1>1 DEF TakeTicket, AdvanceCounter, TicketPending, HasTicket, AqGoto, AqTypeOK
  <2> QED BY <1>0, <2>1, <2>2 DEF PendingAt, SlotOf
<1>2. CASE TryLoadCounter(t) \/ Compare(t) \/ ReleaseSlot(t)
  <2>1. ~TicketPending(t) /\ ~Moves(t) /\ ~TicketPending(t)'
    BY <1>2 DEF TryLoadCounter, Compare, ReleaseSlot, TicketPending, HasTicket, Moves,
                PushAtomic, PopAtomic, MoveElement, AqGoto, AqReturn, AqTypeOK
  <2> QED BY <2>1 DEF PendingAt
<1>3. CASE ClaimSlot(t)
  <2>1. TicketPending(t) /\ ~Moves(t) /\ TicketPending(t)' /\ aqTicket' = aqTicket
    BY <1>3 DEF ClaimSlot, TicketPending, HasTicket, Moves, PushAtomic, PopAtomic,
                MoveElement, AqGoto, AqTypeOK
  <2> QED BY <1>0, <2>1 DEF PendingAt, SlotOf
<1>4. CASE Moves(t)
  <2>1. TicketPending(t) /\ ~TicketPending(t)'
    BY <1>4 DEF Moves, PushAtomic, PopAtomic, MoveElement, TicketPending, HasTicket,
                AqGoto, AqReturn, AqTypeOK
  <2> QED BY <1>4, <2>1 DEF PendingAt
<1> QED BY <1>1, <1>2, <1>3, <1>4 DEF SlotSteps, Moves

\* Only a ticket changes the balance of a slot, by one.
LEMMA BalanceStep ==
    ASSUME AqPoolInv, NEW t \in Users, NEW s \in 0 .. size_ - 1,
           TakeTicket(t) \/ TryLoadCounter(t) \/ Compare(t) \/ AdvanceCounter(t)
           \/ SlotSteps(t)
    PROVE  Balance(s)' = IF /\ ~TicketPending(t) /\ TicketPending(t)'
                            /\ SlotOf(AqCounter(t)) = s
                         THEN IF t \in Pushers THEN Balance(s) + 1 ELSE Balance(s) - 1
                         ELSE Balance(s)
<1> DEFINE F == Filled(s)
           I == Cardinality(At(Pushers, s))
           O == Cardinality(At(Poppers, s))
           a == PendingAt(t, s)
           b == PendingAt(t, s)'
           took == ~TicketPending(t) /\ TicketPending(t)'
           here == SlotOf(AqCounter(t)) = s
           moved == Moves(t)
           mine == SlotOf(aqTicket[t]) = s
<1>0. /\ AqTypeOK /\ Pushers \cap Poppers = {}
  BY AqConfigType DEF AqPoolInv, AqInv, AqTypeOK
<1>1. F \in Int /\ I \in Int /\ O \in Int
  <2>1. Filled(s) \in {0, 1}
    BY <1>0, BalanceType
  <2> QED BY <1>0, <2>1, BalanceType
<1>2. Balance(s) = F + I - O /\ Balance(s)' = F' + I' - O'
  BY DEF Balance
<1>3. /\ t \in Pushers => /\ I' = I - (IF a THEN 1 ELSE 0) + (IF b THEN 1 ELSE 0)
                          /\ O' = O
      /\ t \in Poppers => /\ O' = O - (IF a THEN 1 ELSE 0) + (IF b THEN 1 ELSE 0)
                          /\ I' = I
  BY <1>0, AtCount
<1>4. /\ moved => (a <=> mine) /\ ~b
      /\ took => ~moved /\ ~a /\ (b <=> here)
      /\ ~moved /\ ~took => (b <=> a)
  BY <1>0, PendingAtStep
<1>5. IF moved /\ mine THEN /\ F = IF t \in Pushers THEN 0 ELSE 1
                            /\ F' = IF t \in Pushers THEN 1 ELSE 0
                       ELSE F' = F
  BY FilledStep
<1> DEFINE F1 == F'
           I1 == I'
           O1 == O'
<1>6. \/ t \in Pushers /\ t \notin Poppers
      \/ t \in Poppers /\ t \notin Pushers
  BY <1>0 DEF Users
<1>7. F1 + I1 - O1 = IF took /\ here
                     THEN IF t \in Pushers THEN F + I - O + 1 ELSE F + I - O - 1
                     ELSE F + I - O
  <2>1. /\ F1 = F' /\ I1 = I' /\ O1 = O'
    OBVIOUS
  <2>2. CASE took
    <3>1. F1 = F /\ ~a /\ (b <=> here)
      BY <1>4, <1>5, <2>2
    <3> HIDE DEF F, I, O, a, b, took, here, moved, mine, F1, I1, O1
    <3> QED BY <1>1, <1>3, <1>6, <2>1, <2>2, <3>1
  <2>3. CASE ~took /\ moved /\ mine
    <3>1. a /\ ~b
      BY <1>4, <2>3
    <3> HIDE DEF F, I, O, a, b, took, here, moved, mine, F1, I1, O1
    <3> QED BY <1>1, <1>3, <1>5, <1>6, <2>1, <2>3, <3>1
  <2>4. CASE ~took /\ ~(moved /\ mine)
    <3>1. F1 = F
      BY <1>5, <2>4
    <3>2. CASE a /\ b
      <4> HIDE DEF F, I, O, a, b, took, here, moved, mine, F1, I1, O1
      <4> QED BY <1>1, <1>3, <1>6, <2>1, <2>4, <3>1, <3>2
    <3>3. CASE ~a /\ ~b
      <4> HIDE DEF F, I, O, a, b, took, here, moved, mine, F1, I1, O1
      <4> QED BY <1>1, <1>3, <1>6, <2>1, <2>4, <3>1, <3>3
    <3>4. a <=> b
      BY <1>4, <2>4
    <3> QED BY <3>2, <3>3, <3>4 DEF PendingAt
  <2> QED BY <2>2, <2>3, <2>4
<1>8. Balance(s) = F + I - O /\ Balance(s)' = F1 + I1 - O1
  BY <1>2
<1>9. Balance(s)' = IF took /\ here
                    THEN IF t \in Pushers THEN Balance(s) + 1 ELSE Balance(s) - 1
                    ELSE Balance(s)
  <2> HIDE DEF F, I, O, took, here, F1, I1, O1
  <2>1. CASE took /\ here /\ t \in Pushers
    <3>1. F1 + I1 - O1 = F + I - O + 1
      BY <1>7, <2>1
    <3> QED BY <1>1, <1>8, <2>1, <3>1
  <2>2. CASE took /\ here /\ t \notin Pushers
    <3>1. F1 + I1 - O1 = F + I - O - 1
      BY <1>7, <2>2
    <3> QED BY <1>1, <1>8, <2>2, <3>1
  <2>3. CASE ~(took /\ here)
    <3>1. F1 + I1 - O1 = F + I - O
      BY <1>7, <2>3
    <3> QED BY <1>1, <1>8, <2>3, <3>1
  <2> QED BY <2>1, <2>2, <2>3
<1> QED BY <1>9

LEMMA WrapTwice ==
    ASSUME NEW s \in Nat, s > 0, NEW m \in Nat, m > 0, m % s = 0, NEW y \in Int
    PROVE  (y % m) % s = y % s /\ ((y % m) + 1) % m = (y + 1) % m
<1>1. m % m = 0
  <2>1. m \in 0 .. 2 * m - 1
    OBVIOUS
  <2> QED BY <2>1, ModCases
<1>2. 1 \in Int
  OBVIOUS
<1>3. ((y % m) + 1) % m = (y + 1) % m
  BY <1>1, <1>2, WrapKeepsSlots
<1>4. PICK j \in Int : j = 0
  OBVIOUS
<1>5. ((y % m) + j) % s = (y + j) % s
  BY WrapKeepsSlots
<1>6. (y % m) + j = y % m /\ y + j = y
  <2> DEFINE z == y % m
  <2>1. z \in Int
    BY DivMod
  <2> HIDE DEF z
  <2>2. z + j = z /\ y + j = y
    BY <1>4, <2>1
  <2> QED BY <2>2 DEF z
<1> QED BY <1>3, <1>5, <1>6

LEMMA SlotsBalanceStep ==
    ASSUME TriesInv, NEW t \in Users,
           TakeTicket(t) \/ TryLoadCounter(t) \/ Compare(t) \/ AdvanceCounter(t)
           \/ SlotSteps(t)
    PROVE  SlotsBalance'
<1>0. /\ AqTypeOK /\ AqPoolInv /\ SlotsBalance /\ size_' = size_
      /\ Level \in Int /\ Modulus \in Nat /\ Modulus > 0 /\ Modulus % size_ = 0
      /\ size_ \in Nat /\ size_ > 0 /\ Pushers \cap Poppers = {}
  <2>1. AqTypeOK /\ AqPoolInv /\ SlotsBalance
    BY DEF TriesInv, AqPoolInv, AqInv
  <2>2. size_' = size_ /\ Level \in Int
    BY <2>1, AqFrame, LevelType
  <2> QED BY <2>1, <2>2, AqConfigType DEF AqTypeOK
<1>1. PICK x \in Int : x % Modulus = aqTail /\ (x + Level) % Modulus = aqHead /\ Balanced(x)
  BY <1>0 DEF SlotsBalance
<1>2. \A y \in Int : (y % Modulus) % size_ = y % size_
                     /\ ((y % Modulus) + 1) % Modulus = (y + 1) % Modulus
  BY <1>0, WrapTwice
<1>3. \A s \in 0 .. size_ - 1 : Balance(s)' =
          IF /\ ~TicketPending(t) /\ TicketPending(t)'
             /\ SlotOf(AqCounter(t)) = s
          THEN IF t \in Pushers THEN Balance(s) + 1 ELSE Balance(s) - 1
          ELSE Balance(s)
  BY <1>0, BalanceStep
<1>4. \A y \in Int, s \in 0 .. size_ - 1 :
          /\ TicketsBefore(size_, y, s) \in Int
          /\ TicketsBefore(size_, y + 1, s) =
                 TicketsBefore(size_, y, s) + (IF y % size_ = s THEN 1 ELSE 0)
  BY <1>0, TicketsNext
<1>5. Level' = IF ~TicketPending(t) /\ TicketPending(t)'
               THEN IF t \in Pushers THEN Level + 1 ELSE Level - 1
               ELSE Level
  BY <1>0, LevelStep
<1>6. ASSUME NEW y \in Int, y % Modulus = aqTail', (y + Level') % Modulus = aqHead',
             \A s \in 0 .. size_ - 1 : Balance(s)' =
                 TicketsBefore(size_, y + Level', s) - TicketsBefore(size_, y, s)
      PROVE  SlotsBalance'
  <2>1. Balanced(y)'
    BY <1>0, <1>6 DEF Balanced, TicketsBefore
  <2> QED BY <1>6, <2>1 DEF SlotsBalance
<1> DEFINE L == Level
           z == x + L
<1>7. z \in Int /\ L \in Int
  BY <1>0
<1>8. CASE ~TicketPending(t) /\ TicketPending(t)' /\ t \in Pushers
  <2>1. Level' = L + 1 /\ aqHead' = (aqHead + 1) % Modulus /\ aqTail' = aqTail
    BY <1>0, <1>5, <1>8, CounterStep
  <2>2. SlotOf(AqCounter(t)) = z % size_
    BY <1>1, <1>2, <1>7, <1>8 DEF SlotOf, AqCounter
  <2>3. ASSUME NEW s \in 0 .. size_ - 1
        PROVE  Balance(s)' = TicketsBefore(size_, z + 1, s) - TicketsBefore(size_, x, s)
    <3>1. Balance(s) = TicketsBefore(size_, z, s) - TicketsBefore(size_, x, s)
      BY <1>1, <2>3 DEF Balanced
    <3>2. Balance(s)' = IF z % size_ = s THEN Balance(s) + 1 ELSE Balance(s)
      BY <1>3, <1>8, <2>2, <2>3
    <3>3. /\ TicketsBefore(size_, z, s) \in Int /\ TicketsBefore(size_, x, s) \in Int
          /\ TicketsBefore(size_, z + 1, s) =
                 TicketsBefore(size_, z, s) + (IF z % size_ = s THEN 1 ELSE 0)
      BY <1>4, <1>7, <2>3
    <3> HIDE DEF z, L
    <3> QED BY <3>1, <3>2, <3>3
  <2>4. (z + 1) % Modulus = aqHead'
    BY <1>1, <1>2, <1>7, <2>1
  <2>5. x + Level' = z + 1
    BY <1>7, <2>1
  <2> HIDE DEF z, L
  <2> QED BY <1>1, <1>6, <2>1, <2>3, <2>4, <2>5
<1>9. CASE ~TicketPending(t) /\ TicketPending(t)' /\ t \notin Pushers
  <2>1. Level' = L - 1 /\ aqTail' = (aqTail + 1) % Modulus /\ aqHead' = aqHead
    BY <1>0, <1>5, <1>9, CounterStep
  <2>2. SlotOf(AqCounter(t)) = x % size_
    BY <1>1, <1>2, <1>9 DEF SlotOf, AqCounter
  <2>3. ASSUME NEW s \in 0 .. size_ - 1
        PROVE  Balance(s)' = TicketsBefore(size_, z, s) - TicketsBefore(size_, x + 1, s)
    <3>1. Balance(s) = TicketsBefore(size_, z, s) - TicketsBefore(size_, x, s)
      BY <1>1, <2>3 DEF Balanced
    <3>2. Balance(s)' = IF x % size_ = s THEN Balance(s) - 1 ELSE Balance(s)
      BY <1>3, <1>9, <2>2, <2>3
    <3>3. /\ TicketsBefore(size_, z, s) \in Int /\ TicketsBefore(size_, x, s) \in Int
          /\ TicketsBefore(size_, x + 1, s) =
                 TicketsBefore(size_, x, s) + (IF x % size_ = s THEN 1 ELSE 0)
      BY <1>4, <1>7, <2>3
    <3> HIDE DEF z, L
    <3> QED BY <3>1, <3>2, <3>3
  <2>4. (x + 1) % Modulus = aqTail'
    BY <1>1, <1>2, <2>1
  <2>5. (x + 1) + Level' = z /\ z % Modulus = aqHead' /\ x + 1 \in Int
    BY <1>1, <1>7, <2>1
  <2> HIDE DEF z, L
  <2> QED BY <1>6, <2>3, <2>4, <2>5
<1>10. CASE ~(~TicketPending(t) /\ TicketPending(t)')
  <2>1. Level' = L /\ UNCHANGED <<aqHead, aqTail>>
    BY <1>0, <1>5, <1>10, CounterStep
  <2>2. \A s \in 0 .. size_ - 1 :
            Balance(s)' = TicketsBefore(size_, z, s) - TicketsBefore(size_, x, s)
    BY <1>1, <1>3, <1>10 DEF Balanced
  <2> QED BY <1>1, <1>6, <2>1, <2>2
<1> QED BY <1>8, <1>9, <1>10

\* A try takes its ticket where it found room, or an element.
LEMMA LevelKeptStep ==
    ASSUME TriesInv, NEW t \in Users,
           TakeTicket(t) \/ TryLoadCounter(t) \/ Compare(t) \/ AdvanceCounter(t)
           \/ SlotSteps(t)
    PROVE  LevelKept'
<1>0. /\ AqTypeOK /\ AqPoolInv /\ LevelKept /\ ComparedWell
      /\ UNCHANGED <<aqConfig, size_, Pushers, Poppers>>
      /\ Level \in Int /\ Modulus \in Nat /\ Modulus > 0
      /\ size_ \in Nat /\ Pushers \cap Poppers = {}
  <2>1. AqTypeOK /\ AqPoolInv /\ LevelKept /\ ComparedWell
    BY DEF TriesInv, AqPoolInv, AqInv
  <2>2. UNCHANGED <<aqConfig, size_, Pushers, Poppers>> /\ Level \in Int
    BY <2>1, AqFrame, LevelType
  <2> QED BY <2>1, <2>2, AqConfigType DEF AqTypeOK
<1>1. Level' = IF ~TicketPending(t) /\ TicketPending(t)'
               THEN IF t \in Pushers THEN Level + 1 ELSE Level - 1
               ELSE Level
  BY <1>0, LevelStep
<1>2. ASSUME ~TicketPending(t), TicketPending(t)', t \in aqConfig.onlyTries
      PROVE  IF t \in Pushers THEN Level < size_ ELSE Level > 0
  <2>1. AdvanceCounter(t) /\ aqTicket[t] = AqCounter(t)
    BY <1>0, <1>2 DEF TakeTicket, TryLoadCounter, Compare, AdvanceCounter, SlotSteps,
       PushAtomic, PopAtomic, ClaimSlot, MoveElement, ReleaseSlot, TicketPending, HasTicket,
       AqGoto, AqReturn, AqTypeOK
  <2>2. Late(t) = 0
    <3>1. AqCounter(t) \in 0 .. Modulus - 1
      BY <1>0 DEF AqCounter, AqTypeOK
    <3> QED BY <1>0, <2>1, <3>1, AheadZero DEF Late
  <2>3. IF t \in Pushers THEN Level - Late(t) < size_ ELSE Level + Late(t) > 0
    BY <1>0, <2>1 DEF ComparedWell, AdvanceCounter
  <2> HIDE DEF Level, Late
  <2> QED BY <1>0, <2>2, <2>3
<1>3. ASSUME Poppers \subseteq aqConfig.onlyTries PROVE Level' >= 0
  <2>1. Level >= 0
    BY <1>0, <1>3 DEF LevelKept
  <2>2. t \notin Pushers => t \in aqConfig.onlyTries
    BY <1>3 DEF Users
  <2> HIDE DEF Level, TicketPending
  <2> QED BY <1>0, <1>1, <1>2, <2>1, <2>2
<1>4. ASSUME Pushers \subseteq aqConfig.onlyTries PROVE Level' <= size_
  <2>1. Level <= size_
    BY <1>0, <1>4 DEF LevelKept
  <2>2. t \in Pushers => t \in aqConfig.onlyTries
    BY <1>4
  <2> HIDE DEF Level, TicketPending
  <2> QED BY <1>0, <1>1, <1>2, <2>1, <2>2
<1> HIDE DEF Level
<1> QED BY <1>0, <1>3, <1>4 DEF LevelKept

\* A thread in a slot, or one that waits at a slot nobody is in, goes on if the slot
\* is as it needs it.
LEMMA WhoGoesOn ==
    ASSUME AqPoolInv, NEW u \in Users, NEW s \in 0 .. size_ - 1, PendingAt(u, s),
           \A v \in Users : InSlot(v) => SlotOf(aqTicket[v]) # s,
           elements_[s] = Nil <=> u \in Pushers
    PROVE  SlotOf(aqTicket[u]) = s /\ CanGoOn(u)
<1>1. SlotOf(aqTicket[u]) = s /\ HasTicket(u)
  BY DEF PendingAt, TicketPending, InSlot
<1>2. aqConfig.any => states_[s] = IF elements_[s] = Nil THEN "EMPTY" ELSE "STORED"
  BY DEF AqPoolInv, SlotsAreOwned, StatesTell, Vacant
<1>3. SlotFits(u)
  BY <1>1, <1>2 DEF SlotFits
<1> QED BY <1>1, <1>3 DEF CanGoOn

\* If nobody is in the slot and a push waits because it is full, more was put in
\* and is to be put in than the counters give out for it without a pop; and so for
\* a pop.
LEMMA TriesNeedNobody == TriesInv => TriesNeedNoLaterCall
<1> SUFFICES ASSUME TriesInv, NEW t \in Users, HasTicket(t),
                    Side(t) \subseteq aqConfig.onlyTries
             PROVE  \E u \in Users :
                        SlotOf(aqTicket[u]) = SlotOf(aqTicket[t]) /\ CanGoOn(u)
  BY DEF TriesNeedNoLaterCall
<1>0. /\ AqTypeOK /\ AqPoolInv /\ SlotsBalance /\ LevelKept
      /\ Level \in Int /\ size_ \in Nat /\ size_ > 0 /\ Pushers \cap Poppers = {}
  <2>1. AqTypeOK /\ AqPoolInv /\ SlotsBalance /\ LevelKept
    BY DEF TriesInv, AqPoolInv, AqInv
  <2> QED BY <2>1, LevelType, AqConfigType DEF AqTypeOK
<1>1. PICK s \in 0 .. size_ - 1 : s = SlotOf(aqTicket[t])
  BY <1>0, SlotType
<1>2. CASE \E u \in Users : InSlot(u) /\ SlotOf(aqTicket[u]) = s
  BY <1>1, <1>2 DEF InSlot, CanGoOn
<1>3. CASE \A v \in Users : InSlot(v) => SlotOf(aqTicket[v]) # s
  <2>1. PICK x \in Int : Balanced(x)
    BY <1>0 DEF SlotsBalance
  <2>2. Balance(s) = TicketsBefore(size_, x + Level, s) - TicketsBefore(size_, x, s)
    BY <2>1 DEF Balanced
  <2>3. \A y \in Int : TicketsBefore(size_, y, s) \in Int
    BY <1>0, TicketsNext
  <2>4. \A y, z \in Int : y <= z => TicketsBefore(size_, y, s) <= TicketsBefore(size_, z, s)
    BY <1>0, TicketsGrow
  <2>5. TicketsBefore(size_, x + size_, s) = TicketsBefore(size_, x, s) + 1
    BY <1>0, TicketsOfLap
  <2>6. PendingAt(t, s)
    BY <1>1 DEF PendingAt, TicketPending
  <2>7. /\ Cardinality(At(Pushers, s)) \in Nat /\ Cardinality(At(Poppers, s)) \in Nat
        /\ IsFiniteSet(At(Pushers, s)) /\ IsFiniteSet(At(Poppers, s))
    BY <1>0, BalanceType
  <2>8. \A S : IsFiniteSet(S) => (Cardinality(S) = 0 <=> S = {})
    BY FS_EmptySet
  <2>9. CASE t \in Pushers
    <3>1. CASE elements_[s] = Nil
      BY <1>0, <1>1, <1>3, <2>6, <2>9, <3>1, WhoGoesOn
    <3>2. CASE elements_[s] # Nil
      <4>1. Level <= size_
        BY <1>0, <2>9 DEF LevelKept, Side
      <4>2. Balance(s) <= 1
        <5>1. /\ x + Level \in Int /\ x + size_ \in Int /\ x + Level <= x + size_
          BY <1>0, <4>1
        <5>2. TicketsBefore(size_, x + Level, s) <= TicketsBefore(size_, x, s) + 1
          BY <2>4, <2>5, <5>1
        <5>3. TicketsBefore(size_, x + Level, s) \in Int /\ TicketsBefore(size_, x, s) \in Int
          BY <2>3, <5>1
        <5> QED BY <2>2, <5>2, <5>3
      <4>3. t \in At(Pushers, s)
        BY <2>6, <2>9 DEF At
      <4>4. Cardinality(At(Pushers, s)) # 0
        BY <2>7, <2>8, <4>3
      <4>5. Balance(s) = 1 + Cardinality(At(Pushers, s)) - Cardinality(At(Poppers, s))
        BY <3>2 DEF Balance, Filled
      <4>6. Cardinality(At(Poppers, s)) # 0
        BY <2>7, <4>2, <4>4, <4>5
      <4>7. PICK u : u \in At(Poppers, s)
        BY <2>7, <2>8, <4>6
      <4>8. u \in Users /\ u \notin Pushers /\ PendingAt(u, s)
        BY <1>0, <4>7 DEF At, Users
      <4> QED BY <1>0, <1>1, <1>3, <3>2, <4>8, WhoGoesOn
    <3> QED BY <3>1, <3>2
  <2>10. CASE t \notin Pushers
    <3>1. CASE elements_[s] # Nil
      BY <1>0, <1>1, <1>3, <2>6, <2>10, <3>1, WhoGoesOn
    <3>2. CASE elements_[s] = Nil
      <4>1. Level >= 0
        BY <1>0, <2>10 DEF LevelKept, Side
      <4>2. Balance(s) >= 0
        <5>1. x + Level \in Int /\ x <= x + Level
          BY <1>0, <4>1
        <5>2. TicketsBefore(size_, x, s) <= TicketsBefore(size_, x + Level, s)
          BY <2>4, <5>1
        <5>3. TicketsBefore(size_, x + Level, s) \in Int /\ TicketsBefore(size_, x, s) \in Int
          BY <2>3, <5>1
        <5> QED BY <2>2, <5>2, <5>3
      <4>3. t \in At(Poppers, s)
        BY <2>6, <2>10 DEF At, Users
      <4>4. Cardinality(At(Poppers, s)) # 0
        BY <2>7, <2>8, <4>3
      <4>5. Balance(s) = 0 + Cardinality(At(Pushers, s)) - Cardinality(At(Poppers, s))
        BY <3>2 DEF Balance, Filled
      <4>6. Cardinality(At(Pushers, s)) # 0
        BY <2>7, <4>2, <4>4, <4>5
      <4>7. PICK u : u \in At(Pushers, s)
        BY <2>7, <2>8, <4>6
      <4>8. u \in Users /\ u \in Pushers /\ PendingAt(u, s)
        BY <4>7 DEF At, Users
      <4> QED BY <1>0, <1>1, <1>3, <3>2, <4>8, WhoGoesOn
    <3> QED BY <3>1, <3>2
  <2> QED BY <2>9, <2>10
<1> QED BY <1>2, <1>3

LEMMA TriesStep ==
    ASSUME TriesInv, [AqNext]_aqVars
    PROVE  TriesInv'
<1>0. AqPoolInv /\ AqPoolInv' /\ AqTypeOK /\ AqTypeOK'
  <2>1. AqPoolInv /\ AqPoolInv'
    BY AqPoolStep DEF TriesInv
  <2> QED BY <2>1 DEF AqPoolInv, AqInv
<1>1. ASSUME NEW t \in Users,
             TakeTicket(t) \/ TryLoadCounter(t) \/ Compare(t) \/ AdvanceCounter(t)
             \/ SlotSteps(t)
      PROVE  TriesInv'
  <2>1. LevelIs' /\ NotOvertaken' /\ ComparedWell'
    BY <1>0, <1>1, LevelIsStep, NotOvertakenStep, ComparedWellStep
  <2>2. SlotsBalance' /\ LevelKept'
    BY <1>1, SlotsBalanceStep, LevelKeptStep
  <2> QED BY <1>0, <2>1, <2>2 DEF TriesInv
<1>2. CASE UNCHANGED aqVars
  <2>1. UNCHANGED <<Level, Half, size_, Pushers, Poppers, Users>>
    BY <1>2 DEF aqVars, Level, Present, Pending, TicketPending, HasTicket, size_, Pushers,
       Poppers, Users, Half
  <2>2. LevelIs' /\ LevelKept'
    BY <1>2, <2>1 DEF TriesInv, LevelIs, LevelKept, aqVars
  <2>3. \A t \in Users : Late(t)' = Late(t) /\ aqPc'[t] = aqPc[t]
    BY <1>2, <2>1 DEF Late, Ahead, AqCounter, aqVars
  <2>4. NotOvertaken' /\ ComparedWell'
    BY <2>1, <2>3 DEF TriesInv, NotOvertaken, ComparedWell
  <2>5. \A s : Balance(s)' = Balance(s)
    BY <1>2, <2>1 DEF aqVars, Balance, Filled, At, PendingAt, TicketPending, HasTicket, SlotOf
  <2>6. \A x : Balanced(x)' <=> Balanced(x)
    BY <2>1, <2>5 DEF Balanced, TicketsBefore
  <2>7. SlotsBalance'
    BY <1>2, <2>1, <2>6 DEF TriesInv, SlotsBalance, aqVars
  <2> QED BY <1>0, <2>2, <2>4, <2>7 DEF TriesInv
<1> QED BY <1>1, <1>2 DEF AqNext

LEMMA TriesInitInv ==
    ASSUME AqInit
    PROVE  TriesInv
<1>0. AqPoolInv /\ AqTypeOK
  BY AqPoolInitInv DEF AqPoolInv, AqInv
<1>1. \A t \in Users : aqPc[t] = "idle"
  BY DEF AqInit
<1>2. /\ Present = {} /\ Pending(Pushers) = {} /\ Pending(Poppers) = {}
      /\ \A s : At(Pushers, s) = {} /\ At(Poppers, s) = {}
  BY <1>1 DEF AqInit, Present, Pending, At, PendingAt, TicketPending, HasTicket, Users
<1>3. Level = 0
  BY <1>2, FS_EmptySet DEF Level
<1>4. LevelIs
  BY <1>3 DEF LevelIs, AqInit
<1>5. NotOvertaken /\ ComparedWell
  BY <1>1 DEF NotOvertaken, ComparedWell
<1>6. size_ \in Nat /\ size_ > 0 /\ Modulus \in Nat /\ Modulus > 0
  BY <1>0, AqConfigType DEF AqTypeOK
<1>7. LevelKept
  BY <1>3, <1>6 DEF LevelKept
<1>8. Balanced(0)
  <2>1. ASSUME NEW s \in 0 .. size_ - 1
        PROVE  Balance(s) = TicketsBefore(size_, 0 + Level, s) - TicketsBefore(size_, 0, s)
    <3>1. Balance(s) = 0
      <4>1. Filled(s) = 0
        BY <2>1 DEF Filled, AqInit
      <4>2. At(Pushers, s) = {} /\ At(Poppers, s) = {}
        BY <1>2
      <4>3. Cardinality({}) = 0
        BY FS_EmptySet
      <4> QED BY <4>1, <4>2, <4>3 DEF Balance
    <3>2. 0 \in Int /\ 0 + Level = 0
      BY <1>3
    <3>3. TicketsBefore(size_, 0, s) \in Int
      BY <1>6, <3>2, TicketsNext
    <3>4. TicketsBefore(size_, 0, s) - TicketsBefore(size_, 0, s) = 0
      BY <3>3
    <3> QED BY <3>1, <3>2, <3>4
  <2> QED BY <2>1 DEF Balanced
<1>9. SlotsBalance
  <2>1. 0 % Modulus = 0 /\ 0 + Level = 0
    BY <1>3, <1>6, ModCases
  <2> QED BY <1>8, <2>1 DEF SlotsBalance, AqInit
<1> QED BY <1>0, <1>4, <1>5, <1>7, <1>9 DEF TriesInv

=============================================================================

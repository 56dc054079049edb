------------------------- MODULE CompetitorsProofs -------------------------
(***************************************************************************)
(* Proofs about the queues of Competitors, for any constructor arguments,  *)
(* any threads and any elements.  MPMCQueue: whoever uses a slot is alone  *)
(* in it, and the consumer with ticket k gets the element that was pushed  *)
(* with ticket k.  MutexQueue: a lock holder is alone inside, and the      *)
(* queue is a FIFO.  SPSCQueue is a FIFO.  Then what these, and what       *)
(* AtomicQueueProofs, show of one queue holds of the composition.          *)
(***************************************************************************)
EXTENDS Competitors, AtomicQueueProofs, SequenceTheorems, TLAPS

-----------------------------------------------------------------------------
(***************************************************************************)
(* Tickets, slots and turns.                                               *)
(***************************************************************************)

\* A ticket is its lap and its slot.
LEMMA TicketParts ==
    ASSUME NEW i \in Nat
    PROVE  /\ Idx(i) \in Slots
           /\ i \div MpmcCapacity \in Nat
           /\ i = MpmcCapacity * (i \div MpmcCapacity) + Idx(i)
  BY MPMCQueueAssumption DEF Idx, Slots

LEMMA AwaitedType ==
    ASSUME NEW t, NEW i \in Nat
    PROVE  Awaited(t, i) \in Nat
  BY TicketParts DEF Awaited

\* A slot and a turn belong to one ticket on one side.
LEMMA TurnNamesTicket ==
    ASSUME NEW t, NEW u, NEW i \in Nat, NEW j \in Nat,
           Idx(i) = Idx(j), Awaited(t, i) = Awaited(u, j)
    PROVE  i = j /\ (t \in Consumers <=> u \in Consumers)
<1>1. i \div MpmcCapacity \in Nat /\ j \div MpmcCapacity \in Nat
  BY TicketParts
<1>2. /\ i \div MpmcCapacity = j \div MpmcCapacity
      /\ t \in Consumers <=> u \in Consumers
  BY <1>1 DEF Awaited
<1> QED BY <1>2, TicketParts

-----------------------------------------------------------------------------
(***************************************************************************)
(* The inductive invariant.                                                *)
(***************************************************************************)
MpmcPcs ==
    {"idle", "wait", "tryTurn", "tryCas", "tryReload", "use", "passTurn", "done", "failed"}

MpmcTypeOK ==
    /\ team \in Teams
    /\ head_ \in Nat /\ tail_ \in Nat
    /\ turn \in [Slots -> Nat]
    /\ storage \in [Slots -> Nat \cup {NoElement}]
    /\ pc \in [Threads -> MpmcPcs]
    /\ ticket \in [Threads -> Nat]
    /\ popped \in [Consumers -> Nat \cup {NoElement}]
    /\ wasBusy \in [Threads -> BOOLEAN]

\* The thread has taken its ticket and not yet passed the turn on.
OwnsTicket(t) == pc[t] \in {"wait", "use", "passTurn"}

\* The thread's slot is its own, or will be if its compare_exchange succeeds.
HoldsTurn(t) ==
    \/ pc[t] \in {"use", "passTurn"}
    \/ pc[t] = "tryCas" /\ ticket[t] = Counter(t)

TicketsAreTaken ==
    \A t \in Threads :
        /\ OwnsTicket(t) => ticket[t] < Counter(t)
        /\ pc[t] \in {"tryTurn", "tryCas", "tryReload"} => ticket[t] <= Counter(t)

TicketsAreOwnedOnce ==
    \A t, u \in Threads :
        /\ OwnsTicket(t) /\ OwnsTicket(u)
        /\ t \in Consumers <=> u \in Consumers
        /\ ticket[t] = ticket[u]
        => t = u

TurnIsKept == \A t \in Threads : HoldsTurn(t) => IsTurn(t)

\* The slot waits for the consumer that has, or will have, ticket i.
IsFull(i) == turn[Idx(i)] = (i \div MpmcCapacity) * 2 + 1
MovedOut(i) == \E c \in Consumers : pc[c] = "passTurn" /\ ticket[c] = i

StorageIsKept ==
    /\ \A i \in Nat : IsFull(i) /\ ~MovedOut(i) => storage[Idx(i)] = i
    /\ \A p \in Producers : pc[p] = "passTurn" => storage[Idx(ticket[p])] = ticket[p]

PoppedIsTicket == \A c \in Consumers : pc[c] \in {"passTurn", "done"} => popped[c] = ticket[c]

BusyWasSeen ==
    \A t \in Threads :
        pc[t] = "failed" \/ (pc[t] = "tryReload" /\ ticket[t] = Counter(t)) => wasBusy[t]

MpmcInv ==
    /\ MpmcTypeOK
    /\ TicketsAreTaken
    /\ TicketsAreOwnedOnce
    /\ TurnIsKept
    /\ StorageIsKept
    /\ PoppedIsTicket
    /\ BusyWasSeen

-----------------------------------------------------------------------------
(***************************************************************************)
(* Two threads that may use one slot are one.                              *)
(***************************************************************************)
LEMMA HolderIsAlone ==
    ASSUME MpmcInv,
           NEW t \in Threads, pc[t] \in {"use", "passTurn"},
           NEW u \in Threads, HoldsTurn(u),
           Idx(ticket[u]) = Idx(ticket[t])
    PROVE  u = t
<1>1. ticket[t] \in Nat /\ ticket[u] \in Nat
  BY DEF MpmcInv, MpmcTypeOK
<1>2. Awaited(t, ticket[t]) = Awaited(u, ticket[u])
  BY DEF MpmcInv, TurnIsKept, HoldsTurn, IsTurn
<1>3. ticket[t] = ticket[u] /\ (t \in Consumers <=> u \in Consumers)
  BY <1>1, <1>2, TurnNamesTicket
<1>4. Counter(t) = Counter(u)
  BY <1>3, MPMCQueueAssumption DEF Threads, Counter
<1>5. CASE pc[u] \in {"use", "passTurn"}
  BY <1>3, <1>5 DEF MpmcInv, TicketsAreOwnedOnce, OwnsTicket
<1>6. CASE pc[u] = "tryCas" /\ ticket[u] = Counter(u)
  <2>1. ticket[t] < Counter(t) /\ Counter(t) \in Nat
    BY DEF MpmcInv, MpmcTypeOK, TicketsAreTaken, OwnsTicket, Counter
  <2> QED BY <1>1, <1>3, <1>4, <1>6, <2>1
<1> QED BY <1>5, <1>6 DEF HoldsTurn

LEMMA InvGivesPopsItsTicket == MpmcInv => PopsItsTicket
<1> SUFFICES ASSUME MpmcInv PROVE OneThreadInSlot
  BY DEF MpmcInv, PoppedIsTicket, PopsItsTicket
<1> QED BY HolderIsAlone DEF OneThreadInSlot, HoldsTurn

LEMMA MpmcInitInv == MpmcInit => MpmcInv
<1> SUFFICES ASSUME MpmcInit PROVE MpmcInv
  OBVIOUS
<1> USE MPMCQueueAssumption DEF MpmcInit
<1>1. MpmcTypeOK
  BY DEF MpmcTypeOK, MpmcPcs
<1>2. TicketsAreTaken /\ TicketsAreOwnedOnce
  BY DEF TicketsAreTaken, TicketsAreOwnedOnce, OwnsTicket
<1>3. TurnIsKept /\ PoppedIsTicket /\ BusyWasSeen
  BY DEF TurnIsKept, HoldsTurn, PoppedIsTicket, BusyWasSeen, Threads
<1>4. StorageIsKept
  <2>1. ASSUME NEW i \in Nat PROVE ~IsFull(i)
    BY TicketParts DEF IsFull
  <2> QED BY <2>1 DEF StorageIsKept, Threads
<1> QED BY <1>1, <1>2, <1>3, <1>4 DEF MpmcInv

-----------------------------------------------------------------------------
(***************************************************************************)
(* Each step preserves the invariant.                                      *)
(***************************************************************************)

\* Where a counter goes when a thread takes a ticket.
LEMMA AdvanceCounters ==
    ASSUME MpmcTypeOK, NEW t \in Threads, Advance(t)
    PROVE  /\ head_' \in Nat /\ tail_' \in Nat
           /\ \A u \in Threads :
                  /\ Counter(u) \in Nat /\ Counter(u)' \in Nat
                  /\ Counter(u)' = IF t \in Consumers <=> u \in Consumers
                                   THEN Counter(u) + 1 ELSE Counter(u)
                  /\ (t \in Consumers <=> u \in Consumers) => Counter(u) = Counter(t)
  BY MPMCQueueAssumption DEF MpmcTypeOK, Advance, Counter, Threads

LEMMA FetchAddInv ==
    ASSUME MpmcInv, NEW t \in Threads, FetchAdd(t)
    PROVE  MpmcInv'
<1> USE DEF FetchAdd, Goto
<1>0. MpmcTypeOK /\ Counter(t) \in Nat
  BY DEF MpmcInv, MpmcTypeOK, Counter
<1>1. /\ head_' \in Nat /\ tail_' \in Nat
      /\ \A u \in Threads :
             /\ Counter(u) \in Nat /\ Counter(u)' \in Nat
             /\ Counter(u)' = IF t \in Consumers <=> u \in Consumers
                              THEN Counter(u) + 1 ELSE Counter(u)
             /\ (t \in Consumers <=> u \in Consumers) => Counter(u) = Counter(t)
  BY <1>0, AdvanceCounters
<1>2. MpmcTypeOK'
  BY <1>0, <1>1 DEF MpmcTypeOK, MpmcPcs
<1>3. /\ pc'[t] = "wait" /\ ticket'[t] = Counter(t)
      /\ \A u \in Threads \ {t} : pc'[u] = pc[u] /\ ticket'[u] = ticket[u]
  BY <1>0 DEF MpmcTypeOK
<1>4. TicketsAreTaken'
  BY <1>0, <1>1, <1>3 DEF MpmcInv, MpmcTypeOK, TicketsAreTaken, OwnsTicket
<1>5. TicketsAreOwnedOnce'
  <2> SUFFICES ASSUME NEW u \in Threads, NEW v \in Threads,
                      OwnsTicket(u)', OwnsTicket(v)',
                      u \in Consumers <=> v \in Consumers,
                      ticket'[u] = ticket'[v], u # v
               PROVE  FALSE
    BY DEF TicketsAreOwnedOnce
  <2>1. ASSUME NEW w \in Threads \ {t}, OwnsTicket(w)', t \in Consumers <=> w \in Consumers
        PROVE  ticket'[w] # ticket'[t]
    BY <1>0, <1>1, <1>3, <2>1 DEF MpmcInv, MpmcTypeOK, TicketsAreTaken, OwnsTicket
  <2>2. u # t /\ v # t
    BY <2>1
  <2> QED BY <1>3, <2>2 DEF MpmcInv, TicketsAreOwnedOnce, OwnsTicket
<1>6. TurnIsKept'
  <2> SUFFICES ASSUME NEW u \in Threads, HoldsTurn(u)' PROVE IsTurn(u)'
    BY DEF TurnIsKept
  <2>1. u # t /\ HoldsTurn(u)
    BY <1>0, <1>1, <1>3 DEF HoldsTurn, MpmcInv, TicketsAreTaken, MpmcTypeOK
  <2> QED BY <1>3, <2>1 DEF MpmcInv, TurnIsKept, IsTurn, Awaited
<1>7. StorageIsKept' /\ PoppedIsTicket'
  BY <1>3 DEF MpmcInv, StorageIsKept, PoppedIsTicket, IsFull, MovedOut, Threads
<1>8. BusyWasSeen'
  BY <1>0, <1>1, <1>3 DEF MpmcInv, MpmcTypeOK, BusyWasSeen, TicketsAreTaken
<1> QED BY <1>2, <1>4, <1>5, <1>6, <1>7, <1>8 DEF MpmcInv

\* Steps that touch neither a counter nor a slot, and after which the thread owns
\* a ticket only if it did before.
LEMMA QuietStep ==
    ASSUME MpmcInv, MpmcTypeOK', NEW t \in Threads,
           UNCHANGED <<head_, tail_, turn, storage>>,
           \A u \in Threads \ {t} :
               pc'[u] = pc[u] /\ ticket'[u] = ticket[u] /\ wasBusy'[u] = wasBusy[u],
           \A c \in Consumers \ {t} : popped'[c] = popped[c],
           OwnsTicket(t)' => OwnsTicket(t) /\ ticket'[t] = ticket[t],
           pc'[t] \in {"tryTurn", "tryCas", "tryReload"} => ticket'[t] <= Counter(t),
           HoldsTurn(t)' => IsTurn(t)',
           pc'[t] # "passTurn" /\ pc[t] # "passTurn",
           pc'[t] # "done",
           BusyWasSeen'
    PROVE  MpmcInv'
<1>1. \A u \in Threads : Counter(u)' = Counter(u)
  BY DEF Counter
<1>2. TicketsAreTaken'
  BY <1>1 DEF MpmcInv, TicketsAreTaken, OwnsTicket
<1>3. TicketsAreOwnedOnce'
  BY DEF MpmcInv, TicketsAreOwnedOnce, OwnsTicket
<1>4. TurnIsKept'
  BY <1>1 DEF MpmcInv, TurnIsKept, HoldsTurn, IsTurn, Awaited
<1>5. StorageIsKept' /\ PoppedIsTicket'
  BY DEF MpmcInv, StorageIsKept, PoppedIsTicket, IsFull, MovedOut, Threads
<1> QED BY <1>2, <1>3, <1>4, <1>5 DEF MpmcInv

\* The steps that change one thread's locals only.
LEMMA LocalStepInv ==
    ASSUME MpmcInv, NEW t \in Threads,
           TryLoad(t) \/ AwaitTurn(t) \/ TryTurn(t) \/ TryReload(t) \/ Return(t)
    PROVE  MpmcInv'
<1>0. MpmcTypeOK /\ (\A u \in Threads : Counter(u) \in Nat /\ Counter(u)' = Counter(u))
  BY DEF MpmcInv, MpmcTypeOK, Counter, TryLoad, AwaitTurn, TryTurn, TryReload, Return
<1>1. CASE TryLoad(t)
  <2> USE <1>0, <1>1 DEF TryLoad, Goto
  <2>1. MpmcTypeOK'
    BY DEF MpmcTypeOK, MpmcPcs
  <2>2. pc'[t] = "tryTurn" /\ ticket'[t] = Counter(t)
    BY DEF MpmcTypeOK
  <2>3. BusyWasSeen'
    BY DEF MpmcTypeOK, MpmcInv, BusyWasSeen
  <2> QED BY <2>1, <2>2, <2>3, QuietStep DEF MpmcTypeOK, OwnsTicket, HoldsTurn
<1>2. CASE AwaitTurn(t)
  <2> USE <1>0, <1>2 DEF AwaitTurn, Goto
  <2>1. MpmcTypeOK'
    BY DEF MpmcTypeOK, MpmcPcs
  <2>2. pc'[t] = "use" /\ IsTurn(t)'
    BY DEF MpmcTypeOK, IsTurn, Awaited
  <2>3. BusyWasSeen'
    BY DEF MpmcTypeOK, MpmcInv, BusyWasSeen
  <2> QED BY <2>1, <2>2, <2>3, QuietStep DEF MpmcTypeOK, OwnsTicket
<1>3. CASE TryTurn(t)
  <2> USE <1>0, <1>3 DEF TryTurn, Goto
  <2>1. MpmcTypeOK'
    BY DEF MpmcTypeOK, MpmcPcs
  <2>2. /\ pc'[t] = IF IsTurn(t) THEN "tryCas" ELSE "tryReload"
        /\ IsTurn(t)' = IsTurn(t)
    BY DEF MpmcTypeOK, IsTurn, Awaited
  <2>3. BusyWasSeen'
    BY <2>2 DEF MpmcTypeOK, MpmcInv, BusyWasSeen
  <2>4. ticket[t] <= Counter(t)
    BY DEF MpmcInv, TicketsAreTaken
  <2> QED BY <2>1, <2>2, <2>3, <2>4, QuietStep DEF MpmcTypeOK, OwnsTicket, HoldsTurn
<1>4. CASE TryReload(t)
  <2> USE <1>0, <1>4 DEF TryReload, Goto
  <2>1. MpmcTypeOK'
    BY DEF MpmcTypeOK, MpmcPcs
  <2>2. /\ pc'[t] = IF ticket[t] = Counter(t) THEN "failed" ELSE "tryTurn"
        /\ ticket'[t] = Counter(t)
    BY DEF MpmcTypeOK
  <2>3. BusyWasSeen'
    BY <2>2 DEF MpmcTypeOK, MpmcInv, BusyWasSeen
  <2> QED BY <2>1, <2>2, <2>3, QuietStep DEF MpmcTypeOK, OwnsTicket, HoldsTurn
<1>5. CASE Return(t)
  <2> USE <1>0, <1>5 DEF Return, Goto
  <2>1. MpmcTypeOK'
    BY DEF MpmcTypeOK, MpmcPcs
  <2>2. pc'[t] = "idle" /\ pc[t] # "passTurn"
    BY DEF MpmcTypeOK
  <2>3. BusyWasSeen'
    BY DEF MpmcTypeOK, MpmcInv, BusyWasSeen
  <2> QED BY <2>1, <2>2, <2>3, QuietStep DEF MpmcTypeOK, OwnsTicket, HoldsTurn
<1> QED BY <1>1, <1>2, <1>3, <1>4, <1>5

LEMMA TryCasInv ==
    ASSUME MpmcInv, NEW t \in Threads, TryCas(t)
    PROVE  MpmcInv'
<1> USE DEF TryCas, Goto
<1>0. MpmcTypeOK /\ Counter(t) \in Nat
  BY DEF MpmcInv, MpmcTypeOK, Counter
<1>1. CASE ticket[t] # Counter(t)
  <2> USE <1>0, <1>1
  <2>1. MpmcTypeOK'
    BY DEF MpmcTypeOK, MpmcPcs
  <2>2. pc'[t] = "tryTurn" /\ ticket'[t] = Counter(t) /\ Counter(t)' = Counter(t)
    BY DEF MpmcTypeOK, Counter
  <2>3. BusyWasSeen'
    BY <2>2 DEF MpmcTypeOK, MpmcInv, BusyWasSeen, Counter
  <2> QED BY <2>1, <2>2, <2>3, QuietStep DEF MpmcTypeOK, OwnsTicket, HoldsTurn
<1>2. CASE ticket[t] = Counter(t)
  <2>1. /\ head_' \in Nat /\ tail_' \in Nat
        /\ \A u \in Threads :
               /\ Counter(u) \in Nat /\ Counter(u)' \in Nat
               /\ Counter(u)' = IF t \in Consumers <=> u \in Consumers
                                THEN Counter(u) + 1 ELSE Counter(u)
               /\ (t \in Consumers <=> u \in Consumers) => Counter(u) = Counter(t)
    BY <1>0, <1>2, AdvanceCounters
  <2>2. MpmcTypeOK'
    BY <1>0, <1>2, <2>1 DEF MpmcTypeOK, MpmcPcs
  <2>3. /\ pc'[t] = "use" /\ ticket' = ticket /\ pc[t] = "tryCas"
        /\ \A u \in Threads \ {t} : pc'[u] = pc[u]
    BY <1>0, <1>2 DEF MpmcTypeOK
  <2>4. TicketsAreTaken'
    BY <1>0, <1>2, <2>1, <2>3 DEF MpmcInv, MpmcTypeOK, TicketsAreTaken, OwnsTicket
  <2>5. TicketsAreOwnedOnce'
    <3> SUFFICES ASSUME NEW u \in Threads, NEW v \in Threads,
                        OwnsTicket(u)', OwnsTicket(v)',
                        u \in Consumers <=> v \in Consumers,
                        ticket[u] = ticket[v], u # v
                 PROVE  FALSE
      BY <2>3 DEF TicketsAreOwnedOnce
    <3>1. ASSUME NEW w \in Threads \ {t}, OwnsTicket(w)', t \in Consumers <=> w \in Consumers
          PROVE  ticket[w] # ticket[t]
      BY <1>0, <1>2, <2>1, <2>3, <3>1 DEF MpmcInv, MpmcTypeOK, TicketsAreTaken, OwnsTicket
    <3>2. u # t /\ v # t
      BY <3>1
    <3> QED BY <2>3, <3>2 DEF MpmcInv, TicketsAreOwnedOnce, OwnsTicket
  <2>6. TurnIsKept'
    <3> SUFFICES ASSUME NEW u \in Threads, HoldsTurn(u)' PROVE IsTurn(u)'
      BY DEF TurnIsKept
    <3>1. HoldsTurn(u)
      BY <1>0, <1>2, <2>1, <2>3 DEF HoldsTurn, MpmcInv, TicketsAreTaken, MpmcTypeOK
    <3> QED BY <1>2, <2>3, <3>1 DEF MpmcInv, TurnIsKept, IsTurn, Awaited
  <2>7. StorageIsKept' /\ PoppedIsTicket'
    BY <1>2, <2>3 DEF MpmcInv, StorageIsKept, PoppedIsTicket, IsFull, MovedOut, Threads
  <2>8. BusyWasSeen'
    BY <1>0, <1>2, <2>1, <2>3 DEF MpmcInv, MpmcTypeOK, BusyWasSeen, TicketsAreTaken
  <2> QED BY <2>2, <2>4, <2>5, <2>6, <2>7, <2>8 DEF MpmcInv
<1> QED BY <1>1, <1>2

LEMMA UseInv ==
    ASSUME MpmcInv, NEW t \in Threads, Use(t)
    PROVE  MpmcInv'
<1> DEFINE s == Idx(ticket[t])
<1> USE DEF Use, Goto
<1>0. /\ MpmcTypeOK /\ ticket[t] \in Nat /\ s \in Slots
      /\ \A u \in Threads : Counter(u)' = Counter(u) /\ (IsTurn(u)' <=> IsTurn(u))
  BY TicketParts DEF MpmcInv, MpmcTypeOK, Counter, IsTurn, Awaited
<1>1. MpmcTypeOK'
  BY <1>0 DEF MpmcTypeOK, MpmcPcs, Threads
<1>2. /\ pc[t] = "use" /\ pc'[t] = "passTurn"
      /\ \A u \in Threads \ {t} : pc'[u] = pc[u]
  BY <1>0 DEF MpmcTypeOK
<1>3. TicketsAreTaken' /\ TicketsAreOwnedOnce' /\ TurnIsKept' /\ BusyWasSeen'
  <2>1. \A u \in Threads : /\ OwnsTicket(u)' <=> OwnsTicket(u)
                           /\ HoldsTurn(u)' <=> HoldsTurn(u)
    BY <1>0, <1>2 DEF OwnsTicket, HoldsTurn
  <2> QED BY <1>0, <1>2, <2>1
          DEF MpmcInv, TicketsAreTaken, TicketsAreOwnedOnce, TurnIsKept, BusyWasSeen
<1>4. IsTurn(t) /\ HoldsTurn(t)
  BY <1>2 DEF MpmcInv, TurnIsKept, HoldsTurn
<1>5. ASSUME NEW u \in Threads \ {t}, pc[u] = "passTurn" PROVE Idx(ticket[u]) # s
  BY <1>2, <1>5, HolderIsAlone DEF HoldsTurn
<1>6. CASE t \in Producers
  <2>1. t \notin Consumers
    BY <1>6, MPMCQueueAssumption
  <2>2. /\ storage' = [storage EXCEPT ![s] = ticket[t]]
        /\ popped' = popped
    BY <1>6
  <2>3. ASSUME NEW i \in Nat, IsFull(i)', ~MovedOut(i)' PROVE storage'[Idx(i)] = i
    <3>1. IsFull(i) /\ ~MovedOut(i)
      BY <1>2, <2>1, <2>3 DEF IsFull, MovedOut, Threads
    <3>2. Idx(i) # s
      <4> SUFFICES ASSUME Idx(i) = s PROVE FALSE
        OBVIOUS
      <4>1. i \div MpmcCapacity \in Nat /\ ticket[t] \div MpmcCapacity \in Nat
        BY <1>0, TicketParts
      <4>2. turn[s] = (ticket[t] \div MpmcCapacity) * 2
        BY <1>4, <2>1, <4>1 DEF IsTurn, Awaited
      <4>3. turn[s] = (i \div MpmcCapacity) * 2 + 1
        BY <3>1 DEF IsFull
      <4> QED BY <4>1, <4>2, <4>3
    <3>3. Idx(i) \in Slots /\ storage[Idx(i)] = i
      BY <3>1, TicketParts DEF MpmcInv, StorageIsKept
    <3> QED BY <1>0, <2>2, <3>2, <3>3 DEF MpmcTypeOK
  <2>4. ASSUME NEW p \in Producers, pc'[p] = "passTurn"
        PROVE  storage'[Idx(ticket[p])] = ticket[p]
    <3>1. CASE p = t
      BY <1>0, <2>2, <3>1 DEF MpmcTypeOK
    <3>2. CASE p # t
      <4>1. p \in Threads \ {t} /\ pc[p] = "passTurn"
        BY <1>2, <2>4, <3>2 DEF Threads
      <4>2. Idx(ticket[p]) # s /\ ticket[p] \in Nat
        BY <1>0, <1>5, <4>1 DEF MpmcTypeOK
      <4>3. Idx(ticket[p]) \in Slots /\ storage[Idx(ticket[p])] = ticket[p]
        BY <4>1, <4>2, TicketParts DEF MpmcInv, StorageIsKept
      <4> QED BY <1>0, <2>2, <4>2, <4>3 DEF MpmcTypeOK
    <3> QED BY <3>1, <3>2
  <2>5. StorageIsKept'
    BY <2>3, <2>4 DEF StorageIsKept
  <2>6. PoppedIsTicket'
    BY <1>2, <2>1, <2>2 DEF MpmcInv, PoppedIsTicket, Threads
  <2> QED BY <1>1, <1>3, <2>5, <2>6 DEF MpmcInv
<1>7. CASE t \in Consumers
  <2>1. t \notin Producers
    BY <1>7, MPMCQueueAssumption
  <2>2. /\ storage' = [storage EXCEPT ![s] = NoElement]
        /\ popped' = [popped EXCEPT ![t] = storage[s]]
    BY <2>1
  <2>3. IsFull(ticket[t])
    BY <1>4, <1>7 DEF IsTurn, IsFull, Awaited
  <2>4. ~MovedOut(ticket[t])
    BY <1>2, <1>5 DEF MovedOut, Threads
  <2>5. storage[s] = ticket[t]
    BY <1>0, <2>3, <2>4 DEF MpmcInv, StorageIsKept
  <2>6. ASSUME NEW i \in Nat, IsFull(i)', ~MovedOut(i)' PROVE storage'[Idx(i)] = i
    <3>1. IsFull(i) /\ ~MovedOut(i) /\ i # ticket[t]
      BY <1>2, <1>7, <2>6 DEF IsFull, MovedOut, Threads
    <3>2. Idx(i) # s
      <4> SUFFICES ASSUME Idx(i) = s PROVE FALSE
        OBVIOUS
      <4>1. Awaited(t, i) = Awaited(t, ticket[t])
        BY <1>7, <2>3, <3>1 DEF IsFull, Awaited
      <4> QED BY <1>0, <3>1, <4>1, TurnNamesTicket
    <3>3. Idx(i) \in Slots /\ storage[Idx(i)] = i
      BY <3>1, TicketParts DEF MpmcInv, StorageIsKept
    <3> QED BY <1>0, <2>2, <3>2, <3>3 DEF MpmcTypeOK
  <2>7. ASSUME NEW p \in Producers, pc'[p] = "passTurn"
        PROVE  storage'[Idx(ticket[p])] = ticket[p]
    <3>1. p \in Threads \ {t} /\ pc[p] = "passTurn"
      BY <1>2, <2>1, <2>7 DEF Threads
    <3>2. Idx(ticket[p]) # s /\ ticket[p] \in Nat
      BY <1>0, <1>5, <3>1 DEF MpmcTypeOK
    <3>3. Idx(ticket[p]) \in Slots /\ storage[Idx(ticket[p])] = ticket[p]
      BY <3>1, <3>2, TicketParts DEF MpmcInv, StorageIsKept
    <3> QED BY <1>0, <2>2, <3>2, <3>3 DEF MpmcTypeOK
  <2>8. StorageIsKept'
    BY <2>6, <2>7 DEF StorageIsKept
  <2>9. PoppedIsTicket'
    BY <1>0, <1>2, <1>7, <2>2, <2>5 DEF MpmcInv, MpmcTypeOK, PoppedIsTicket, Threads
  <2> QED BY <1>1, <1>3, <2>8, <2>9 DEF MpmcInv
<1> QED BY <1>6, <1>7 DEF Threads

LEMMA PassTurnInv ==
    ASSUME MpmcInv, NEW t \in Threads, PassTurn(t)
    PROVE  MpmcInv'
<1> DEFINE s == Idx(ticket[t])
<1> USE DEF PassTurn, Goto
<1>0. /\ MpmcTypeOK /\ ticket[t] \in Nat /\ s \in Slots
      /\ Awaited(t, ticket[t]) \in Nat
      /\ \A u \in Threads : Counter(u)' = Counter(u)
  BY TicketParts, AwaitedType DEF MpmcInv, MpmcTypeOK, Counter
<1>1. MpmcTypeOK'
  BY <1>0 DEF MpmcTypeOK, MpmcPcs
<1>2. /\ pc[t] = "passTurn" /\ pc'[t] = "done"
      /\ \A u \in Threads \ {t} : pc'[u] = pc[u]
      /\ turn'[s] = Awaited(t, ticket[t]) + 1
      /\ \A r \in Slots \ {s} : turn'[r] = turn[r]
  BY <1>0 DEF MpmcTypeOK
<1>3. TicketsAreTaken' /\ TicketsAreOwnedOnce' /\ BusyWasSeen' /\ PoppedIsTicket'
  BY <1>0, <1>2 DEF MpmcInv, TicketsAreTaken, TicketsAreOwnedOnce, BusyWasSeen,
                    OwnsTicket, PoppedIsTicket, Threads
<1>4. TurnIsKept'
  <2> SUFFICES ASSUME NEW u \in Threads, HoldsTurn(u)' PROVE IsTurn(u)'
    BY DEF TurnIsKept
  <2>1. u # t /\ HoldsTurn(u)
    BY <1>0, <1>2 DEF HoldsTurn
  <2>2. Idx(ticket[u]) # s
    BY <1>2, <2>1, HolderIsAlone
  <2>3. Idx(ticket[u]) \in Slots
    BY <1>0, TicketParts DEF MpmcTypeOK
  <2> QED BY <1>2, <2>1, <2>2, <2>3 DEF MpmcInv, TurnIsKept, IsTurn, Awaited
<1>5. ASSUME NEW i \in Nat, IsFull(i)', ~MovedOut(i)' PROVE storage'[Idx(i)] = i
  <2>1. i \div MpmcCapacity \in Nat /\ ticket[t] \div MpmcCapacity \in Nat /\ Idx(i) \in Slots
    BY <1>0, TicketParts
  <2>2. CASE Idx(i) = s
    <3>1. (i \div MpmcCapacity) * 2 + 1 = Awaited(t, ticket[t]) + 1
      BY <1>2, <1>5, <2>2 DEF IsFull
    <3>2. t \notin Consumers /\ Awaited(t, i) = Awaited(t, ticket[t])
      BY <2>1, <3>1 DEF Awaited
    <3>3. i = ticket[t]
      BY <1>0, <2>2, <3>2, TurnNamesTicket
    <3> QED BY <1>2, <3>2, <3>3 DEF MpmcInv, StorageIsKept, Threads
  <2>3. CASE Idx(i) # s
    <3>1. IsFull(i)
      BY <1>2, <1>5, <2>1, <2>3 DEF IsFull
    <3>2. ~MovedOut(i)
      BY <1>2, <1>5, <2>3 DEF MovedOut, Threads
    <3> QED BY <3>1, <3>2 DEF MpmcInv, StorageIsKept
  <2> QED BY <2>2, <2>3
<1>6. StorageIsKept'
  BY <1>2, <1>5 DEF MpmcInv, StorageIsKept, Threads
<1> QED BY <1>1, <1>3, <1>4, <1>6 DEF MpmcInv

LEMMA MpmcStepInv == MpmcInv /\ [MpmcNext]_mpmcVars => MpmcInv'
<1> SUFFICES ASSUME MpmcInv, [MpmcNext]_mpmcVars PROVE MpmcInv'
  OBVIOUS
<1>1. ASSUME NEW t \in team, FetchAdd(t) \/ TryLoad(t) \/ Steps(t) PROVE MpmcInv'
  <2>1. t \in Threads
    BY MPMCQueueAssumption DEF MpmcInv, MpmcTypeOK, Threads
  <2> QED BY <1>1, <2>1, FetchAddInv, LocalStepInv, TryCasInv, UseInv, PassTurnInv DEF Steps
<1>2. CASE UNCHANGED mpmcVars
  <2>1. \A u \in Threads : Counter(u)' = Counter(u)
    BY <1>2 DEF mpmcVars, Counter
  <2> QED BY <1>2, <2>1
          DEF mpmcVars, MpmcInv, MpmcTypeOK, TicketsAreTaken, TicketsAreOwnedOnce,
              TurnIsKept, StorageIsKept, PoppedIsTicket, BusyWasSeen, OwnsTicket,
              HoldsTurn, IsTurn, Awaited, IsFull, MovedOut
<1> QED BY <1>1, <1>2 DEF MpmcNext

-----------------------------------------------------------------------------
(***************************************************************************)
(* The theorems.                                                           *)
(***************************************************************************)

\* The tickets, turns and elements of the queue stay in step, whatever the threads
\* do (MPMCQueue.h:165-267).
THEOREM MpmcInvariant == MpmcSpec => []MpmcInv
  BY MpmcInitInv, MpmcStepInv, PTL DEF MpmcSpec

\* The consumer with ticket k pops the element pushed with ticket k, and no two
\* threads are in one slot (MPMCQueue.h:169-174, 226-232).
THEOREM PopsItsTicketInvariant == MpmcSpec => []PopsItsTicket
  BY MpmcInvariant, InvGivesPopsItsTicket, PTL

\* try_push and try_pop fail only when the slot of the next ticket was not to be
\* had at a moment of the call (MPMCQueue.h:189-194, 246-251).
THEOREM FailsOnlyWhenBusyInvariant == MpmcSpec => []FailsOnlyWhenBusy
<1>1. MpmcInv => FailsOnlyWhenBusy
  BY DEF MpmcInv, BusyWasSeen, FailsOnlyWhenBusy
<1> QED BY <1>1, MpmcInvariant, PTL

-----------------------------------------------------------------------------
(***************************************************************************)
(* MutexQueue.                                                             *)
(***************************************************************************)
LEMMA MutexInitTypeOK == MutexInit => MutexTypeOK
  BY MutexQueueAssumption DEF MutexInit, MutexTypeOK, Callers, WriterPcs, ReaderPcs

LEMMA MutexInitInside == MutexInit => Inside
  BY MutexQueueAssumption DEF MutexInit, Inside, Callers

\* The head of a non-empty queue is an item, its tail a queue one item shorter.
LEMMA HeadTail ==
    ASSUME MutexTypeOK, q # <<>>
    PROVE  /\ Head(q) \in MutexData
           /\ Tail(q) \in Seq(MutexData)
           /\ Len(q) \in Nat
           /\ Len(Tail(q)) = Len(q) - 1
  BY HeadTailProperties, LenProperties DEF MutexTypeOK

LEMMA MutexTypeStep == MutexTypeOK /\ Inside /\ [MutexNext]_mutexVars => MutexTypeOK'
<1> SUFFICES ASSUME MutexTypeOK, Inside, [MutexNext]_mutexVars PROVE MutexTypeOK'
  OBVIOUS
<1> USE MutexQueueAssumption DEF Callers, WriterPcs, ReaderPcs
<1>1. ASSUME NEW t \in Writers, NEW d \in MutexData, WriteLock(t, d) PROVE MutexTypeOK'
  BY <1>1 DEF WriteLock, Acquire, MutexTypeOK
<1>2. ASSUME NEW t \in Writers, WritePush(t) PROVE MutexTypeOK'
  <2>1. data[t] \in MutexData /\ Len(q) < MaxLength
    BY <1>2 DEF WritePush, Inside
  <2>2. q' \in Seq(MutexData) /\ Len(q') = Len(q) + 1
    BY <1>2, <2>1, AppendProperties DEF WritePush, MutexTypeOK
  <2>3. Len(q') <= MaxLength
    BY <2>1, <2>2, LenProperties DEF MutexTypeOK
  <2> QED BY <1>2, <2>2, <2>3 DEF WritePush, MutexTypeOK
<1>3. ASSUME NEW t \in Readers, ReadLock(t) PROVE MutexTypeOK'
  BY <1>3 DEF ReadLock, Acquire, MutexTypeOK
<1>4. ASSUME NEW t \in Readers, ReadEmpty(t) PROVE MutexTypeOK'
  BY <1>4 DEF ReadEmpty, MutexTypeOK
<1>5. ASSUME NEW t \in Readers, ReadFront(t) PROVE MutexTypeOK'
  <2>1. Head(q) \in MutexData
    BY <1>5, HeadTail DEF ReadFront, Inside
  <2> QED BY <1>5, <2>1 DEF ReadFront, MutexTypeOK
<1>6. ASSUME NEW t \in Readers, ReadPop(t) PROVE MutexTypeOK'
  <2>1. q # <<>>
    BY <1>6 DEF ReadPop, Inside
  <2>2. q' \in Seq(MutexData) /\ Len(q') <= MaxLength
    BY <1>6, <2>1, HeadTail DEF ReadPop, MutexTypeOK
  <2> QED BY <1>6, <2>2 DEF ReadPop, MutexTypeOK
<1>7. ASSUME NEW t \in Callers, Unlock(t) PROVE MutexTypeOK'
  BY <1>7 DEF Unlock, MutexTypeOK
<1>8. CASE UNCHANGED mutexVars
  BY <1>8 DEF mutexVars, MutexTypeOK
<1> QED BY <1>1, <1>2, <1>3, <1>4, <1>5, <1>6, <1>7, <1>8 DEF MutexNext

LEMMA MutexInsideStep == MutexTypeOK /\ Inside /\ [MutexNext]_mutexVars => Inside'
<1> SUFFICES ASSUME MutexTypeOK, Inside, [MutexNext]_mutexVars PROVE Inside'
  OBVIOUS
<1> USE MutexQueueAssumption DEF Callers
<1>1. ASSUME NEW t \in Writers, NEW d \in MutexData, WriteLock(t, d) PROVE Inside'
  BY <1>1 DEF WriteLock, Acquire, MutexTypeOK, Inside
<1>2. ASSUME NEW t \in Writers, WritePush(t) PROVE Inside'
  <2>1. \A u \in Callers \ {t} : mutexPc[u] = "idle" /\ mutexPc'[u] = "idle"
    BY <1>2 DEF WritePush, MutexTypeOK, Inside
  <2>2. mutexPc'[t] = "unlock" /\ m' = t
    BY <1>2 DEF WritePush, MutexTypeOK, Inside
  <2> QED BY <2>1, <2>2 DEF Inside
<1>3. ASSUME NEW t \in Readers, ReadLock(t) PROVE Inside'
  BY <1>3 DEF ReadLock, Acquire, MutexTypeOK, Inside
<1>4. ASSUME NEW t \in Readers, ReadEmpty(t) PROVE Inside'
  BY <1>4 DEF ReadEmpty, MutexTypeOK, Inside
<1>5. ASSUME NEW t \in Readers, ReadFront(t) PROVE Inside'
  BY <1>5 DEF ReadFront, MutexTypeOK, Inside
<1>6. ASSUME NEW t \in Readers, ReadPop(t) PROVE Inside'
  <2>1. \A u \in Callers \ {t} : mutexPc[u] = "idle" /\ mutexPc'[u] = "idle"
    BY <1>6 DEF ReadPop, MutexTypeOK, Inside
  <2>2. mutexPc'[t] = "unlock" /\ m' = t
    BY <1>6 DEF ReadPop, MutexTypeOK, Inside
  <2> QED BY <2>1, <2>2 DEF Inside
<1>7. ASSUME NEW t \in Callers, Unlock(t) PROVE Inside'
  BY <1>7 DEF Unlock, MutexTypeOK, Inside
<1>8. CASE UNCHANGED mutexVars
  BY <1>8 DEF mutexVars, Inside
<1> QED BY <1>1, <1>2, <1>3, <1>4, <1>5, <1>6, <1>7, <1>8 DEF MutexNext

\* Every reachable state is well typed; in particular no pop() of an empty queue.
THEOREM MutexTypeCorrect == MutexSpec => []MutexTypeOK
  BY MutexInitTypeOK, MutexInitInside, MutexTypeStep, MutexInsideStep, PTL DEF MutexSpec

\* What a thread learns under the lock holds until it acts on it.
THEOREM InsideInvariant == MutexSpec => []Inside
  BY MutexInitTypeOK, MutexInitInside, MutexTypeStep, MutexInsideStep, PTL DEF MutexSpec

LEMMA MutexInitImplements == MutexInit => MutexFifo!Init
  BY MutexQueueAssumption DEF MutexInit, MutexFifo!Init, MutexItems, Callers

LEMMA MutexStepImplements ==
    ASSUME MutexTypeOK, Inside, Inside', [MutexNext]_mutexVars
    PROVE  [MutexFifo!Next]_(MutexFifo!vars)
<1> USE MutexQueueAssumption DEF Callers
<1>1. ASSUME NEW t \in Writers, NEW d \in MutexData, WriteLock(t, d)
      PROVE  UNCHANGED MutexFifo!vars
  BY <1>1 DEF WriteLock, MutexFifo!vars, MutexItems, MutexTypeOK
<1>2. ASSUME NEW t \in Writers, WritePush(t)
      PROVE  MutexFifo!Enqueue(data[t]) /\ data[t] \in MutexData
  <2>1. /\ mutexPc[t] = "push" /\ mutexPc'[t] = "unlock"
        /\ \A u \in Callers \ {t} : mutexPc[u] = "idle" /\ mutexPc'[u] = "idle"
    BY <1>2 DEF WritePush, MutexTypeOK, Inside
  <2>2. MutexItems = q /\ MutexItems' = q'
    BY <2>1 DEF MutexItems
  <2>3. Len(q) < MaxLength /\ data[t] \in MutexData
    BY <2>1 DEF Inside
  <2> QED BY <1>2, <2>2, <2>3 DEF WritePush, MutexFifo!Enqueue
<1>3. ASSUME NEW t \in Readers, ReadLock(t) PROVE UNCHANGED MutexFifo!vars
  BY <1>3 DEF ReadLock, MutexFifo!vars, MutexItems, MutexTypeOK
<1>4. ASSUME NEW t \in Readers, ReadEmpty(t) PROVE UNCHANGED MutexFifo!vars
  BY <1>4 DEF ReadEmpty, MutexFifo!vars, MutexItems, MutexTypeOK
<1>5. ASSUME NEW t \in Readers, ReadFront(t) PROVE MutexFifo!Dequeue
  <2>1. /\ mutexPc[t] = "front" /\ mutexPc'[t] = "pop"
        /\ \A u \in Callers \ {t} : mutexPc[u] = "idle"
    BY <1>5 DEF ReadFront, MutexTypeOK, Inside
  <2>2. MutexItems = q /\ MutexItems' = Tail(q) /\ q # <<>>
    BY <1>5, <2>1 DEF MutexItems, Inside, ReadFront
  <2> QED BY <1>5, <2>2 DEF ReadFront, MutexFifo!Dequeue
<1>6. ASSUME NEW t \in Readers, ReadPop(t) PROVE UNCHANGED MutexFifo!vars
  <2>1. /\ mutexPc[t] = "pop" /\ mutexPc'[t] = "unlock"
        /\ \A u \in Callers \ {t} : mutexPc'[u] = "idle"
    BY <1>6 DEF ReadPop, MutexTypeOK, Inside
  <2>2. MutexItems = Tail(q) /\ MutexItems' = q'
    BY <2>1 DEF MutexItems
  <2> QED BY <1>6, <2>2 DEF ReadPop, MutexFifo!vars
<1>7. ASSUME NEW t \in Callers, Unlock(t) PROVE UNCHANGED MutexFifo!vars
  BY <1>7 DEF Unlock, MutexFifo!vars, MutexItems, MutexTypeOK
<1>8. CASE UNCHANGED mutexVars
  BY <1>8 DEF mutexVars, MutexFifo!vars, MutexItems
<1> QED BY <1>1, <1>2, <1>3, <1>4, <1>5, <1>6, <1>7, <1>8 DEF MutexNext, MutexFifo!Next

\* The locked queue is a FIFO for any number of writers and readers.
THEOREM MutexQueueImplementation == MutexSpec => MutexImplementsFifo
  BY MutexInitTypeOK, MutexInitInside, MutexTypeStep, MutexInsideStep, MutexInitImplements,
     MutexStepImplements, PTL
     DEF MutexSpec, MutexImplementsFifo, MutexFifo!Spec

-----------------------------------------------------------------------------
\* Sequences of one length with the same elements are one.
LEMMA SameSeq ==
    ASSUME NEW S, NEW s \in Seq(S), NEW T, NEW t \in Seq(T), Len(s) = Len(t),
           \A k \in 1 .. Len(s) : s[k] = t[k]
    PROVE  s = t
  OBVIOUS

-----------------------------------------------------------------------------
(***************************************************************************)
(* SPSCQueue: the inductive invariant.                                     *)
(***************************************************************************)
SpscTypeOK ==
    /\ capacity_ \in {SlotsFor(c) : c \in Capacities}
    /\ slots_ \in [Indices -> SpscData \cup {NoObject}]
    /\ writeIdx_ \in Indices /\ readIdx_ \in Indices
    /\ readIdxCache_ \in Indices /\ writeIdxCache_ \in Indices
    /\ emplacePc \in {"idle", "load", "construct", "store"}
    /\ emplaceBlocks \in BOOLEAN
    /\ emplaceValue \in SpscData \cup {NoObject}
    /\ popPc \in {"idle", "store"}
    /\ atFront \in SpscData \cup {NoObject}
    /\ spscOut \in SpscData \cup {NoObject}

\* From the read index the producer knows, the indices follow one another on one
\* lap: what is free for sure, what was read, what the consumer knows of, what was
\* written.
IndicesInOrder ==
    /\ Distance(readIdxCache_, readIdx_) <= Distance(readIdxCache_, writeIdxCache_)
    /\ Distance(readIdxCache_, writeIdxCache_) <= Distance(readIdxCache_, writeIdx_)

\* What each thread has learnt holds until it acts on it.
InsideCalls ==
    /\ emplacePc # "idle" => emplaceValue \in SpscData
    /\ emplacePc \in {"construct", "store"} => NextIdx(writeIdx_) # readIdxCache_
    /\ emplacePc = "store" => slots_[writeIdx_] = emplaceValue
    /\ popPc = "store" => readIdx_ # writeIdxCache_ /\ atFront = NoObject
    /\ atFront # NoObject => readIdx_ # writeIdxCache_ /\ slots_[readIdx_] = atFront

SpscInv == SpscTypeOK /\ IndicesInOrder /\ InsideCalls

LEMMA CapacityType ==
    ASSUME capacity_ \in {SlotsFor(c) : c \in Capacities}
    PROVE  capacity_ \in Nat /\ capacity_ >= 2
  BY SPSCQueueAssumption DEF SlotsFor

LEMMA DistanceCases ==
    ASSUME capacity_ \in Nat, capacity_ >= 2, NEW i \in Indices, NEW j \in Indices
    PROVE  /\ Distance(i, j) = IF i <= j THEN j - i ELSE j + capacity_ - i
           /\ Distance(i, j) \in Indices
  BY ModCases DEF Distance, Indices

LEMMA NextIdxCases ==
    ASSUME capacity_ \in Nat, capacity_ >= 2, NEW i \in Indices
    PROVE  /\ NextIdx(i) \in Indices
           /\ NextIdx(i) = (i + 1) % capacity_
           /\ NextIdx(i) = IF i + 1 = capacity_ THEN 0 ELSE i + 1
  BY ModCases DEF NextIdx, Indices

\* A loaded index lies between the one known and the newest.
LEMMA LoadsBetween ==
    ASSUME capacity_ \in Nat, capacity_ >= 2,
           NEW known \in Indices, NEW newest \in Indices, NEW i \in Loads(known, newest)
    PROVE  i \in Indices /\ Distance(known, i) <= Distance(known, newest)
<1>1. PICK k \in 0 .. Distance(known, newest) : i = (known + k) % capacity_
  BY DEF Loads
<1>2. Distance(known, newest) \in Indices
  BY DistanceCases
<1>3. i = IF known + k < capacity_ THEN known + k ELSE known + k - capacity_
  BY <1>1, <1>2, ModCases DEF Indices
<1>4. i \in Indices
  BY <1>1, <1>2, <1>3 DEF Indices
<1>5. Distance(known, i) = IF known <= i THEN i - known ELSE i + capacity_ - known
  BY <1>4, DistanceCases
<1>6. Distance(known, i) = k
  BY <1>1, <1>2, <1>3, <1>4, <1>5 DEF Indices
<1> QED BY <1>1, <1>2, <1>4, <1>6 DEF Indices

\* Two indices on the lap that begins at a base: the distance between them.
LEMMA DistanceFromBase ==
    ASSUME capacity_ \in Nat, capacity_ >= 2,
           NEW base \in Indices, NEW i \in Indices, NEW j \in Indices,
           Distance(base, i) <= Distance(base, j)
    PROVE  Distance(i, j) = Distance(base, j) - Distance(base, i)
<1>1. /\ Distance(base, i) = IF base <= i THEN i - base ELSE i + capacity_ - base
      /\ Distance(base, j) = IF base <= j THEN j - base ELSE j + capacity_ - base
      /\ Distance(i, j) = IF i <= j THEN j - i ELSE j + capacity_ - i
  BY DistanceCases
<1> QED BY <1>1 DEF Indices

\* An index further on, reached from another on the same lap.
LEMMA DistanceAdds ==
    ASSUME capacity_ \in Nat, capacity_ >= 2,
           NEW base \in Indices, NEW i \in Indices, NEW j \in Indices,
           Distance(base, i) + Distance(i, j) < capacity_
    PROVE  Distance(base, j) = Distance(base, i) + Distance(i, j)
<1>1. /\ Distance(base, i) = IF base <= i THEN i - base ELSE i + capacity_ - base
      /\ Distance(base, j) = IF base <= j THEN j - base ELSE j + capacity_ - base
      /\ Distance(i, j) = IF i <= j THEN j - i ELSE j + capacity_ - i
  BY DistanceCases
<1> QED BY <1>1 DEF Indices

\* Equal distances are those of equal indices.
LEMMA DistanceTellsApart ==
    ASSUME capacity_ \in Nat, capacity_ >= 2,
           NEW base \in Indices, NEW i \in Indices, NEW j \in Indices, i # j
    PROVE  Distance(base, i) # Distance(base, j)
<1>1. /\ Distance(base, i) = IF base <= i THEN i - base ELSE i + capacity_ - base
      /\ Distance(base, j) = IF base <= j THEN j - base ELSE j + capacity_ - base
  BY DistanceCases
<1> QED BY <1>1 DEF Indices

\* The next index is one further from the base, unless it is the base.
LEMMA DistanceOfNext ==
    ASSUME capacity_ \in Nat, capacity_ >= 2,
           NEW base \in Indices, NEW i \in Indices, NextIdx(i) # base
    PROVE  /\ NextIdx(i) \in Indices
           /\ Distance(base, NextIdx(i)) = Distance(base, i) + 1
<1>1. NextIdx(i) \in Indices /\ NextIdx(i) = IF i + 1 = capacity_ THEN 0 ELSE i + 1
  BY NextIdxCases
<1>2. /\ Distance(base, i) = IF base <= i THEN i - base ELSE i + capacity_ - base
      /\ Distance(base, NextIdx(i)) = IF base <= NextIdx(i) THEN NextIdx(i) - base
                                      ELSE NextIdx(i) + capacity_ - base
  BY <1>1, DistanceCases
<1> QED BY <1>1, <1>2 DEF Indices

\* Distances are numbers, and zero from an index to itself.
LEMMA DistanceType ==
    ASSUME capacity_ \in Nat, capacity_ >= 2, NEW i \in Indices, NEW j \in Indices
    PROVE  /\ Distance(i, j) \in Nat /\ Distance(i, j) < capacity_
           /\ Distance(i, i) = 0
<1>1. /\ Distance(i, j) = IF i <= j THEN j - i ELSE j + capacity_ - i
      /\ Distance(i, i) = IF i <= i THEN i - i ELSE i + capacity_ - i
  BY DistanceCases
<1> QED BY <1>1 DEF Indices

LEMMA SpscInitInv == SpscInit => SpscInv
<1> SUFFICES ASSUME SpscInit PROVE SpscInv
  OBVIOUS
<1>1. capacity_ \in Nat /\ capacity_ >= 2 /\ 0 \in Indices
  BY CapacityType DEF SpscInit, Indices
<1>2. SpscTypeOK
  BY <1>1 DEF SpscInit, SpscTypeOK, Indices
<1> QED BY <1>1, <1>2, DistanceCases
        DEF SpscInit, SpscInv, IndicesInOrder, InsideCalls

-----------------------------------------------------------------------------
(***************************************************************************)
(* SPSCQueue: each step preserves the invariant.                           *)
(***************************************************************************)
LEMMA EmplaceInv ==
    ASSUME SpscInv,
           \/ \E d \in SpscData, blocks \in BOOLEAN : EmplaceBegin(d, blocks)
           \/ EmplaceSteps
    PROVE  SpscInv'
<1>0. /\ SpscTypeOK /\ capacity_ \in Nat /\ capacity_ >= 2 /\ capacity_' = capacity_
      /\ Indices' = Indices
  BY CapacityType DEF SpscInv, SpscTypeOK, EmplaceBegin, EmplaceSteps, EmplaceLoad,
                      EmplaceConstruct, EmplaceStore, Indices
<1>1. ASSUME NEW d \in SpscData, NEW blocks \in BOOLEAN, EmplaceBegin(d, blocks)
      PROVE  SpscInv'
  BY <1>0, <1>1 DEF EmplaceBegin, popVars, SpscInv, SpscTypeOK, IndicesInOrder,
                    InsideCalls, Distance, NextIdx
<1>2. ASSUME NEW i \in Indices, EmplaceLoad(i) PROVE SpscInv'
  <2>1. Distance(readIdxCache_, i) <= Distance(readIdxCache_, readIdx_)
    BY <1>0, <1>2, LoadsBetween DEF EmplaceLoad, SpscTypeOK
  <2>2. ASSUME NEW x \in Indices,
               Distance(readIdxCache_, i) <= Distance(readIdxCache_, x)
        PROVE  Distance(i, x) = Distance(readIdxCache_, x) - Distance(readIdxCache_, i)
    BY <1>0, <2>2, DistanceFromBase DEF SpscTypeOK
  <2>3. \A x, y \in Indices : Distance(x, y) \in Nat /\ Distance(x, y)' = Distance(x, y)
    BY <1>0, DistanceCases DEF Indices, Distance
  <2>4. IndicesInOrder'
    BY <1>0, <1>2, <2>1, <2>2, <2>3
       DEF EmplaceLoad, popVars, SpscInv, SpscTypeOK, IndicesInOrder, Distance
  <2> QED BY <1>0, <1>2, <2>4
          DEF EmplaceLoad, popVars, SpscInv, SpscTypeOK, InsideCalls, NextIdx
<1>3. CASE EmplaceConstruct
  <2>1. ASSUME atFront # NoObject PROVE readIdx_ # writeIdx_
    <3>1. readIdx_ # writeIdxCache_
      BY <2>1 DEF SpscInv, InsideCalls
    <3> QED BY <1>0, <3>1, DistanceTellsApart, DistanceType
            DEF SpscInv, SpscTypeOK, IndicesInOrder
  <2> QED BY <1>0, <1>3, <2>1
          DEF EmplaceConstruct, popVars, SpscInv, SpscTypeOK, IndicesInOrder,
              InsideCalls, Distance, NextIdx
<1>4. CASE EmplaceStore
  <2>1. NextIdx(writeIdx_) # readIdxCache_ /\ NextIdx(writeIdx_) \in Indices
    BY <1>0, <1>4, NextIdxCases DEF EmplaceStore, SpscInv, SpscTypeOK, InsideCalls
  <2>2. Distance(readIdxCache_, NextIdx(writeIdx_)) = Distance(readIdxCache_, writeIdx_) + 1
    BY <1>0, <2>1, DistanceOfNext DEF SpscTypeOK
  <2>3. \A x, y \in Indices : Distance(x, y) \in Nat /\ Distance(x, y)' = Distance(x, y)
    BY <1>0, DistanceCases DEF Indices, Distance
  <2>4. IndicesInOrder'
    BY <1>0, <1>4, <2>1, <2>2, <2>3
       DEF EmplaceStore, popVars, SpscInv, SpscTypeOK, IndicesInOrder, Distance
  <2> QED BY <1>0, <1>4, <2>1, <2>4
          DEF EmplaceStore, popVars, SpscInv, SpscTypeOK, InsideCalls
<1> QED BY <1>1, <1>2, <1>3, <1>4 DEF EmplaceSteps

LEMMA PopInv ==
    ASSUME SpscInv,
           FrontCached \/ (\E i \in Indices : FrontLoad(i)) \/ PopDestroy \/ PopStore
    PROVE  SpscInv'
<1>0. /\ SpscTypeOK /\ capacity_ \in Nat /\ capacity_ >= 2 /\ capacity_' = capacity_
      /\ Indices' = Indices
  BY CapacityType DEF SpscInv, SpscTypeOK, FrontCached, FrontLoad, PopDestroy, PopStore,
                      Indices
<1>1. CASE FrontCached
  BY <1>0, <1>1 DEF FrontCached, emplaceVars, SpscInv, SpscTypeOK, IndicesInOrder,
                    InsideCalls, Distance, NextIdx
<1>2. ASSUME NEW i \in Indices, FrontLoad(i) PROVE SpscInv'
  <2>1. Distance(writeIdxCache_, i) <= Distance(writeIdxCache_, writeIdx_)
    BY <1>0, <1>2, LoadsBetween DEF FrontLoad, SpscTypeOK
  <2>2. /\ Distance(readIdxCache_, writeIdxCache_) <= Distance(readIdxCache_, i)
        /\ Distance(readIdxCache_, i) <= Distance(readIdxCache_, writeIdx_)
    <3>1. Distance(writeIdxCache_, writeIdx_) =
              Distance(readIdxCache_, writeIdx_) - Distance(readIdxCache_, writeIdxCache_)
      BY <1>0, DistanceFromBase DEF SpscInv, SpscTypeOK, IndicesInOrder
    <3>2. /\ Distance(readIdxCache_, writeIdx_) \in Nat
          /\ Distance(readIdxCache_, writeIdx_) < capacity_
          /\ Distance(readIdxCache_, writeIdxCache_) \in Nat
          /\ Distance(writeIdxCache_, i) \in Nat
      BY <1>0, DistanceType DEF SpscTypeOK
    <3>3. Distance(readIdxCache_, i) =
              Distance(readIdxCache_, writeIdxCache_) + Distance(writeIdxCache_, i)
      BY <1>0, <2>1, <3>1, <3>2, DistanceAdds DEF SpscTypeOK
    <3> QED BY <2>1, <3>1, <3>2, <3>3
  <2>3. \A x, y \in Indices : Distance(x, y) \in Nat /\ Distance(x, y)' = Distance(x, y)
    BY <1>0, DistanceCases DEF Indices, Distance
  <2>4. IndicesInOrder'
    BY <1>0, <1>2, <2>2, <2>3
       DEF FrontLoad, emplaceVars, SpscInv, SpscTypeOK, IndicesInOrder, Distance
  <2> QED BY <1>0, <1>2, <2>4
          DEF FrontLoad, emplaceVars, SpscInv, SpscTypeOK, InsideCalls, NextIdx
<1>3. CASE PopDestroy
  <2>1. readIdx_ # writeIdx_
    <3>1. readIdx_ # writeIdxCache_
      BY <1>3 DEF PopDestroy, SpscInv, InsideCalls
    <3> QED BY <1>0, <3>1, DistanceTellsApart, DistanceType
            DEF SpscInv, SpscTypeOK, IndicesInOrder
  <2> QED BY <1>0, <1>3, <2>1
          DEF PopDestroy, emplaceVars, SpscInv, SpscTypeOK, IndicesInOrder,
              InsideCalls, Distance, NextIdx
<1>4. CASE PopStore
  <2>1. NextIdx(readIdx_) \in Indices /\ readIdx_ # writeIdxCache_
    BY <1>0, <1>4, NextIdxCases DEF PopStore, SpscInv, SpscTypeOK, InsideCalls
  <2>2. Distance(readIdxCache_, NextIdx(readIdx_)) <= Distance(readIdxCache_, writeIdxCache_)
    <3>1. CASE NextIdx(readIdx_) = readIdxCache_
      BY <1>0, <3>1, DistanceType DEF SpscTypeOK
    <3>2. CASE NextIdx(readIdx_) # readIdxCache_
      <4>1. Distance(readIdxCache_, readIdx_) # Distance(readIdxCache_, writeIdxCache_)
        BY <1>0, <2>1, DistanceTellsApart DEF SpscTypeOK
      <4>2. /\ Distance(readIdxCache_, readIdx_) \in Nat
            /\ Distance(readIdxCache_, writeIdxCache_) \in Nat
        BY <1>0, DistanceType DEF SpscTypeOK
      <4>3. Distance(readIdxCache_, NextIdx(readIdx_)) = Distance(readIdxCache_, readIdx_) + 1
        BY <1>0, <3>2, DistanceOfNext DEF SpscTypeOK
      <4> QED BY <4>1, <4>2, <4>3 DEF SpscInv, IndicesInOrder
    <3> QED BY <3>1, <3>2
  <2>3. \A x, y \in Indices : Distance(x, y) \in Nat /\ Distance(x, y)' = Distance(x, y)
    BY <1>0, DistanceCases DEF Indices, Distance
  <2>4. IndicesInOrder'
    BY <1>0, <1>4, <2>1, <2>2, <2>3
       DEF PopStore, emplaceVars, SpscInv, SpscTypeOK, IndicesInOrder, Distance
  <2> QED BY <1>0, <1>4, <2>1, <2>4
          DEF PopStore, emplaceVars, SpscInv, SpscTypeOK, InsideCalls, NextIdx
<1> QED BY <1>1, <1>2, <1>3, <1>4

LEMMA SpscStepInv == SpscInv /\ [SpscNext]_spscVars => SpscInv'
<1> SUFFICES ASSUME SpscInv, [SpscNext]_spscVars PROVE SpscInv'
  OBVIOUS
<1>1. CASE UNCHANGED spscVars
  BY <1>1 DEF spscVars, emplaceVars, popVars, SpscInv, SpscTypeOK, IndicesInOrder,
              InsideCalls, Distance, NextIdx, Indices
<1> QED BY <1>1, EmplaceInv, PopInv DEF SpscNext

-----------------------------------------------------------------------------
(***************************************************************************)
(* SPSCQueue implements a FIFO of as many elements as asked for.           *)
(***************************************************************************)
SpscValues == SpscData \cup {NoObject}
FirstIdx == IF popPc = "store" THEN NextIdx(readIdx_) ELSE readIdx_

\* Walking k slots on from an index, short of a lap, and walking to another index.
LEMMA WalkIdx ==
    ASSUME capacity_ \in Nat, capacity_ >= 2, NEW i \in Indices,
           NEW k \in Nat, k < capacity_
    PROVE  /\ (i + k) % capacity_ \in Indices
           /\ Distance(i, (i + k) % capacity_) = k
<1> DEFINE j == (i + k) % capacity_
<1>1. j = IF i + k < capacity_ THEN i + k ELSE i + k - capacity_
  BY ModCases DEF Indices
<1>2. j \in Indices
  BY <1>1 DEF Indices
<1>3. Distance(i, j) = IF i <= j THEN j - i ELSE j + capacity_ - i
  BY <1>2, DistanceCases
<1> QED BY <1>1, <1>2, <1>3 DEF Indices

LEMMA WalkDistance ==
    ASSUME capacity_ \in Nat, capacity_ >= 2, NEW i \in Indices, NEW j \in Indices
    PROVE  (i + Distance(i, j)) % capacity_ = j
<1>1. Distance(i, j) = IF i <= j THEN j - i ELSE j + capacity_ - i
  BY DistanceCases
<1> DEFINE x == i + Distance(i, j)
<1>2. x \in 0 .. 2 * capacity_ - 1
  BY <1>1 DEF Indices
<1>3. x % capacity_ = IF x < capacity_ THEN x ELSE x - capacity_
  BY <1>2, ModCases
<1> QED BY <1>1, <1>3 DEF Indices

\* One slot further on, the k-th slot is the one that was the next.
LEMMA WalkFromNext ==
    ASSUME capacity_ \in Nat, capacity_ >= 2, NEW i \in Indices,
           NEW k \in Nat, k + 1 < capacity_
    PROVE  (NextIdx(i) + k) % capacity_ = (i + (k + 1)) % capacity_
<1>1. NextIdx(i) \in Indices /\ NextIdx(i) = IF i + 1 = capacity_ THEN 0 ELSE i + 1
  BY NextIdxCases
<1>2. (NextIdx(i) + k) % capacity_ =
          IF NextIdx(i) + k < capacity_ THEN NextIdx(i) + k ELSE NextIdx(i) + k - capacity_
  BY <1>1, ModCases DEF Indices
<1>3. (i + (k + 1)) % capacity_ =
          IF i + (k + 1) < capacity_ THEN i + (k + 1) ELSE i + (k + 1) - capacity_
  BY ModCases DEF Indices
<1> QED BY <1>1, <1>2, <1>3 DEF Indices

\* The abstract queue is a sequence as long as the distance of the indices.
SpscShape ==
    /\ FirstIdx \in Indices
    /\ Distance(readIdxCache_, FirstIdx) <= Distance(readIdxCache_, writeIdx_)
    /\ SpscItems \in Seq(SpscValues)
    /\ Len(SpscItems) = Distance(FirstIdx, writeIdx_)
    /\ \A k \in 1 .. Len(SpscItems) :
           SpscItems[k] = slots_[(FirstIdx + (k - 1)) % capacity_]

LEMMA SpscShapeHolds == SpscInv => SpscShape
<1> SUFFICES ASSUME SpscInv PROVE SpscShape
  OBVIOUS
<1>0. SpscTypeOK /\ capacity_ \in Nat /\ capacity_ >= 2
  BY CapacityType DEF SpscInv, SpscTypeOK
<1>1. FirstIdx \in Indices
  BY <1>0, NextIdxCases DEF FirstIdx, SpscTypeOK
<1>2. Distance(readIdxCache_, FirstIdx) <= Distance(readIdxCache_, writeIdx_)
  <2>0. /\ Distance(readIdxCache_, readIdx_) \in Nat
        /\ Distance(readIdxCache_, writeIdxCache_) \in Nat
        /\ Distance(readIdxCache_, writeIdx_) \in Nat
    BY <1>0, DistanceType DEF SpscTypeOK
  <2>1. CASE popPc # "store"
    BY <2>0, <2>1 DEF FirstIdx, SpscInv, IndicesInOrder
  <2>2. CASE popPc = "store" /\ NextIdx(readIdx_) = readIdxCache_
    BY <1>0, <2>0, <2>2, DistanceType DEF FirstIdx, SpscTypeOK
  <2>3. CASE popPc = "store" /\ NextIdx(readIdx_) # readIdxCache_
    <3>1. Distance(readIdxCache_, FirstIdx) = Distance(readIdxCache_, readIdx_) + 1
      BY <1>0, <2>3, DistanceOfNext DEF FirstIdx, SpscTypeOK
    <3>2. Distance(readIdxCache_, readIdx_) # Distance(readIdxCache_, writeIdxCache_)
      BY <1>0, <2>3, DistanceTellsApart DEF SpscInv, SpscTypeOK, InsideCalls
    <3> QED BY <2>0, <3>1, <3>2 DEF SpscInv, IndicesInOrder
  <2> QED BY <2>1, <2>2, <2>3
<1> DEFINE n == Distance(FirstIdx, writeIdx_)
           f == [k \in 1 .. n |-> slots_[(FirstIdx + k - 1) % capacity_]]
<1>3. n \in Nat /\ n < capacity_
  BY <1>0, <1>1, DistanceType DEF SpscTypeOK
<1>4. SpscItems = f
  BY DEF SpscItems, FirstIdx
<1>5. ASSUME NEW k \in 1 .. n
      PROVE  /\ (FirstIdx + k - 1) % capacity_ = (FirstIdx + (k - 1)) % capacity_
             /\ slots_[(FirstIdx + (k - 1)) % capacity_] \in SpscValues
  <2>1. FirstIdx + k - 1 = FirstIdx + (k - 1) /\ k - 1 \in Nat /\ k - 1 < capacity_
    BY <1>0, <1>1, <1>3 DEF Indices
  <2>2. (FirstIdx + (k - 1)) % capacity_ \in Indices
    BY <1>0, <1>1, <2>1, WalkIdx
  <2> QED BY <1>0, <2>1, <2>2 DEF SpscTypeOK, SpscValues
<1>6. f \in Seq(SpscValues) /\ Len(f) = n
  BY <1>3, <1>5
<1> HIDE DEF n
<1>7. \A k \in 1 .. n : f[k] = slots_[(FirstIdx + (k - 1)) % capacity_]
  BY <1>5
<1> QED BY <1>1, <1>2, <1>4, <1>6, <1>7 DEF n, SpscShape


\* The element constructed is not inside yet.
LEMMA EmplaceConstructStutters ==
    ASSUME SpscInv, SpscInv', EmplaceConstruct
    PROVE  SpscItems' = SpscItems
<1> DEFINE n == Distance(FirstIdx, writeIdx_)
<1>0. SpscTypeOK /\ capacity_ \in Nat /\ capacity_ >= 2 /\ capacity_' = capacity_
  BY CapacityType DEF SpscInv, SpscTypeOK, EmplaceConstruct
<1>1. SpscShape /\ SpscShape'
  BY SpscShapeHolds, PTL
<1>2. FirstIdx' = FirstIdx /\ writeIdx_' = writeIdx_
  BY DEF EmplaceConstruct, popVars, FirstIdx, NextIdx
<1>3. n' = n /\ n \in Nat /\ n < capacity_
  BY <1>0, <1>1, <1>2, DistanceType DEF Distance, SpscTypeOK, SpscShape
<1> HIDE DEF n
<1>4. ASSUME NEW k \in 1 .. n PROVE SpscItems'[k] = SpscItems[k]
  <2>1. k - 1 \in Nat /\ k - 1 < n /\ k - 1 < capacity_
    BY <1>0, <1>3
  <2>2. /\ (FirstIdx + (k - 1)) % capacity_ \in Indices
        /\ (FirstIdx + (k - 1)) % capacity_ # writeIdx_
    BY <1>0, <1>1, <2>1, WalkIdx DEF SpscShape, n
  <2>3. slots_'[(FirstIdx + (k - 1)) % capacity_] = slots_[(FirstIdx + (k - 1)) % capacity_]
    BY <1>0, <2>2 DEF EmplaceConstruct, SpscTypeOK
  <2> QED BY <1>0, <1>1, <1>2, <1>3, <2>3 DEF SpscShape, n
<1>5. /\ SpscItems \in Seq(SpscValues) /\ SpscItems' \in Seq(SpscValues)
      /\ Len(SpscItems) = n /\ Len(SpscItems') = n
  BY <1>1, <1>3 DEF SpscShape, SpscValues, n
<1> QED BY <1>3, <1>4, <1>5, SameSeq

\* The store to writeIdx_ puts it inside.
LEMMA EmplaceStoreEnqueues ==
    ASSUME SpscInv, SpscInv', EmplaceStore
    PROVE  SpscFifo!Enqueue(emplaceValue) /\ emplaceValue \in SpscData
<1> DEFINE n == Distance(FirstIdx, writeIdx_)
<1>0. SpscTypeOK /\ capacity_ \in Nat /\ capacity_ >= 2 /\ capacity_' = capacity_
  BY CapacityType DEF SpscInv, SpscTypeOK, EmplaceStore
<1>1. SpscShape /\ SpscShape'
  BY SpscShapeHolds, PTL
<1>2. /\ FirstIdx' = FirstIdx /\ slots_' = slots_ /\ spscOut' = spscOut
      /\ writeIdx_' = NextIdx(writeIdx_)
  BY DEF EmplaceStore, popVars, FirstIdx, NextIdx
<1>3. /\ slots_[writeIdx_] = emplaceValue /\ emplaceValue \in SpscData
      /\ NextIdx(writeIdx_) # readIdxCache_
  BY DEF EmplaceStore, SpscInv, InsideCalls
<1>4. /\ n \in Nat
      /\ n = Distance(readIdxCache_, writeIdx_) - Distance(readIdxCache_, FirstIdx)
      /\ Distance(readIdxCache_, writeIdx_) \in Nat /\ Distance(readIdxCache_, FirstIdx) \in Nat
  BY <1>0, <1>1, DistanceType, DistanceFromBase DEF SpscTypeOK, SpscShape
<1>5. /\ NextIdx(writeIdx_) \in Indices
      /\ Distance(readIdxCache_, NextIdx(writeIdx_)) = Distance(readIdxCache_, writeIdx_) + 1
      /\ Distance(readIdxCache_, NextIdx(writeIdx_)) < capacity_
  BY <1>0, <1>3, DistanceOfNext, DistanceType DEF SpscTypeOK
<1>6. n < capacity_ - 1
  BY <1>0, <1>4, <1>5
<1>7. n' = n + 1
  <2>1. n' = Distance(FirstIdx, NextIdx(writeIdx_))
    BY <1>0, <1>2 DEF Distance
  <2>2. Distance(readIdxCache_, FirstIdx) <= Distance(readIdxCache_, NextIdx(writeIdx_))
    BY <1>1, <1>4, <1>5 DEF SpscShape
  <2> QED BY <1>0, <1>1, <1>4, <1>5, <2>1, <2>2, DistanceFromBase DEF SpscTypeOK, SpscShape
<1>8. (FirstIdx + n) % capacity_ = writeIdx_
  BY <1>0, <1>1, WalkDistance DEF SpscTypeOK, SpscShape
<1>9. /\ SpscItems \in Seq(SpscValues) /\ SpscItems' \in Seq(SpscValues)
      /\ Len(SpscItems) = n /\ Len(SpscItems') = n + 1
      /\ \A k \in 1 .. n : SpscItems[k] = slots_[(FirstIdx + (k - 1)) % capacity_]
      /\ \A k \in 1 .. n + 1 : SpscItems'[k] = slots_[(FirstIdx + (k - 1)) % capacity_]
  BY <1>0, <1>1, <1>2, <1>7 DEF SpscShape, SpscValues
<1> HIDE DEF n
<1>10. SpscItems'[n + 1] = emplaceValue
  BY <1>3, <1>4, <1>8, <1>9
<1>11. SpscItems' = Append(SpscItems, emplaceValue)
  <2>1. /\ Append(SpscItems, emplaceValue) \in Seq(SpscValues)
        /\ Len(Append(SpscItems, emplaceValue)) = n + 1
        /\ \A k \in 1 .. n : Append(SpscItems, emplaceValue)[k] = SpscItems[k]
        /\ Append(SpscItems, emplaceValue)[n + 1] = emplaceValue
    BY <1>3, <1>4, <1>9, AppendProperties DEF SpscValues
  <2>2. \A k \in 1 .. n + 1 : SpscItems'[k] = Append(SpscItems, emplaceValue)[k]
    BY <1>4, <1>9, <1>10, <2>1
  <2> QED BY <1>9, <2>1, <2>2, SameSeq
<1> QED BY <1>0, <1>2, <1>3, <1>6, <1>9, <1>11 DEF SpscFifo!Enqueue

\* Destroying the front object takes it out.
LEMMA PopDestroyDequeues ==
    ASSUME SpscInv, SpscInv', PopDestroy
    PROVE  SpscFifo!Dequeue
<1> DEFINE n == Distance(readIdx_, writeIdx_)
<1>0. SpscTypeOK /\ capacity_ \in Nat /\ capacity_ >= 2 /\ capacity_' = capacity_
  BY CapacityType DEF SpscInv, SpscTypeOK, PopDestroy
<1>1. SpscShape /\ SpscShape'
  BY SpscShapeHolds, PTL
<1>2. /\ FirstIdx = readIdx_ /\ FirstIdx' = NextIdx(readIdx_)
      /\ writeIdx_' = writeIdx_ /\ spscOut' = slots_[readIdx_]
      /\ slots_' = [slots_ EXCEPT ![readIdx_] = NoObject]
  BY DEF PopDestroy, emplaceVars, FirstIdx, NextIdx
<1>3. readIdx_ # writeIdx_
  <2>1. readIdx_ # writeIdxCache_
    BY DEF PopDestroy, SpscInv, InsideCalls
  <2> QED BY <1>0, <2>1, DistanceTellsApart, DistanceType DEF SpscInv, SpscTypeOK, IndicesInOrder
<1>4. n \in Nat /\ n < capacity_ /\ n # 0
  BY <1>0, <1>3, DistanceType, DistanceTellsApart DEF SpscTypeOK
<1>5. n' = n /\ Distance(FirstIdx, writeIdx_)' = n - 1
  <2>1. Distance(FirstIdx, writeIdx_)' = Distance(NextIdx(readIdx_), writeIdx_)
    BY <1>0, <1>2 DEF Distance
  <2>2. NextIdx(readIdx_) \in Indices
        /\ NextIdx(readIdx_) = IF readIdx_ + 1 = capacity_ THEN 0 ELSE readIdx_ + 1
    BY <1>0, NextIdxCases DEF SpscTypeOK
  <2>3. /\ n = IF readIdx_ <= writeIdx_ THEN writeIdx_ - readIdx_
               ELSE writeIdx_ + capacity_ - readIdx_
        /\ Distance(NextIdx(readIdx_), writeIdx_) =
               IF NextIdx(readIdx_) <= writeIdx_ THEN writeIdx_ - NextIdx(readIdx_)
               ELSE writeIdx_ + capacity_ - NextIdx(readIdx_)
    BY <1>0, <2>2, DistanceCases DEF SpscTypeOK
  <2>4. n' = n
    BY <1>0, <1>2 DEF Distance, PopDestroy
  <2> QED BY <1>0, <1>3, <2>1, <2>2, <2>3, <2>4 DEF SpscTypeOK, Indices
<1>6. /\ SpscItems \in Seq(SpscValues) /\ SpscItems' \in Seq(SpscValues)
      /\ Len(SpscItems) = n /\ Len(SpscItems') = n - 1
      /\ \A k \in 1 .. n : SpscItems[k] = slots_[(readIdx_ + (k - 1)) % capacity_]
      /\ \A k \in 1 .. n - 1 :
             SpscItems'[k] = slots_'[(NextIdx(readIdx_) + (k - 1)) % capacity_]
  BY <1>0, <1>1, <1>2, <1>5 DEF SpscShape, SpscValues
<1> HIDE DEF n
<1>7. SpscItems[1] = slots_[readIdx_]
  <2>1. (readIdx_ + (1 - 1)) % capacity_ = readIdx_
    BY <1>0, ModCases DEF SpscTypeOK, Indices
  <2> QED BY <1>4, <1>6, <2>1
<1>8. ASSUME NEW k \in 1 .. n - 1 PROVE SpscItems'[k] = SpscItems[k + 1]
  <2>1. k - 1 \in Nat /\ (k - 1) + 1 < capacity_ /\ k \in Nat /\ k < capacity_ /\ (k - 1) + 1 = k
        /\ (k + 1) - 1 = k /\ k + 1 \in 1 .. n
    BY <1>0, <1>4
  <2>2. (NextIdx(readIdx_) + (k - 1)) % capacity_ = (readIdx_ + k) % capacity_
    BY <1>0, <2>1, WalkFromNext DEF SpscTypeOK
  <2>3. (readIdx_ + k) % capacity_ \in Indices /\ Distance(readIdx_, (readIdx_ + k) % capacity_) = k
    BY <1>0, <2>1, WalkIdx DEF SpscTypeOK
  <2>4. (readIdx_ + k) % capacity_ # readIdx_
    BY <1>0, <2>1, <2>3, DistanceType DEF SpscTypeOK
  <2>5. slots_'[(readIdx_ + k) % capacity_] = slots_[(readIdx_ + k) % capacity_]
    BY <1>0, <1>2, <2>3, <2>4 DEF SpscTypeOK
  <2> QED BY <1>6, <2>1, <2>2, <2>5
<1>9. SpscItems' = Tail(SpscItems)
  <2>1. /\ Tail(SpscItems) \in Seq(SpscValues) /\ Len(Tail(SpscItems)) = n - 1
        /\ \A k \in 1 .. n - 1 : Tail(SpscItems)[k] = SpscItems[k + 1]
    BY <1>4, <1>6
  <2> QED BY <1>6, <1>8, <2>1, SameSeq
<1>10. SpscItems # <<>> /\ Head(SpscItems) = slots_[readIdx_]
  BY <1>4, <1>6, <1>7
<1> QED BY <1>0, <1>2, <1>9, <1>10 DEF SpscFifo!Dequeue

LEMMA PopStoreStutters ==
    ASSUME SpscInv, PopStore
    PROVE  SpscItems' = SpscItems
<1>1. FirstIdx' = FirstIdx /\ writeIdx_' = writeIdx_ /\ slots_' = slots_ /\ capacity_' = capacity_
  BY DEF PopStore, emplaceVars, FirstIdx, NextIdx
<1> QED BY <1>1 DEF SpscItems, FirstIdx, Distance

LEMMA SpscInitImplements == SpscInit => SpscFifo!Init
<1> SUFFICES ASSUME SpscInit PROVE SpscItems = <<>> /\ capacity_ - 1 \in Nat
  BY DEF SpscFifo!Init, SpscInit
<1>1. SpscInv /\ SpscShape /\ capacity_ \in Nat /\ capacity_ >= 2
  BY SpscInitInv, SpscShapeHolds, CapacityType DEF SpscInit
<1>2. FirstIdx = 0 /\ writeIdx_ = 0
  BY DEF SpscInit, FirstIdx
<1>3. Len(SpscItems) = 0 /\ SpscItems \in Seq(SpscValues)
  BY <1>1, <1>2, DistanceType DEF SpscShape
<1> QED BY <1>1, <1>3

LEMMA SpscStepImplements ==
    ASSUME SpscInv, SpscInv', [SpscNext]_spscVars
    PROVE  [SpscFifo!Next]_(SpscFifo!vars)
<1>1. ASSUME UNCHANGED <<capacity_, slots_, writeIdx_, readIdx_, popPc, spscOut>>
      PROVE  UNCHANGED SpscFifo!vars
  BY <1>1 DEF SpscFifo!vars, SpscItems, Distance, NextIdx
<1>2. ASSUME NEW d \in SpscData, NEW blocks \in BOOLEAN, EmplaceBegin(d, blocks)
      PROVE  UNCHANGED SpscFifo!vars
  BY <1>1, <1>2 DEF EmplaceBegin, popVars
<1>3. ASSUME NEW i \in Indices, EmplaceLoad(i) PROVE UNCHANGED SpscFifo!vars
  BY <1>1, <1>3 DEF EmplaceLoad, popVars
<1>4. CASE EmplaceConstruct
  BY <1>4, EmplaceConstructStutters DEF EmplaceConstruct, popVars, SpscFifo!vars
<1>5. CASE EmplaceStore
  BY <1>5, EmplaceStoreEnqueues DEF SpscFifo!Next
<1>6. CASE FrontCached
  BY <1>1, <1>6 DEF FrontCached
<1>7. ASSUME NEW i \in Indices, FrontLoad(i) PROVE UNCHANGED SpscFifo!vars
  BY <1>1, <1>7 DEF FrontLoad
<1>8. CASE PopDestroy
  BY <1>8, PopDestroyDequeues DEF SpscFifo!Next
<1>9. CASE PopStore
  BY <1>9, PopStoreStutters DEF PopStore, SpscFifo!vars
<1>10. CASE UNCHANGED spscVars
  BY <1>1, <1>10 DEF spscVars, popVars
<1> QED BY <1>2, <1>3, <1>4, <1>5, <1>6, <1>7, <1>8, <1>9, <1>10
        DEF SpscNext, EmplaceSteps

-----------------------------------------------------------------------------
(***************************************************************************)
(* The composition.  A step is of the queue that runs, so every queue      *)
(* keeps its invariant; what a queue does is a step of its own.            *)
(***************************************************************************)
StepOfEach ==
    /\ [SpscNext]_spscVars
    /\ [MpmcNext]_mpmcVars
    /\ [AqNext]_aqVars
    /\ [RingNext]_ringVars
    /\ [MutexNext]_mutexVars

LEMMA EachStarts == Init => SpscInit /\ MpmcInit /\ AqInit /\ RingInit /\ MutexInit
  BY Zenon DEF Init

LEMMA EachSteps == [Next]_vars => StepOfEach
<1>1. OnlySpsc /\ SpscNext => StepOfEach
  BY Zenon DEF OnlySpsc, StepOfEach
<1>2. OnlyMpmc /\ MpmcNext => StepOfEach
  BY Zenon DEF OnlyMpmc, StepOfEach
<1>3. OnlyAq /\ AqNext => StepOfEach
  BY Zenon DEF OnlyAq, StepOfEach
<1>4. OnlyRing /\ RingNext => StepOfEach
  BY Zenon DEF OnlyRing, StepOfEach
<1>5. OnlyMutex /\ MutexNext => StepOfEach
  BY Zenon DEF OnlyMutex, StepOfEach
<1>6. UNCHANGED vars => StepOfEach
  BY Zenon DEF vars, StepOfEach
<1> QED BY <1>1, <1>2, <1>3, <1>4, <1>5, <1>6 DEF Next

\* SPSCQueue is a FIFO between its producer and its consumer, for any capacity and
\* any copies of the other's index the two may hold: nothing is lost or read twice,
\* and the slack slot keeps the one from overwriting what the other has not popped
\* (SPSCQueue.h:104-191).
THEOREM SpscImplementation == Spec => SpscImplementsFifo
<1>1. Spec => SpscInit /\ [][SpscNext]_spscVars
  BY EachStarts, EachSteps, PTL DEF Spec, StepOfEach
<1>2. SpscInit /\ [][SpscNext]_spscVars => SpscImplementsFifo
  BY SpscInitInv, SpscStepInv, SpscInitImplements, SpscStepImplements, PTL
     DEF SpscImplementsFifo, SpscFifo!Spec
<1> QED BY <1>1, <1>2, PTL

\* AtomicQueue between one producer and one consumer is a FIFO of its capacity, with
\* the elements in its states and with the elements as their own states, for any
\* capacity that divides the range of the counters, wherever they start and wrap
\* (atomic_queue.h:180-258, 314-356).
THEOREM AqImplementation == Spec => AqSpscImplementsFifo
<1>1. Spec => AqInit /\ [][AqNext]_aqVars
  BY EachStarts, EachSteps, PTL DEF Spec, StepOfEach
<1>2. AqInit /\ [][AqNext]_aqVars => AqSpscImplementsFifo
  BY AqInitInv, AqStep, AqInitImplements, PTL DEF AqSpscImplementsFifo, AqFifo!Spec
<1> QED BY <1>1, <1>2, PTL

\* AtomicQueue for any threads is a pool: though nothing ties a slot to a lap, and
\* threads of any laps may wait at one slot, each element that was pushed is popped
\* once and none is overwritten (atomic_queue.h:178-273).
THEOREM PoolImplementation == Spec => AqImplementsPool
<1>1. Spec => AqInit /\ [][AqNext]_aqVars
  BY EachStarts, EachSteps, PTL DEF Spec, StepOfEach
<1>2. AqInit /\ [][AqNext]_aqVars => AqImplementsPool
  BY AqPoolInitInv, AqPoolStep, PTL DEF AqImplementsPool, AqPool!Spec
<1> QED BY <1>1, <1>2, PTL

\* Where all producers use try_push, or all consumers try_pop, a try that has its
\* ticket needs no later call: while it waits, another call that has its ticket goes
\* on at the same slot, for any number of threads of any laps there, though the
\* counters wrap and move between the comparison and the compare_exchange
\* (atomic_queue.h:178-312).
THEOREM TriesFinish == Spec => []TriesNeedNoLaterCall
<1>1. Spec => AqInit /\ [][AqNext]_aqVars
  BY EachStarts, EachSteps, PTL DEF Spec, StepOfEach
<1>2. AqInit /\ [][AqNext]_aqVars => []TriesInv
  BY TriesInitInv, TriesStep, PTL
<1>3. TriesInv => TriesNeedNoLaterCall
  BY TriesNeedNobody
<1> QED BY <1>1, <1>2, <1>3, PTL

\* The ring under a lock is a FIFO for any number of threads, if the lock is the
\* system's or a ticket lock that is told its ticket: two threads are never inside
\* together, so neither overwrites nor reads twice (atomic_queue_mutex.h:47-66,
\* spinlock.h:62-98).
THEOREM RingImplementation ==
    ASSUME Locks \subseteq {"system", "ticket"}
    PROVE  Spec => RingImplementsFifo
<1>1. Spec => RingInit /\ [][RingNext]_ringVars
  BY EachStarts, EachSteps, PTL DEF Spec, StepOfEach
<1>2. RingInit => RingInv /\ RingFifo!Init
  BY RingInitInv, RingInitImplements
<1>3. RingInit /\ [][RingNext]_ringVars => RingImplementsFifo
  BY <1>2, RingStepInv, RingStepImplements, PTL DEF RingImplementsFifo, RingFifo!Spec
<1> QED BY <1>1, <1>3, PTL

\* The three together: between one producer and one consumer, or under a lock, each
\* element leaves once, unaltered, in its turn, and what front() returned is not
\* written to before its pop().
THEOREM RingsImplementation ==
    ASSUME Locks \subseteq {"system", "ticket"}
    PROVE  Spec => RingsImplementFifo
  BY SpscImplementation, AqImplementation, RingImplementation, PTL DEF RingsImplementFifo

\* The locked baseline is a FIFO in the composition too (mutex_queue.hpp:13-31).
THEOREM MutexImplementation == Spec => MutexImplementsFifo
<1>1. Spec => MutexInit /\ [][MutexNext]_mutexVars
  BY EachStarts, EachSteps, PTL DEF Spec, StepOfEach
<1> QED BY <1>1, MutexQueueImplementation, PTL DEF MutexSpec

\* The two invariants of MPMCQueue in the composition (MPMCQueue.h:165-267).
THEOREM MpmcHolds == Spec => []PopsItsTicket /\ []FailsOnlyWhenBusy
<1>1. Spec => MpmcInit /\ [][MpmcNext]_mpmcVars
  BY EachStarts, EachSteps, PTL DEF Spec, StepOfEach
<1> QED BY <1>1, PopsItsTicketInvariant, FailsOnlyWhenBusyInvariant, PTL DEF MpmcSpec
=============================================================================

----------------------------- MODULE MPMCQueue -----------------------------
(***************************************************************************)
(* rigtorp::MPMCQueue (includes/MPMCQueue.h): a ring for any number of     *)
(* producers and consumers.  A call takes a ticket from head_ or tail_,    *)
(* which names a slot and a turn; the slot's own turn says whose it is.    *)
(* push and pop take a ticket and wait for their turn; try_push and        *)
(* try_pop take one only if its turn has come.                             *)
(*                                                                         *)
(* A step makes at most one access to memory threads share.  An element is *)
(* named by its ticket: the value a producer brings does not matter until  *)
(* it has one.  Tickets are bounded by MaxTickets; the wrap of size_t is   *)
(* beyond the bound.                                                       *)
(***************************************************************************)
EXTENDS Naturals, FiniteSets

CONSTANTS
    MpmcCapacity,   \* capacity
    Teams,          \* the sets of threads that use the queue, one at a time
    Producers,      \* the threads that push
    Consumers,      \* the threads that pop
    MaxTickets,     \* how many tickets are taken on each side
    NoElement       \* a slot without an element

ASSUME MPMCQueueAssumption ==
    /\ MpmcCapacity \in Nat \ {0}
    /\ MaxTickets \in Nat
    /\ Producers \cap Consumers = {}
    /\ UNION Teams \subseteq Producers \cup Consumers
    /\ NoElement \notin Nat

VARIABLES
    team,       \* the threads that use the queue
    head_,      \* the producers' next ticket
    tail_,      \* the consumers' next ticket
    turn,       \* for each slot, slot.turn
    storage,    \* for each slot, slot.storage
    pc,         \* for each thread, where it is inside its call
    ticket,     \* for each thread, its head or tail
    popped,     \* for each consumer, the element it moved out
    wasBusy     \* auxiliary: the slot was not the thread's, when it looked, and
                \* its ticket the next one

mpmcVars == <<team, head_, tail_, turn, storage, pc, ticket, popped, wasBusy>>

Threads == Producers \cup Consumers
Slots == 0 .. MpmcCapacity - 1

Idx(i) == i % MpmcCapacity

\* turn(head) * 2 for a producer, turn(tail) * 2 + 1 for a consumer.
Awaited(t, i) == (i \div MpmcCapacity) * 2 + (IF t \in Consumers THEN 1 ELSE 0)

\* Mistake: a slot a lap ahead is taken for the thread's own.
IsTurnOfAnyLap(t) == turn[Idx(ticket[t])] % 2 = Awaited(t, ticket[t]) % 2

IsTurn(t) == turn[Idx(ticket[t])] = Awaited(t, ticket[t])

\* The counter a thread takes its tickets from.
Counter(t) == IF t \in Producers THEN head_ ELSE tail_
Advance(t) ==
    IF t \in Producers THEN head_' = head_ + 1 /\ UNCHANGED tail_
                       ELSE tail_' = tail_ + 1 /\ UNCHANGED head_

MpmcInit ==
    /\ team \in Teams
    /\ head_ = 0
    /\ tail_ = 0
    /\ turn = [s \in Slots |-> 0]
    /\ storage = [s \in Slots |-> NoElement]
    /\ pc = [t \in Threads |-> "idle"]
    /\ ticket = [t \in Threads |-> 0]
    /\ popped = [c \in Consumers |-> NoElement]
    /\ wasBusy = [t \in Threads |-> FALSE]

Goto(t, label) == pc' = [pc EXCEPT ![t] = label]

-----------------------------------------------------------------------------
(***************************************************************************)
(* emplace() and pop(): a ticket first, then the wait for its turn.        *)
(***************************************************************************)
FetchAdd(t) ==
    /\ pc[t] = "idle"
    /\ Counter(t) < MaxTickets
    /\ ticket' = [ticket EXCEPT ![t] = Counter(t)]
    /\ Advance(t)
    /\ Goto(t, "wait")
    /\ UNCHANGED <<team, turn, storage, popped, wasBusy>>

AwaitTurn(t) ==
    /\ pc[t] = "wait"
    /\ IsTurn(t)
    /\ Goto(t, "use")
    /\ UNCHANGED <<team, head_, tail_, turn, storage, ticket, popped, wasBusy>>

(***************************************************************************)
(* try_emplace() and try_pop().                                            *)
(***************************************************************************)
TryLoad(t) ==
    /\ pc[t] = "idle"
    /\ Counter(t) < MaxTickets
    /\ ticket' = [ticket EXCEPT ![t] = Counter(t)]
    /\ Goto(t, "tryTurn")
    /\ UNCHANGED <<team, head_, tail_, turn, storage, popped, wasBusy>>

TryTurn(t) ==
    /\ pc[t] = "tryTurn"
    /\ Goto(t, IF IsTurn(t) THEN "tryCas" ELSE "tryReload")
    /\ wasBusy' = [wasBusy EXCEPT ![t] = ~IsTurn(t) /\ ticket[t] = Counter(t)]
    /\ UNCHANGED <<team, head_, tail_, turn, storage, ticket, popped>>

\* compare_exchange_strong: a failure loads the counter.
TryCas(t) ==
    /\ pc[t] = "tryCas"
    /\ IF ticket[t] = Counter(t)
       THEN Advance(t) /\ Goto(t, "use") /\ UNCHANGED ticket
       ELSE /\ ticket' = [ticket EXCEPT ![t] = Counter(t)]
            /\ Goto(t, "tryTurn")
            /\ UNCHANGED <<head_, tail_>>
    /\ UNCHANGED <<team, turn, storage, popped, wasBusy>>

\* Mistake: a slot that is not free is a full queue, whoever took the ticket.
TryReloadNever(t) ==
    /\ pc[t] = "tryReload"
    /\ Goto(t, "failed")
    /\ UNCHANGED <<team, head_, tail_, turn, storage, ticket, popped, wasBusy>>

TryReload(t) ==
    /\ pc[t] = "tryReload"
    /\ ticket' = [ticket EXCEPT ![t] = Counter(t)]
    /\ Goto(t, IF ticket[t] = Counter(t) THEN "failed" ELSE "tryTurn")
    /\ UNCHANGED <<team, head_, tail_, turn, storage, popped, wasBusy>>

(***************************************************************************)
(* The slot is the thread's: construct, or move and destroy; then the      *)
(* turn is passed on.  A failed call, and one that is done, return.        *)
(***************************************************************************)
Use(t) ==
    LET s == Idx(ticket[t])
    IN  /\ pc[t] = "use"
        /\ IF t \in Producers
           THEN storage' = [storage EXCEPT ![s] = ticket[t]] /\ UNCHANGED popped
           ELSE storage' = [storage EXCEPT ![s] = NoElement]
                /\ popped' = [popped EXCEPT ![t] = storage[s]]
        /\ Goto(t, "passTurn")
        /\ UNCHANGED <<team, head_, tail_, turn, ticket, wasBusy>>

\* Mistake: the consumer frees the slot for the producer of its own turn.
PassTurnNotOn(t) ==
    /\ pc[t] = "passTurn"
    /\ turn' = [turn EXCEPT ![Idx(ticket[t])] =
                   IF t \in Producers THEN Awaited(t, ticket[t]) + 1
                                      ELSE Awaited(t, ticket[t]) - 1]
    /\ Goto(t, "done")
    /\ UNCHANGED <<team, head_, tail_, storage, ticket, popped, wasBusy>>

PassTurn(t) ==
    /\ pc[t] = "passTurn"
    /\ turn' = [turn EXCEPT ![Idx(ticket[t])] = Awaited(t, ticket[t]) + 1]
    /\ Goto(t, "done")
    /\ UNCHANGED <<team, head_, tail_, storage, ticket, popped, wasBusy>>

Return(t) ==
    /\ pc[t] \in {"failed", "done"}
    /\ Goto(t, "idle")
    /\ ticket' = [ticket EXCEPT ![t] = 0]
    /\ popped' = [c \in Consumers |-> IF c = t THEN NoElement ELSE popped[c]]
    /\ wasBusy' = [wasBusy EXCEPT ![t] = FALSE]
    /\ UNCHANGED <<team, head_, tail_, turn, storage>>

-----------------------------------------------------------------------------
Steps(t) ==
    \/ AwaitTurn(t) \/ TryTurn(t) \/ TryCas(t) \/ TryReload(t)
    \/ Use(t) \/ PassTurn(t) \/ Return(t)

MpmcNext == \E t \in team : FetchAdd(t) \/ TryLoad(t) \/ Steps(t)

MpmcSpec == MpmcInit /\ [][MpmcNext]_mpmcVars

-----------------------------------------------------------------------------
OneThreadInSlot ==
    \A t, u \in Threads :
        /\ pc[t] \in {"use", "passTurn"}
        /\ pc[u] \in {"use", "passTurn"}
        /\ Idx(ticket[t]) = Idx(ticket[u])
        => t = u

\* The consumer that has ticket k moves out the element pushed with ticket k,
\* whatever the lap; so elements leave in the order of the producers' tickets and
\* each once.  And no two threads are in one slot, so neither its element nor its
\* turn is raced for (MPMCQueue.h:169-174, 226-232).
PopsItsTicket ==
    /\ OneThreadInSlot
    /\ \A c \in Consumers : pc[c] \in {"passTurn", "done"} => popped[c] = ticket[c]

\* try_push and try_pop fail only if, at a moment of the call, the slot of the
\* next ticket was not to be had: a full queue, or an empty one (MPMCQueue.h:
\* 189-194, 246-251).
FailsOnlyWhenBusy == \A t \in Threads : pc[t] = "failed" => wasBusy[t]

\* push and pop return, when there is a pop or a push for each ticket before
\* theirs and every call goes on (MPMCQueue.h:171-172, 228-229).
PushReturns ==
    \A p \in Producers :
        (pc[p] = "wait" /\ ticket[p] < tail_ + MpmcCapacity) ~> pc[p] = "idle"
PopReturns ==
    \A c \in Consumers : (pc[c] = "wait" /\ ticket[c] < head_) ~> pc[c] = "idle"
CallsReturn == PushReturns /\ PopReturns
=============================================================================

------------------------------ MODULE FreeList ------------------------------
(***************************************************************************)
(* ConcurrentQueue::FreeList (includes/concurrentqueue.h): the lock-free   *)
(* stack that blocks given back lie in.  A node counts who refers to it:   *)
(* the list, while it is linked, and each thread that is about to take it. *)
(* A node to be added while others still refer to it is marked as one that *)
(* should be on the list, and added by who lets go of it last.             *)
(*                                                                         *)
(* A step makes one access to memory threads share.                        *)
(***************************************************************************)
EXTENDS Integers, FiniteSets, Links

CONSTANTS
    Nodes,
    FreeListThreads,
    NoNode              \* the null pointer

ASSUME FreeListAssumption == NoNode \notin Nodes /\ IsFiniteSet(FreeListThreads)

VARIABLES
    freeListHead,
    freeListNext,       \* for each node
    freeListRefs,       \* for each node, [should: SHOULD_BE_ON_FREELIST, refs: the count]
    held,               \* for each thread, the nodes it took and did not add again
    fl,                 \* for each thread, where it is in add or try_get
    takenMarked         \* auxiliary: a node was taken off that is marked

freeListVars == <<freeListHead, freeListNext, freeListRefs, held, fl, takenMarked>>

Outside == [pc |-> "outside"]
FlGoto(t, state) == fl' = [fl EXCEPT ![t] = state]
SetRefs(n, should, refs) ==
    freeListRefs' = [freeListRefs EXCEPT ![n] = [should |-> should, refs |-> refs]]

\* The nodes are new blocks, which threads have.
FreeListInit ==
    /\ freeListHead = NoNode
    /\ freeListNext = [n \in Nodes |-> NoNode]
    /\ freeListRefs = [n \in Nodes |-> [should |-> FALSE, refs |-> 0]]
    /\ \E owner \in [Nodes -> FreeListThreads] :
           held = [t \in FreeListThreads |-> {n \in Nodes : owner[n] = t}]
    /\ fl = [t \in FreeListThreads |-> Outside]
    /\ takenMarked = FALSE

-----------------------------------------------------------------------------
(***************************************************************************)
(* add_knowing_refcount_is_zero, called by add, and by try_get, which goes *)
(* on with the head it saw last.                                           *)
(***************************************************************************)
Return(t) ==
    FlGoto(t, IF fl[t].resume = NoNode THEN Outside ELSE [pc |-> "getRefs", head |-> fl[t].resume])

AddLoadHead(t) ==
    /\ fl[t].pc = "addHead"
    /\ FlGoto(t, [pc |-> "addNext", node |-> fl[t].node, resume |-> fl[t].resume,
                  head |-> freeListHead])
    /\ UNCHANGED <<freeListHead, freeListNext, freeListRefs, held, takenMarked>>

AddNext(t) ==
    /\ fl[t].pc = "addNext"
    /\ freeListNext' = [freeListNext EXCEPT ![fl[t].node] = fl[t].head]
    /\ FlGoto(t, [fl[t] EXCEPT !.pc = "addRefs"])
    /\ UNCHANGED <<freeListHead, freeListRefs, held, takenMarked>>

AddRefs(t) ==
    /\ fl[t].pc = "addRefs"
    /\ SetRefs(fl[t].node, FALSE, 1)
    /\ FlGoto(t, [fl[t] EXCEPT !.pc = "addCas"])
    /\ UNCHANGED <<freeListHead, freeListNext, held, takenMarked>>

AddCas(t) ==
    /\ fl[t].pc = "addCas"
    /\ IF freeListHead = fl[t].head
       THEN freeListHead' = fl[t].node /\ Return(t)
       ELSE /\ FlGoto(t, [fl[t] EXCEPT !.pc = "addAgain", !.head = freeListHead])
            /\ UNCHANGED freeListHead
    /\ UNCHANGED <<freeListNext, freeListRefs, held, takenMarked>>

\* The head has changed: the node is left to who lets go of it last.
AddAgain(t) ==
    LET old == freeListRefs[fl[t].node]
    IN  /\ fl[t].pc = "addAgain"
        /\ SetRefs(fl[t].node, TRUE, old.refs - 1)
        /\ IF old.refs = 1 THEN FlGoto(t, [fl[t] EXCEPT !.pc = "addNext"]) ELSE Return(t)
        /\ UNCHANGED <<freeListHead, freeListNext, held, takenMarked>>

\* add
Add(t, n) ==
    /\ fl[t].pc = "outside"
    /\ n \in held[t]
    /\ held' = [held EXCEPT ![t] = @ \ {n}]
    /\ SetRefs(n, TRUE, freeListRefs[n].refs)
    /\ FlGoto(t, IF freeListRefs[n].refs = 0
                 THEN [pc |-> "addHead", node |-> n, resume |-> NoNode] ELSE Outside)
    /\ UNCHANGED <<freeListHead, freeListNext, takenMarked>>

-----------------------------------------------------------------------------
(***************************************************************************)
(* try_get                                                                 *)
(***************************************************************************)
WithHead(t) == FlGoto(t, IF freeListHead = NoNode THEN Outside ELSE [pc |-> "getRefs", head |-> freeListHead])

TryGet(t) ==
    /\ fl[t].pc = "outside"
    /\ WithHead(t)
    /\ UNCHANGED <<freeListHead, freeListNext, freeListRefs, held, takenMarked>>

GetReload(t) ==
    /\ fl[t].pc = "getHead"
    /\ WithHead(t)
    /\ UNCHANGED <<freeListHead, freeListNext, freeListRefs, held, takenMarked>>

GetRefs(t) ==
    LET refs == freeListRefs[fl[t].head]
    IN  /\ fl[t].pc = "getRefs"
        /\ FlGoto(t, IF refs.refs = 0 THEN [pc |-> "getHead"]
                     ELSE [pc |-> "getCasRefs", head |-> fl[t].head, seen |-> refs])
        /\ UNCHANGED <<freeListHead, freeListNext, freeListRefs, held, takenMarked>>

GetCasRefs(t) ==
    LET head == fl[t].head
    IN  /\ fl[t].pc = "getCasRefs"
        /\ IF freeListRefs[head] = fl[t].seen
           THEN /\ SetRefs(head, fl[t].seen.should, fl[t].seen.refs + 1)
                /\ FlGoto(t, [pc |-> "getNext", head |-> head])
           ELSE FlGoto(t, [pc |-> "getHead"]) /\ UNCHANGED freeListRefs
        /\ UNCHANGED <<freeListHead, freeListNext, held, takenMarked>>

GetNext(t) ==
    /\ fl[t].pc = "getNext"
    /\ FlGoto(t, [pc |-> "getCasHead", head |-> fl[t].head, next |-> freeListNext[fl[t].head]])
    /\ UNCHANGED <<freeListHead, freeListNext, freeListRefs, held, takenMarked>>

GetCasHead(t) ==
    LET head == fl[t].head
    IN  /\ fl[t].pc = "getCasHead"
        /\ IF freeListHead = head
           THEN freeListHead' = fl[t].next /\ FlGoto(t, [pc |-> "getTake", head |-> head])
           ELSE /\ FlGoto(t, [pc |-> "getLetGo", head |-> head, resume |-> freeListHead])
                /\ UNCHANGED freeListHead
        /\ UNCHANGED <<freeListNext, freeListRefs, held, takenMarked>>

\* The node is the thread's: the list's reference and its own go.
GetTake(t) ==
    LET old == freeListRefs[fl[t].head]
    IN  /\ fl[t].pc = "getTake"
        /\ SetRefs(fl[t].head, old.should, old.refs - 2)
        /\ held' = [held EXCEPT ![t] = @ \cup {fl[t].head}]
        /\ takenMarked' = (takenMarked \/ old.should)
        /\ FlGoto(t, Outside)
        /\ UNCHANGED <<freeListHead, freeListNext>>

\* Mistake: who lets go last of a marked node does not add it.
GetLetGoUnmarked(t) ==
    LET old == freeListRefs[fl[t].head]
    IN  /\ fl[t].pc = "getLetGo"
        /\ SetRefs(fl[t].head, old.should, old.refs - 1)
        /\ FlGoto(t, IF fl[t].resume = NoNode THEN Outside ELSE [pc |-> "getRefs", head |-> fl[t].resume])
        /\ UNCHANGED <<freeListHead, freeListNext, held, takenMarked>>

\* Another took it, or one was added: on with the head the CAS saw.
GetLetGo(t) ==
    LET old == freeListRefs[fl[t].head]
    IN  /\ fl[t].pc = "getLetGo"
        /\ SetRefs(fl[t].head, old.should, old.refs - 1)
        /\ FlGoto(t, IF old = [should |-> TRUE, refs |-> 1]
                     THEN [pc |-> "addHead", node |-> fl[t].head, resume |-> fl[t].resume]
                     ELSE IF fl[t].resume = NoNode THEN Outside
                     ELSE [pc |-> "getRefs", head |-> fl[t].resume])
        /\ UNCHANGED <<freeListHead, freeListNext, held, takenMarked>>

FreeListSteps(t) ==
    \/ AddLoadHead(t) \/ AddNext(t) \/ AddRefs(t) \/ AddCas(t) \/ AddAgain(t)
    \/ GetReload(t) \/ GetRefs(t) \/ GetCasRefs(t) \/ GetNext(t) \/ GetCasHead(t)
    \/ GetTake(t) \/ GetLetGo(t)

FreeListNextStep ==
    \E t \in FreeListThreads :
        \/ \E n \in Nodes : Add(t, n)
        \/ TryGet(t)
        \/ FreeListSteps(t)

FreeListSpec == FreeListInit /\ [][FreeListNextStep]_freeListVars

-----------------------------------------------------------------------------
\* The nodes linked from the head on.
Linked == LinkedFrom(freeListHead, freeListNext, NoNode)

\* No two have one node: two threads, or a thread and the list; and a node taken
\* off the list is not marked as one that should be on it.
NodesHaveOneOwner ==
    /\ ~takenMarked
    /\ \A t \in FreeListThreads : held[t] \cap Linked = {}
    /\ \A t, u \in FreeListThreads : t # u => held[t] \cap held[u] = {}

\* With nobody inside, a node no thread has is on the list, to be had again.
NoNodeIsLost ==
    (\A t \in FreeListThreads : fl[t].pc = "outside") =>
        Linked = Nodes \ UNION {held[t] : t \in FreeListThreads}

\* A block given back is given out again, once, whatever threads add and take at
\* the same time, although a node's next is read after another may have taken,
\* used and added it again: its count, and the mark on it, are what the
\* algorithm has against that (concurrentqueue.h:1459-1540).
FreeListKeepsNodes == NodesHaveOneOwner /\ NoNodeIsLost
=============================================================================

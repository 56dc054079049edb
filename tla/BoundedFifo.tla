---------------------------- MODULE BoundedFifo ----------------------------
(***************************************************************************)
(* What a bounded single-producer single-consumer queue promises, with no  *)
(* ring, no cursors and no batches: items leave in the order they came,    *)
(* each exactly once and unaltered, and there are never more than capacity *)
(* of them inside.  An operation that fails is a step that changes         *)
(* nothing, so the specification allows push and pop to fail at any time:  *)
(* how often they may is the business of the detailed specification.       *)
(***************************************************************************)
EXTENDS Naturals, Sequences

CONSTANTS
    Data,       \* the items that can be pushed
    NoData      \* what the output parameter of pop holds before a first pop

VARIABLES
    items,      \* the items inside, oldest first
    out,        \* the item the last successful pop delivered
    capacity    \* the most items the queue may hold

vars == <<items, out, capacity>>

TypeOK ==
    /\ items \in Seq(Data)
    /\ Len(items) <= capacity
    /\ capacity \in Nat
    /\ out \in Data \cup {NoData}

Init ==
    /\ items = <<>>
    /\ out = NoData
    /\ capacity \in Nat

Enqueue(d) ==
    /\ Len(items) < capacity
    /\ items' = Append(items, d)
    /\ UNCHANGED <<out, capacity>>

Dequeue ==
    /\ items # <<>>
    /\ out' = Head(items)
    /\ items' = Tail(items)
    /\ UNCHANGED capacity

Next ==
    \/ \E d \in Data : Enqueue(d)
    \/ Dequeue

Spec == Init /\ [][Next]_vars
=============================================================================

------------------------- MODULE MCConcurrentQueue -------------------------
(***************************************************************************)
(* ConcurrentQueue for TLC: the sub-queues tried.                          *)
(***************************************************************************)
EXTENDS ConcurrentQueue

CONSTANTS t1, t2, f1, f2, f3, c1

SubQueueOf(explicit, counter, throws, fails, limit, bulks, maxima, atOnce, last) ==
    [isExplicit |-> explicit, counter |-> counter, throws |-> throws,
     modes |-> IF fails THEN {"CanAlloc", "CannotAlloc"} ELSE {"CanAlloc"},
     fails |-> fails, limit |-> limit, pool |-> {}, indexSize |-> 2, bulks |-> bulks,
     maxima |-> maxima, atOnce |-> atOnce, last |-> last, lag |-> IndexValues]

ExplicitSub(counter, fails, limit, bulks, maxima, atOnce, last) ==
    SubQueueOf(TRUE, counter, FALSE, fails, limit, bulks, maxima, atOnce, last)
ImplicitSub(throws, fails, limit, bulks, maxima, atOnce, last) ==
    SubQueueOf(FALSE, TRUE, throws, fails, limit, bulks, maxima, atOnce, last)

NoLimit == IndexValues
NoLast == IndexValues
WithLag(s, lag) == [s EXCEPT !.lag = lag]

\* Of either kind: one that runs for ever, so that its indices wrap, with one
\* dequeue at a time; an implicit one that does so with two, so that claims made in
\* vain, and claims after them, wrap too; two at once, single and bulk; memory that runs
\* out, a limit, constructors that throw.  (An explicit one fails its properties
\* if a constructor throws, or enqueue_bulk fails with some blocks made.)
MCSubQueues == {
    ExplicitSub(FALSE, FALSE, NoLimit, {}, {3}, 1, NoLast),
    ExplicitSub(FALSE, FALSE, NoLimit, {3}, {3}, 2, 5),
    ExplicitSub(TRUE, FALSE, NoLimit, {3}, {1, 3}, 1, 9),
    ExplicitSub(TRUE, TRUE, NoLimit, {}, {1}, 1, 7),
    ExplicitSub(TRUE, TRUE, 4, {2}, {3}, 1, 7),
    ImplicitSub(FALSE, FALSE, 2, {}, {3}, 1, NoLast),
    WithLag(ImplicitSub(FALSE, FALSE, 2, {}, {1}, 2, NoLast), 2),
    ImplicitSub(FALSE, FALSE, NoLimit, {3}, {3}, 2, 4),
    ImplicitSub(FALSE, TRUE, 4, {3}, {3}, 1, 6),
    ImplicitSub(TRUE, TRUE, NoLimit, {3}, {3}, 1, 5)}

\* An explicit one whose enqueue_bulk may fail half way.
BulksThatFail == {ExplicitSub(TRUE, FALSE, 4, {3}, {3}, 2, 6)}

\* Ids that are hashed to one slot.
OneSlot == {[t \in ThreadIds |-> 0]}

Alike == Permutations(DequeueThreads)
=============================================================================

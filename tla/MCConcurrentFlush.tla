------------------------- MODULE MCConcurrentFlush -------------------------
(***************************************************************************)
(* ConcurrentFlush for TLC: flush() by the producer, and by both threads.  *)
(***************************************************************************)
EXTENDS ConcurrentFlush

BothThreads == {"producer", "consumer"}
ProducerOrBoth == {{"producer"}, BothThreads}
OnlyBoth == {BothThreads}
=============================================================================

-------------------------- MODULE CorrectnessTest --------------------------
(***************************************************************************)
(* test_spsc_correctness (testing/benchmark_spsc.cpp): a producer thread   *)
(* pushes 0, 1, ..., N-1, retrying each push until it succeeds, then sets  *)
(* done.  The consumer pops and compares until it sees done with the queue *)
(* empty(), calls flush(), drains what that made visible, and aborts       *)
(* unless it got exactly N items in order.                                 *)
(*                                                                         *)
(* The queue is FastqSPSC with all its interleavings and stale loads; this *)
(* module adds the two threads that call it.  An acquire load of done that *)
(* returns true orders everything the producer did before the consumer's   *)
(* next step.  start and done are stored once, by a thread whose next step *)
(* touches neither, so a store that becomes visible late is a store made   *)
(* late and needs no history of its own.                                   *)
(***************************************************************************)
EXTENDS FastqSPSC

CONSTANT N          \* how many items are pushed

ASSUME TestAssumption ==
    /\ N \in Nat
    /\ Data = 0 .. N - 1

VARIABLES
    start,          \* start
    done,           \* done
    i,              \* the producer's loop variable
    expected,       \* the consumer's expected
    producerPc,     \* where the producer's lambda is
    consumerPc      \* where the consumer's lambda is

testVars == <<start, done, i, expected, producerPc, consumerPc>>
allVars == <<vars, testVars>>

TestInit ==
    /\ Init
    /\ start = FALSE
    /\ done = FALSE
    /\ i = 0
    /\ expected = 0
    /\ producerPc = "waitStart"
    /\ consumerPc = "start"

-----------------------------------------------------------------------------
(***************************************************************************)
(* The producer.                                                           *)
(***************************************************************************)
ProducerStarts ==
    /\ producerPc = "waitStart"
    /\ start
    /\ producerPc' = "loop"
    /\ UNCHANGED <<vars, start, done, i, expected, consumerPc>>

ProducerCalls ==
    /\ producerPc = "loop"
    /\ i < N
    /\ PushBegin(i)
    /\ producerPc' = "push"
    /\ UNCHANGED <<start, done, i, expected, consumerPc>>

\* push has returned; a push that failed is tried again with the same item.
ProducerReturns ==
    /\ producerPc = "push"
    /\ pushPc = "idle"
    /\ i' = IF pushOk THEN i + 1 ELSE i
    /\ producerPc' = "loop"
    /\ UNCHANGED <<vars, start, done, expected, consumerPc>>

ProducerDone ==
    /\ producerPc = "loop"
    /\ i = N
    /\ done' = TRUE
    /\ producerPc' = "end"
    /\ UNCHANGED <<vars, start, i, expected, consumerPc>>

(***************************************************************************)
(* The consumer.                                                           *)
(***************************************************************************)
ConsumerStarts ==
    /\ consumerPc = "start"
    /\ start' = TRUE
    /\ consumerPc' = "checkDone"
    /\ UNCHANGED <<vars, done, i, expected, producerPc>>

\* Mistake: done loaded with memory_order_relaxed, which orders nothing.
ConsumerChecksDoneRelaxed ==
    /\ consumerPc = "checkDone"
    /\ consumerPc' = IF done THEN "checkEmpty" ELSE "call"
    /\ UNCHANGED <<vars, start, done, i, expected, producerPc>>

\* The acquire load of done.
ConsumerChecksDone ==
    /\ consumerPc = "checkDone"
    /\ IF done
       THEN /\ consumerPc' = "checkEmpty"
            /\ writer' = <<Newest(writer)>>
            /\ consumerSees' = producer.localWriter
            /\ UNCHANGED <<reader, producer, consumer, producerSees>>
       ELSE /\ consumerPc' = "call"
            /\ UNCHANGED cursors
    /\ UNCHANGED <<buffer, producerVars, consumerVars,
                   start, done, i, expected, producerPc>>

\* Mistake: the main loop leaves as soon as done is set, queue empty or not.
ConsumerLeavesAtOnce ==
    /\ consumerPc = "checkEmpty"
    /\ consumerPc' = "flush"
    /\ UNCHANGED <<vars, start, done, i, expected, producerPc>>

\* !q.empty(), after done.
ConsumerChecksEmpty ==
    /\ consumerPc = "checkEmpty"
    /\ consumerPc' = IF ConsumerEmpty THEN "flush" ELSE "call"
    /\ UNCHANGED <<vars, start, done, i, expected, producerPc>>

ConsumerCalls ==
    /\ \/ consumerPc = "call" /\ consumerPc' = "pop"
       \/ consumerPc = "drain" /\ consumerPc' = "drainPop"
    /\ PopBegin
    /\ UNCHANGED <<start, done, i, expected, producerPc>>

\* pop has returned in the main loop.
ConsumerReturns ==
    /\ consumerPc = "pop"
    /\ popPc = "idle"
    /\ IF ~popOk
       THEN consumerPc' = "checkDone" /\ UNCHANGED expected
       ELSE IF out = expected
       THEN consumerPc' = "checkDone" /\ expected' = expected + 1
       ELSE consumerPc' = "abort" /\ UNCHANGED expected
    /\ UNCHANGED <<vars, start, done, i, producerPc>>

ConsumerFlushes ==
    /\ consumerPc = "flush"
    /\ Flush
    /\ consumerPc' = "drain"
    /\ UNCHANGED <<start, done, i, expected, producerPc>>

\* pop has returned in the loop after flush().
ConsumerDrains ==
    /\ consumerPc = "drainPop"
    /\ popPc = "idle"
    /\ IF ~popOk
       THEN consumerPc' = "checkCount" /\ UNCHANGED expected
       ELSE IF out = expected
       THEN consumerPc' = "drain" /\ expected' = expected + 1
       ELSE consumerPc' = "abort" /\ UNCHANGED expected
    /\ UNCHANGED <<vars, start, done, i, producerPc>>

ConsumerChecksCount ==
    /\ consumerPc = "checkCount"
    /\ consumerPc' = IF expected = N THEN "pass" ELSE "abort"
    /\ UNCHANGED <<vars, start, done, i, expected, producerPc>>

-----------------------------------------------------------------------------
PushSteps == (PushLoadReader \/ PushWrite \/ PushPublish) /\ UNCHANGED testVars
PopSteps == (PopLoadWriter \/ PopRead \/ PopPublish) /\ UNCHANGED testVars
Propagate == (PropagateWriter \/ PropagateReader) /\ UNCHANGED testVars

ProducerThread ==
    ProducerStarts \/ ProducerCalls \/ ProducerReturns \/ ProducerDone \/ PushSteps

ConsumerThread ==
    \/ ConsumerStarts \/ ConsumerChecksDone \/ ConsumerChecksEmpty
    \/ ConsumerCalls \/ ConsumerReturns \/ ConsumerFlushes
    \/ ConsumerDrains \/ ConsumerChecksCount \/ PopSteps

\* Both threads have been joined.
Joined ==
    /\ producerPc = "end"
    /\ consumerPc = "pass"
    /\ UNCHANGED allVars

TestNext == ProducerThread \/ ConsumerThread \/ Propagate \/ Joined

TestSpec == TestInit /\ [][TestNext]_allVars

\* Both threads run, and a store to a cursor becomes visible in finite time.
TestFairness ==
    /\ WF_allVars(ProducerThread)
    /\ WF_allVars(ConsumerThread)
    /\ WF_allVars(PropagateWriter /\ UNCHANGED testVars)
    /\ WF_allVars(PropagateReader /\ UNCHANGED testVars)

FairTestSpec == TestSpec /\ TestFairness

-----------------------------------------------------------------------------
\* flush() touches the state of both threads without any synchronisation of its
\* own; where the test calls it (benchmark_spsc.cpp:181) the producer is past its
\* last push and all its steps are ordered before, so it races with nothing.
FlushIsOrdered ==
    consumerPc = "flush" =>
        /\ producerPc = "end" /\ pushPc = "idle"
        /\ consumerSees = producer.localWriter
        /\ Len(writer) = 1

\* The main loop ends only when the consumer has taken everything published:
\* what flush() is left to reveal is less than one batch of items
\* (benchmark_spsc.cpp:171, spsc_queue.hpp:134-137).
FlushRevealsLessThanBatch ==
    consumerPc = "flush" =>
        LET left == Sub(producer.localWriter, consumer.localReader)
        IN  left < PublishBatch \/ left = 0

\* The test never aborts: no item comes out of order, doubled or altered, and none
\* is missing at the end, although the queue hides the last batch from the
\* consumer until the consumer itself flushes it (benchmark_spsc.cpp:173, 183, 190).
NeverAborts == consumerPc # "abort"

\* The test ends, and ends with PASS: neither thread spins on the other forever, at
\* a full ring, at an empty one or waiting for start (benchmark_spsc.cpp:150-193).
Passes == <>(producerPc = "end" /\ consumerPc = "pass")
=============================================================================

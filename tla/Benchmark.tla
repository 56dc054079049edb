----------------------------- MODULE Benchmark -----------------------------
(***************************************************************************)
(* run_spsc_benchmark (testing/benchmark_spsc.cpp) on a fastq::SPSC queue: *)
(* main waits until both threads are ready, sets start, lets them run, and *)
(* sets stop.  The producer pushes 0, 1, 2, ... and looks at stop only     *)
(* between pushes that succeeded.  The consumer pops, sums and counts      *)
(* until it sees stop, then drains until a pop fails, and leaves.  Nobody  *)
(* calls flush().                                                          *)
(*                                                                         *)
(* stop, start and the cursors are seen as soon as they are stored         *)
(* (WeakMemory is FALSE).  C++ allows loads stale enough for the consumer  *)
(* to leave while the producer fills the ring and then retries a push that *)
(* nobody will ever make room for, because the inner loop does not look at *)
(* stop; how late a load may be on the machines the benchmark runs on is   *)
(* not in the code.                                                        *)
(***************************************************************************)
EXTENDS FastqSPSC

CONSTANT Width      \* 2^w, the number of values of std::uint64_t payloads

ASSUME BenchmarkAssumption ==
    /\ Width \in Nat \ {0}
    /\ Data = 0 .. Width - 1
    /\ WeakMemory = FALSE

VARIABLES
    ready,          \* ready
    start,          \* start
    stop,           \* stop
    payload,        \* the producer's payload
    localSum,       \* the consumer's localSum
    localOps,       \* the consumer's localOps
    mainPc,
    producerPc,
    consumerPc

benchVars == <<ready, start, stop, payload, localSum, localOps,
               mainPc, producerPc, consumerPc>>
allVars == <<vars, benchVars>>

BenchInit ==
    /\ Init
    /\ ready = 0
    /\ start = FALSE
    /\ stop = FALSE
    /\ payload = 0
    /\ localSum = 0
    /\ localOps = 0
    /\ mainPc = "waitReady"
    /\ producerPc = "pin"
    /\ consumerPc = "pin"

-----------------------------------------------------------------------------
(***************************************************************************)
(* main.                                                                   *)
(***************************************************************************)
MainStarts ==
    /\ mainPc = "waitReady"
    /\ ready >= 2
    /\ start' = TRUE
    /\ mainPc' = "sleep"
    /\ UNCHANGED <<vars, ready, stop, payload, localSum, localOps,
                   producerPc, consumerPc>>

MainStops ==
    /\ mainPc = "sleep"
    /\ stop' = TRUE
    /\ mainPc' = "join"
    /\ UNCHANGED <<vars, ready, start, payload, localSum, localOps,
                   producerPc, consumerPc>>

MainJoins ==
    /\ mainPc = "join"
    /\ producerPc = "end"
    /\ consumerPc = "end"
    /\ mainPc' = "return"
    /\ UNCHANGED <<vars, ready, start, stop, payload, localSum, localOps,
                   producerPc, consumerPc>>

(***************************************************************************)
(* The producer.                                                           *)
(***************************************************************************)
ProducerReady ==
    /\ producerPc = "pin"
    /\ ready' = ready + 1
    /\ producerPc' = "waitStart"
    /\ UNCHANGED <<vars, start, stop, payload, localSum, localOps,
                   mainPc, consumerPc>>

ProducerChecksFlag ==
    /\ \/ producerPc = "waitStart" /\ start /\ producerPc' = "checkStop"
       \/ producerPc = "checkStop" /\ ~stop /\ producerPc' = "call"
       \/ producerPc = "checkStop" /\ stop /\ producerPc' = "end"
    /\ UNCHANGED <<vars, ready, start, stop, payload, localSum, localOps,
                   mainPc, consumerPc>>

ProducerCalls ==
    /\ producerPc = "call"
    /\ PushBegin(payload)
    /\ producerPc' = "push"
    /\ UNCHANGED <<ready, start, stop, payload, localSum, localOps,
                   mainPc, consumerPc>>

\* Mistake: the payload advances although the push failed.
ProducerSkipsFailed ==
    /\ producerPc = "push"
    /\ pushPc = "idle"
    /\ payload' = (payload + 1) % Width
    /\ producerPc' = IF pushOk THEN "checkStop" ELSE "call"
    /\ UNCHANGED <<vars, ready, start, stop, localSum, localOps,
                   mainPc, consumerPc>>

\* The inner loop: a push that failed is tried again, with no look at stop.
ProducerReturns ==
    /\ producerPc = "push"
    /\ pushPc = "idle"
    /\ IF pushOk
       THEN payload' = (payload + 1) % Width /\ producerPc' = "checkStop"
       ELSE producerPc' = "call" /\ UNCHANGED payload
    /\ UNCHANGED <<vars, ready, start, stop, localSum, localOps,
                   mainPc, consumerPc>>

(***************************************************************************)
(* The consumer.                                                           *)
(***************************************************************************)
ConsumerReady ==
    /\ consumerPc = "pin"
    /\ ready' = ready + 1
    /\ consumerPc' = "waitStart"
    /\ UNCHANGED <<vars, start, stop, payload, localSum, localOps,
                   mainPc, producerPc>>

ConsumerWaits ==
    /\ consumerPc = "waitStart"
    /\ start
    /\ consumerPc' = "checkStop"
    /\ UNCHANGED <<vars, ready, start, stop, payload, localSum, localOps,
                   mainPc, producerPc>>

\* One turn of the main loop up to the call of pop, or the step to the drain.
ConsumerChecksStop ==
    /\ consumerPc = "checkStop"
    /\ IF stop
       THEN consumerPc' = "drain" /\ UNCHANGED vars
       ELSE consumerPc' = "pop" /\ PopBegin
    /\ UNCHANGED <<ready, start, stop, payload, localSum, localOps,
                   mainPc, producerPc>>

ConsumerReturns ==
    /\ consumerPc = "pop"
    /\ popPc = "idle"
    /\ IF popOk
       THEN /\ localSum' = (localSum + out) % Width
            /\ localOps' = (localOps + 1) % Width
       ELSE UNCHANGED <<localSum, localOps>>
    /\ consumerPc' = "checkStop"
    /\ UNCHANGED <<vars, ready, start, stop, payload, mainPc, producerPc>>

\* Mistake: the consumer leaves at stop without draining.
ConsumerNeverDrains ==
    /\ consumerPc = "drain"
    /\ consumerPc' = "end"
    /\ UNCHANGED <<vars, ready, start, stop, payload, localSum, localOps,
                   mainPc, producerPc>>

ConsumerDrains ==
    /\ consumerPc = "drain"
    /\ PopBegin
    /\ consumerPc' = "drainPop"
    /\ UNCHANGED <<ready, start, stop, payload, localSum, localOps,
                   mainPc, producerPc>>

ConsumerDrained ==
    /\ consumerPc = "drainPop"
    /\ popPc = "idle"
    /\ IF popOk
       THEN localSum' = (localSum + out) % Width /\ consumerPc' = "drain"
       ELSE consumerPc' = "end" /\ UNCHANGED localSum
    /\ UNCHANGED <<vars, ready, start, stop, payload, localOps,
                   mainPc, producerPc>>

-----------------------------------------------------------------------------
PushSteps == (PushLoadReader \/ PushWrite \/ PushPublish) /\ UNCHANGED benchVars
PopSteps == (PopLoadWriter \/ PopRead \/ PopPublish) /\ UNCHANGED benchVars

Main == MainStarts \/ MainStops \/ MainJoins

ProducerThread ==
    \/ ProducerReady \/ ProducerChecksFlag \/ ProducerCalls
    \/ ProducerReturns \/ PushSteps

ConsumerThread ==
    \/ ConsumerReady \/ ConsumerWaits \/ ConsumerChecksStop \/ ConsumerReturns
    \/ ConsumerDrains \/ ConsumerDrained \/ PopSteps

Returned == mainPc = "return" /\ UNCHANGED allVars

BenchNext == Main \/ ProducerThread \/ ConsumerThread \/ Returned

BenchSpec == BenchInit /\ [][BenchNext]_allVars

\* main's sleep ends, both threads run.
BenchFairness ==
    /\ WF_allVars(Main)
    /\ WF_allVars(ProducerThread)
    /\ WF_allVars(ConsumerThread)

FairBenchSpec == BenchSpec /\ BenchFairness

-----------------------------------------------------------------------------
\* The sum the benchmark returns is the sum of 0, 1, ..., k - 1 for the k items
\* popped, and before stop the count is k: a push that is retried is counted
\* once, and both counters wrap as std::uint64_t does.  The consumer's cursor is
\* k up to a multiple of Modulus, which is enough when 2 * Width divides Modulus
\* (benchmark_spsc.cpp:92-105, 118-123).
CountsWhatWasPopped ==
    LET k == consumer.localReader
    IN  consumerPc \notin {"pop", "drainPop"} =>
            /\ localSum = ((k * (k - 1)) \div 2) % Width
            /\ consumerPc = "checkStop" => localOps = k % Width

\* The drain leaves at most one batch of items in the queue, although the
\* producer never flushes and may still be inside a push when the consumer leaves
\* (benchmark_spsc.cpp:100-102).
LeavesAtMostABatch ==
    mainPc = "return" =>
        Sub(producer.localWriter, consumer.localReader) <= PublishBatch

\* The run ends: after stop the producer is not caught in its inner loop with a
\* full ring and no consumer, as long as the ring holds a batch
\* (benchmark_spsc.cpp:119-121 against 100-102).
Returns == <>(mainPc = "return")
=============================================================================

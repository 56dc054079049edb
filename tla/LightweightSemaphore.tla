------------------------ MODULE LightweightSemaphore ------------------------
(***************************************************************************)
(* spsc_sema::LightweightSemaphore (includes/atomicops.h), for one thread  *)
(* that waits and one that signals: a count that is changed without the    *)
(* kernel, and a kernel semaphore the waiter sleeps on after it has        *)
(* brought the count below zero.  Each access to the count is a step.      *)
(*                                                                         *)
(* The kernel semaphore (sem_t and its like) is external: a wait returns   *)
(* when there is a unit to take, a timed wait may also give up while there *)
(* is none.  The 1024 turns of the spin loop end at any time.              *)
(***************************************************************************)
EXTENDS Integers

VARIABLES
    count,          \* m_count
    sema,           \* m_sema: the units inside
    waitPc,         \* where the waiter is inside tryWait or wait
    timeout,        \* its argument: "none" (-1), "zero", "some", "try" (tryWait)
    waitOk,         \* what it returned last
    signalPc        \* where the other thread is inside signal

waiterVars == <<waitPc, timeout, waitOk>>
semaVars == <<count, sema, waiterVars, signalPc>>

Timeouts == {"none", "zero", "some", "try"}

SemaInit ==
    /\ count = 0
    /\ sema = 0
    /\ waitPc = "idle"
    /\ timeout = "none"
    /\ waitOk = FALSE
    /\ signalPc = "idle"

-----------------------------------------------------------------------------
(***************************************************************************)
(* signal().                                                               *)
(***************************************************************************)
SignalBegin ==
    /\ signalPc = "idle"
    /\ signalPc' = "add"
    /\ UNCHANGED <<count, sema, waiterVars>>

\* Mistake: the signal that brings the count to zero wakes nobody.
SignalAddOffByOne ==
    /\ signalPc = "add"
    /\ count' = count + 1
    /\ signalPc' = IF count < -1 THEN "post" ELSE "idle"
    /\ UNCHANGED <<sema, waiterVars>>

SignalAdd ==
    /\ signalPc = "add"
    /\ count' = count + 1
    /\ signalPc' = IF count < 0 THEN "post" ELSE "idle"
    /\ UNCHANGED <<sema, waiterVars>>

SignalPost ==
    /\ signalPc = "post"
    /\ sema' = sema + 1
    /\ signalPc' = "idle"
    /\ UNCHANGED <<count, waiterVars>>

(***************************************************************************)
(* tryWait(), and wait(timeout_usecs), which begins with a tryWait().      *)
(***************************************************************************)
WaitBegin(t) ==
    /\ waitPc = "idle"
    /\ timeout' = t
    /\ waitPc' = "tryLoad"
    /\ UNCHANGED <<count, sema, waitOk, signalPc>>

\* The caller has the result: the call's argument and result are gone.
WaitReturned ==
    /\ waitPc = "idle"
    /\ timeout' = "none"
    /\ waitOk' = FALSE
    /\ UNCHANGED <<count, sema, waitPc, signalPc>>

WaitReturns(ok) == waitPc' = "idle" /\ waitOk' = ok

WaitTryLoad ==
    /\ waitPc = "tryLoad"
    /\ \/ count > 0 /\ waitPc' = "take" /\ UNCHANGED waitOk
       \/ count <= 0 /\ timeout = "try" /\ WaitReturns(FALSE)
       \/ count <= 0 /\ timeout # "try" /\ waitPc' = "spin" /\ UNCHANGED waitOk
    /\ UNCHANGED <<count, sema, timeout, signalPc>>

WaitTake ==
    /\ waitPc = "take"
    /\ count' = count - 1
    /\ WaitReturns(TRUE)
    /\ UNCHANGED <<sema, timeout, signalPc>>

\* waitWithPartialSpinning.
WaitSpin ==
    /\ waitPc = "spin"
    /\ waitPc' = IF count > 0 THEN "take" ELSE "commit"
    /\ UNCHANGED <<count, sema, timeout, waitOk, signalPc>>

WaitCommit ==
    /\ waitPc = "commit"
    /\ count' = count - 1
    /\ \/ count > 0 /\ WaitReturns(TRUE)
       \/ /\ count <= 0
          /\ waitPc' = CASE timeout = "none" -> "sleep"
                         [] timeout = "some" -> "timedSleep"
                         [] timeout = "zero" -> "restore"
          /\ UNCHANGED waitOk
    /\ UNCHANGED <<sema, timeout, signalPc>>

WaitSleep ==
    /\ waitPc \in {"sleep", "timedSleep"}
    /\ sema > 0
    /\ sema' = sema - 1
    /\ WaitReturns(TRUE)
    /\ UNCHANGED <<count, timeout, signalPc>>

WaitTimesOut ==
    /\ waitPc = "timedSleep"
    /\ sema = 0
    /\ waitPc' = "restore"
    /\ UNCHANGED <<count, sema, timeout, waitOk, signalPc>>

\* Mistake: after a timeout the count is put back without a look at what it was.
WaitRestoreBlindly ==
    /\ waitPc = "restore"
    /\ count' = count + 1
    /\ WaitReturns(FALSE)
    /\ UNCHANGED <<sema, timeout, signalPc>>

\* The count is put back, unless a signal came first.
WaitRestore ==
    /\ waitPc = "restore"
    /\ count' = count + 1
    /\ \/ count < 0 /\ WaitReturns(FALSE)
       \/ count >= 0 /\ waitPc' = "retake" /\ UNCHANGED waitOk
    /\ UNCHANGED <<sema, timeout, signalPc>>

WaitRetake ==
    /\ waitPc = "retake"
    /\ count' = count - 1
    /\ waitPc' = IF count > 0 THEN "retry" ELSE "restore"
    /\ UNCHANGED <<sema, timeout, waitOk, signalPc>>

\* The signal that came first owes the kernel semaphore a unit.
WaitRetry ==
    /\ waitPc = "retry"
    /\ \/ sema > 0 /\ sema' = sema - 1 /\ WaitReturns(TRUE)
       \/ sema = 0 /\ waitPc' = "restore" /\ UNCHANGED <<sema, waitOk>>
    /\ UNCHANGED <<count, timeout, signalPc>>

-----------------------------------------------------------------------------
SignalSteps == SignalAdd \/ SignalPost

WaitSteps ==
    \/ WaitTryLoad \/ WaitTake \/ WaitSpin \/ WaitCommit \/ WaitSleep
    \/ WaitTimesOut \/ WaitRestore \/ WaitRetake \/ WaitRetry

\* availableApprox().
AvailableApprox == IF count > 0 THEN count ELSE 0

\* The waiter has taken a unit off the count that it may still give back.
Committed == waitPc \in {"sleep", "timedSleep", "restore", "retry"}

\* A unit is in the kernel semaphore, or on its way there, exactly when a signal
\* has come for a waiter that brought the count below zero; the count is never
\* below -1 (atomicops.h:694-718, and the assertion at 751).
UnitsMatch ==
    /\ count >= -1
    /\ signalPc = "add" => count >= -1
    /\ count = -1 => Committed
    /\ sema + (IF signalPc = "post" THEN 1 ELSE 0) =
           IF (Committed /\ count >= 0) \/ waitPc = "retake" THEN 1 ELSE 0
=============================================================================

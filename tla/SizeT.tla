------------------------------- MODULE SizeT -------------------------------
(***************************************************************************)
(* Unsigned machine arithmetic on queue positions.                         *)
(*                                                                         *)
(* fastq::SPSC never reduces its cursors: localWriter_, localReader_ and   *)
(* the cached and published copies are std::size_t counters that run       *)
(* freely and wrap at 2^w.  They are compared only by equality and by      *)
(* wrapping subtraction, and a slot is the counter masked with             *)
(* capacity_ - 1.  Modulus stands for 2^w.  The constructor admits powers  *)
(* of two only, so Capacity divides Modulus; that divisibility is all the  *)
(* algorithm needs and all that is assumed here.  Lifetime connects it to  *)
(* the bit-level code of the constructor.                                  *)
(***************************************************************************)
EXTENDS Integers

CONSTANTS
    Modulus,    \* 2^w, the number of values of std::size_t
    Capacity    \* capacity_, the number of slots of buffer_

ASSUME SizeTAssumption ==
    /\ Modulus \in Nat \ {0}
    /\ Capacity \in Nat \ {0}
    /\ Modulus % Capacity = 0
    /\ Capacity < Modulus

Position == 0 .. Modulus - 1

\* a - b on std::size_t.
Sub(a, b) == (a - b) % Modulus

\* a + n on std::size_t; ++a is Add(a, 1).
Add(a, n) == (a + n) % Modulus

\* p & mask_, for mask_ = capacity_ - 1 and capacity_ a power of two.
Slot(p) == p % Capacity

Slots == 0 .. Capacity - 1
=============================================================================

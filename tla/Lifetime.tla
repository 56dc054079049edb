------------------------------ MODULE Lifetime ------------------------------
(***************************************************************************)
(* Construction and destruction of fastq::SPSC (spsc_queue.hpp), on the    *)
(* bits of capacity: the constructor's test, mask_, the allocation, the    *)
(* destructor.  The queue modules work with p % Capacity and assume that   *)
(* Capacity divides the number of values of std::size_t; here both are     *)
(* shown to be what the constructor's test and p & mask_ amount to.        *)
(***************************************************************************)
EXTENDS Integers, Bitwise

CONSTANT Bits       \* w, the width of std::size_t

ASSUME LifetimeAssumption == Bits \in Nat \ {0}

Values == 0 .. 2^Bits - 1

VARIABLES
    capacity,       \* the argument, then capacity_
    mask,           \* mask_
    allocated,      \* how many slots the allocator has handed out
    state           \* "new": an argument, no object yet; "checked": past the test,
                    \* mask_ not set; "alive"; "invalid_argument" and "bad_alloc":
                    \* thrown; "destroyed"

vars == <<capacity, mask, allocated, state>>

Init ==
    /\ capacity \in Values
    /\ mask = 0
    /\ allocated = 0
    /\ state = "new"

\* a - 1 on std::size_t.
Pred(a) == (a - 1) % 2^Bits

\* The constructor's test for an argument that is not a power of two.
Rejected(c) == c = 0 \/ (c & Pred(c)) # 0

Construct ==
    /\ state = "new"
    /\ state' = IF Rejected(capacity) THEN "invalid_argument" ELSE "checked"
    /\ UNCHANGED <<capacity, mask, allocated>>

\* Mistake: mask_ is the capacity.
AllocateWithCapacityAsMask ==
    /\ state = "checked"
    /\ mask' = capacity
    /\ \/ state' = "alive" /\ allocated' = allocated + capacity
       \/ state' = "bad_alloc" /\ UNCHANGED allocated
    /\ UNCHANGED capacity

\* mask_ is set and the buffer allocated, or the allocator throws and there is
\* no object to destroy.
Allocate ==
    /\ state = "checked"
    /\ mask' = capacity - 1
    /\ \/ state' = "alive" /\ allocated' = allocated + capacity
       \/ state' = "bad_alloc" /\ UNCHANGED allocated
    /\ UNCHANGED capacity

Destroy ==
    /\ state = "alive"
    /\ allocated' = allocated - capacity
    /\ state' = "destroyed"
    /\ UNCHANGED <<capacity, mask>>

Next == Construct \/ Allocate \/ Destroy

Spec == Init /\ [][Next]_vars

-----------------------------------------------------------------------------
\* The test accepts exactly the powers of two.  In a live queue p & mask_ is then
\* p % capacity_ for every counter value: a slot the allocation has, the same one
\* again after a lap, and consecutive across the wrap of the counter
\* (spsc_queue.hpp:57-63, 90, 111).
MaskIsModulo ==
    /\ state # "new" =>
           (state # "invalid_argument" <=> \E k \in 0 .. Bits - 1 : capacity = 2^k)
    /\ state = "alive" =>
           \A p \in Values :
               /\ (p & mask) = p % capacity /\ (p & mask) < allocated
               /\ (((p + 1) % 2^Bits) & mask) = ((p & mask) + 1) % capacity
=============================================================================

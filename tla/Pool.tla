-------------------------------- MODULE Pool --------------------------------
(***************************************************************************)
(* What a queue promises that keeps no order between its threads: an item  *)
(* that was put in is taken out once, unaltered, in any order.  How many   *)
(* fit and when a call fails is the business of the detailed               *)
(* specification.                                                          *)
(***************************************************************************)
EXTENDS Bags

CONSTANT Data       \* the items that can be put in

VARIABLES
    items,      \* the items inside, a bag
    out         \* the item taken out last

Put(d) ==
    /\ items' = items (+) SetToBag({d})
    /\ UNCHANGED out

Take(d) ==
    /\ BagIn(d, items)
    /\ items' = items (-) SetToBag({d})
    /\ out' = d

Next == \E d \in Data : Put(d) \/ Take(d)

Spec == items = EmptyBag /\ [][Next]_<<items, out>>
=============================================================================

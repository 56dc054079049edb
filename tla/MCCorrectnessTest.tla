------------------------- MODULE MCCorrectnessTest -------------------------
(***************************************************************************)
(* CorrectnessTest for TLC: a ring of two or four slots, a few items.      *)
(***************************************************************************)
EXTENDS CorrectnessTest

ItemsPushed == 0 .. N - 1
=============================================================================

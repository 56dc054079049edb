---------------------------- MODULE MCFastqSPSC ----------------------------
(***************************************************************************)
(* FastqSPSC for TLC: items are model values, since the queue only copies  *)
(* them.                                                                   *)
(***************************************************************************)
EXTENDS FastqSPSC
=============================================================================

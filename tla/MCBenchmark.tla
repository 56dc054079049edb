---------------------------- MODULE MCBenchmark ----------------------------
(***************************************************************************)
(* Benchmark for TLC: payloads of two bits.                                *)
(***************************************************************************)
EXTENDS Benchmark

Payloads == 0 .. Width - 1
=============================================================================

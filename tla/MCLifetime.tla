----------------------------- MODULE MCLifetime -----------------------------
(***************************************************************************)
(* Lifetime for TLC: a std::size_t of a few bits, every argument.          *)
(***************************************************************************)
EXTENDS Lifetime
=============================================================================

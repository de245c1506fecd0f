---------------------------- MODULE MCRateLimit ----------------------------
(* RateLimit on three callers, for TLC. *)
EXTENDS RateLimit, TLC

Symmetry == Permutations(Callers)
============================================================================

------------------------------ MODULE MCWsPool ------------------------------
(* WsPool on two requests, for TLC. *)
EXTENDS WsPool, TLC

Symmetry == Permutations(Requests)
============================================================================

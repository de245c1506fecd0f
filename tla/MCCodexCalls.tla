---------------------------- MODULE MCCodexCalls ----------------------------
(* CodexCalls on two calls and two loops, for TLC. *)
EXTENDS CodexCalls
=============================================================================

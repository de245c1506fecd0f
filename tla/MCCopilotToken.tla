--------------------------- MODULE MCCopilotToken ---------------------------
(* CopilotToken on two requests and the loop, for TLC. *)
EXTENDS CopilotToken
============================================================================

--------------------------- MODULE MessagesProtocol ---------------------------
(***************************************************************************)
(* What a client of the Messages API is promised of a stream: one          *)
(* message_start, content blocks one behind the other with consecutive     *)
(* indices and deltas of their own kind, then one message_delta and one    *)
(* message_stop, or at any time an error and nothing after it.  A stream   *)
(* that the proxy translates leaves no block open behind an error; one it  *)
(* relays may be cut anywhere.  (src/src/routes/messages/anthropic_types.rs*)
(* gives the events.)                                                      *)
(***************************************************************************)
EXTENDS Integers, Sequences

VARIABLES relayed,   \* whether the upstream speaks the Messages API itself
          phase,     \* "before", "message", "stopping", "stopped" or "failed"
          open,      \* <<>>, or <<index, kind>> of the open block
          next,      \* the index of the next block
          last       \* the event the client received last

vars == <<relayed, phase, open, next, last>>

Init ==
    /\ relayed \in BOOLEAN
    /\ phase = "before" /\ open = <<>> /\ next = 0 /\ last.type = "none"

Deltas ==
    [text |-> {"text"}, thinking |-> {"thinking", "signature"}, tool_use |-> {"input_json"},
     server_tool_use |-> {"input_json"}, web_search_tool_result |-> {}]

Start == last'.type = "message_start" /\ phase = "before" /\ phase' = "message"
         /\ UNCHANGED <<open, next>>

OpenBlock ==
    /\ last'.type = "block_start" /\ phase = "message" /\ open = <<>> /\ last'.index = next
    /\ open' = <<next, last'.kind>> /\ next' = next + 1 /\ UNCHANGED phase

Delta ==
    /\ last'.type = "block_delta" /\ phase = "message" /\ open # <<>>
    /\ last'.index = open[1] /\ last'.kind \in Deltas[open[2]]
    /\ UNCHANGED <<phase, open, next>>

CloseBlock ==
    /\ last'.type = "block_stop" /\ phase = "message" /\ open # <<>> /\ last'.index = open[1]
    /\ open' = <<>> /\ UNCHANGED <<phase, next>>

Complete ==
    /\ last'.type = "message_delta" /\ phase = "message" /\ open = <<>>
    /\ phase' = "stopping" /\ UNCHANGED <<open, next>>

Stop == last'.type = "message_stop" /\ phase = "stopping" /\ phase' = "stopped"
        /\ UNCHANGED <<open, next>>

Fail ==
    /\ last'.type = "error" /\ phase \in {"before", "message"} \union (IF relayed THEN {"stopping"} ELSE {})
    /\ open = <<>> \/ relayed
    /\ phase' = "failed" /\ UNCHANGED <<open, next>>

Ping == last'.type = "ping" /\ phase \notin {"stopped", "failed"} /\ UNCHANGED <<phase, open, next>>

Next == UNCHANGED relayed /\ (Start \/ OpenBlock \/ Delta \/ CloseBlock \/ Complete \/ Stop \/ Fail \/ Ping)

Spec == Init /\ [][Next]_vars
===============================================================================

-------------------------------- MODULE MCGateway --------------------------------
(* The gates of the proxy on a request, two admin calls, and one edit by the operator. *)
EXTENDS Gateway

CONSTANTS r1, p1, p2

Config(mapping, provider, native, search, gate) ==
  [mapping |-> mapping, provider |-> provider, native |-> native, search |-> search, gate |-> gate,
   full |-> TRUE, keyed |-> TRUE, text |-> "json"]

MCDefaults == [Config("claude", "none", TRUE, "copilot", FALSE) EXCEPT !.keyed = FALSE]

MCStarts ==
  {[config |-> Config("claude", "openai-responses", TRUE, "copilot", TRUE), manual |-> FALSE],
   [config |-> Config("gpt", "anthropic", FALSE, "P", FALSE), manual |-> TRUE]}
MCEdits == {[field |-> "none"], [field |-> "mapping", value |-> "P"],
            [field |-> "provider", value |-> "openai-responses"]}
MCSaves == {Empty, Malformed, [Config("P", "none", FALSE, "strip", TRUE) EXCEPT !.full = FALSE]}

Kind(endpoint, model, controls, search) ==
  [endpoint |-> endpoint, model |-> model, controls |-> controls, search |-> search]
MCKinds ==
  {Kind("messages", "claude", controls, search) : controls, search \in BOOLEAN}
    \cup {Kind("messages", model, TRUE, FALSE) : model \in {"P", "old"}}
    \cup {Kind("provider messages", "P", TRUE, FALSE)}
    \cup {Kind(endpoint, "claude", FALSE, FALSE) : endpoint \in {"chat", "responses", "compact"}}
    \cup {Kind(endpoint, "P", FALSE, FALSE) :
            endpoint \in {"embeddings", "images"} \cup Scoped}
================================================================================

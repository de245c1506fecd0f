--------------------------------- MODULE Gateway ---------------------------------
(***************************************************************************)
(* The routes of the proxy as the gates a request passes, in the order of *)
(* each handler, on its way to Copilot or to a provider: model mapping,   *)
(* the check of what Responses cannot express, shared admission, web      *)
(* search, provider aliases, the premium gate, manual approval, choice of *)
(* the wire.  Requests wait at several gates, and the configuration       *)
(* (ConfigStore) and the quota (PremiumQuota) change while they do.       *)
(***************************************************************************)
EXTENDS ConfigStore, PremiumQuota, Sequences, FiniteSets

CONSTANTS
  Requests,
  Kinds,       \* the requests clients send: endpoint, model, and whether they carry such controls or a search tool
  Starts,      \* how a server may start: its configuration, and whether with --manual
  MaxActors,   \* bound: requests and admin calls of a behaviour
  MaxTurns     \* bound: edits of the file and changes of the quota together

\* What the endpoints are, and that only Messages requests can carry what the Responses API cannot express.
Endpoints == {"chat", "responses", "compact", "messages", "images", "embeddings", "provider messages",
              "provider chat", "provider responses", "provider compact", "alpha search"}
ASSUME GatewayAssumption ==
  /\ \A kind \in Kinds : /\ kind.endpoint \in Endpoints /\ kind.model \in STRING
                         /\ kind.controls \in BOOLEAN /\ kind.search \in BOOLEAN
                         /\ kind.controls => kind.endpoint \in {"messages", "provider messages"}
  /\ \A start \in Starts : start.config \in Configs /\ Readable(start.config) /\ start.manual \in BOOLEAN

VARIABLES
  req,      \* req[r]: where a request stands
  readers,  \* requests whose blocking read of the operator's answer is under way
  manual    \* started with --manual

vars == <<configVars, premiumVars, req, readers, manual>>

\* Endpoints that name the provider in their path and run no admission (see README).
Scoped == {"provider chat", "provider responses", "provider compact", "alpha search"}
Approved == {"chat", "responses", "messages"}

\* The gates of each handler, in its order.
ChatGates == <<"map", "admit", "alias", "premium", "model", "approve", "send">>
ResponsesGates == <<"map", "admit", "alias", "premium", "transport", "approve", "send">>
CompactGates == <<"map", "admit", "alias", "premium", "transport", "send">>
\* A mutant: web search is dispatched before admission.
SearchFirst == <<"map", "controls", "search", "admit", "alias", "premium", "approve", "route", "send">>
MessagesGates == <<"map", "controls", "admit", "search", "alias", "premium", "approve", "route", "send">>
ImagesGates == <<"admit", "premium", "resolve", "supports", "send">>
EmbeddingsGates == <<"admit", "send">>

\* The providers' handlers: no admission of their own, neither behind an alias nor behind their own routes.
ForMessages == <<"resolve", "supports", "recheck", "send">>
ProviderMessagesGates == <<"controls", "admit">> \o ForMessages
ForChat == <<"resolve", "supports", "send">>
ForResponses == <<"resolve", "supports", "send">>
ForCompact == <<"resolve", "supports", "send">>
ForSearch == <<"resolve", "supports", "send">>

\* The handler that takes a request with an alias over.
OfProvider(endpoint) ==
  CASE endpoint = "messages" -> ForMessages
    [] endpoint = "chat" -> ForChat
    [] endpoint = "responses" -> ForResponses
    [] endpoint = "compact" -> ForCompact

Gates(endpoint) ==
  CASE endpoint = "chat" -> ChatGates
    [] endpoint = "responses" -> ResponsesGates
    [] endpoint = "compact" -> CompactGates
    [] endpoint = "messages" -> MessagesGates
    [] endpoint = "provider messages" -> ProviderMessagesGates
    [] endpoint = "images" -> ImagesGates
    [] endpoint = "embeddings" -> EmbeddingsGates
    [] endpoint = "provider chat" -> ForChat
    [] endpoint = "provider responses" -> ForResponses
    [] endpoint = "provider compact" -> ForCompact
    [] endpoint = "alpha search" -> ForSearch

\* What the catalogue says a model can be reached by.
Offers(model) == CASE model = "claude" -> {"messages", "responses"}
                   [] model = "gpt" -> {"responses"}
                   [] OTHER -> {}

\* default_capabilities of a provider's type, for the endpoint's capability.
Supports(type, endpoint) ==
  CASE endpoint \in {"messages", "provider messages"} -> TRUE
    [] endpoint \in {"chat", "provider chat"} -> type = "openai-compatible"
    [] endpoint \in {"responses", "compact", "provider responses", "provider compact", "alpha search"} ->
         type = "openai-responses"
    [] endpoint = "images" -> type # "anthropic"
    [] OTHER -> FALSE

\* provider_model_uses_responses_api.
UsesResponses(config) == config.provider = "openai-responses"

\* should_use_messages_api, should_use_responses_api.
Wire(model, config) ==
  CASE config.native /\ "messages" \in Offers(model) -> "messages"
    [] "responses" \in Offers(model) /\ ~(config.native /\ "messages" \in Offers(model)) -> "responses"
    [] OTHER -> "chat"

Nowhere == [kind |-> [endpoint |-> "none"], todo |-> <<>>, status |-> "new", model |-> "none", admitted |-> 0,
            paid |-> FALSE, approved |-> FALSE, checked |-> Defaults, moved |-> FALSE, with |-> "none",
            wire |-> "none", searched |-> FALSE]

Init ==
  /\ \E start \in Starts : InitConfig(start.config) /\ manual = start.manual
  /\ InitPremium(cache.gate)
  /\ req = [r \in Requests |-> Nowhere]
  /\ readers = {}
--------------------------------------------------------------------------------
Open(r) == req[r].status = "open"
Gate(r, gate) == Open(r) /\ Head(req[r].todo) = gate
Actors == {r \in Requests : req[r].status # "new"} \cup {p \in Procs : proc[p].at # "idle"}
NoneMoves == UNCHANGED <<configVars, premiumVars, manual>>

Ended(status) == [Nowhere EXCEPT !.status = status]
Become(r, new) == req' = [req EXCEPT ![r] = new]
Passed(r) == [req[r] EXCEPT !.todo = Tail(@)]
Pass(r) == Become(r, Passed(r)) /\ NoneMoves /\ UNCHANGED readers
PassIf(r, condition) ==
  /\ Become(r, IF condition THEN Passed(r) ELSE Ended("refused"))
  /\ NoneMoves /\ UNCHANGED readers

\* A request arrives and is well formed.
Arrive(r, kind) ==
  /\ req[r] = Nowhere
  /\ Become(r, [Nowhere EXCEPT !.kind = kind, !.todo = Gates(kind.endpoint), !.status = "open", !.model = kind.model])
  /\ NoneMoves /\ UNCHANGED readers

\* resolve_mapped_model.
Map(r) ==
  /\ Gate(r, "map")
  /\ Become(r, [Passed(r) EXCEPT !.model = IF @ = "claude" THEN cache.mapping ELSE @])
  /\ NoneMoves /\ UNCHANGED readers

\* Where a request would go under a configuration: resolve_web_search_route, the alias, the wire.
WouldUseResponses(q, config) ==
  CASE q.kind.endpoint = "provider messages" -> UsesResponses(config)
    [] q.kind.search /\ config.search = "copilot" -> TRUE
    [] q.kind.search /\ config.search = "P" -> UsesResponses(config)
    [] OTHER -> IF q.model = "P" THEN UsesResponses(config) ELSE Wire(q.model, config) = "responses"

\* validate_selected_responses_controls; post_provider_messages.
Controls(r) ==
  /\ Gate(r, "controls")
  /\ Become(r, IF req[r].kind.controls /\ WouldUseResponses(req[r], cache) THEN Ended("refused")
               ELSE [Passed(r) EXCEPT !.checked = cache])
  /\ NoneMoves /\ UNCHANGED readers

\* check_shared_admission: pacing may keep the request waiting; the queue, the interval or the budget may refuse it.
Admit(r) ==
  /\ Gate(r, "admit")
  /\ \/ Become(r, [Passed(r) EXCEPT !.admitted = @ + 1])
     \/ Become(r, Ended("refused"))
  /\ NoneMoves /\ UNCHANGED readers

\* try_handle_web_search: a provider's search, Copilot's behind the premium gate but without approval, or a request
\* without the tool.
Search(r) ==
  /\ Gate(r, "search")
  /\ LET passed == [Passed(r) EXCEPT !.moved = cache # req[r].checked]
         q == [passed EXCEPT !.searched = TRUE]
     IN Become(r, CASE ~q.kind.search \/ cache.search = "strip" -> passed
                    [] q.kind.search /\ cache.search = "P" -> [q EXCEPT !.todo = ForMessages]
                    [] OTHER -> [q EXCEPT !.todo = <<"premium", "send">>, !.wire = "responses"])
  /\ NoneMoves /\ UNCHANGED readers

\* parse_provider_model_alias: the provider's handler takes the request over.
Alias(r) ==
  /\ Gate(r, "alias")
  /\ Become(r, IF req[r].model = "P" THEN [req[r] EXCEPT !.todo = OfProvider(req[r].kind.endpoint)] ELSE Passed(r))
  /\ NoneMoves /\ UNCHANGED readers

Premium(r) ==
  /\ Gate(r, "premium")
  /\ Become(r, IF Blocks(cache.gate) THEN Ended("refused") ELSE [Passed(r) EXCEPT !.paid = TRUE])
  /\ NoneMoves /\ UNCHANGED readers

\* gpt-5.4 is refused on Chat Completions.
Model(r) == Gate(r, "model") /\ PassIf(r, req[r].model # "gpt")

\* get_responses_transport_for_model: 400 model_not_supported without an endpoint.
Transport(r) ==
  /\ Gate(r, "transport")
  /\ Become(r, IF "responses" \in Offers(req[r].model) THEN [Passed(r) EXCEPT !.wire = "responses"]
               ELSE Ended("refused"))
  /\ NoneMoves /\ UNCHANGED readers

\* await_approval: a blocking thread asks and reads a line; other readers may be waiting for one too.
Ask(r) ==
  /\ Gate(r, "approve") /\ r \notin readers
  /\ IF manual THEN readers' = readers \cup {r} /\ UNCHANGED req
     ELSE Become(r, Passed(r)) /\ UNCHANGED readers
  /\ NoneMoves

\* The operator's line, or the end of the input, reaches one of the readers, whose request may be gone.
Answered(r, yes) ==
  /\ r \in readers
  /\ readers' = readers \ {r}
  /\ Become(r, CASE ~Open(r) -> req[r]
                 [] Open(r) /\ yes -> [Passed(r) EXCEPT !.approved = TRUE]
                 [] OTHER -> Ended("refused"))
  /\ NoneMoves

\* find_endpoint_model and the choice among the three flows, read again after the waits.
Route(r) ==
  /\ Gate(r, "route")
  /\ Become(r, [Passed(r) EXCEPT !.wire = Wire(req[r].model, cache), !.moved = @ \/ cache # req[r].checked,
                                  !.checked = Defaults])
  /\ NoneMoves /\ UNCHANGED readers

\* resolve_provider_config: the configuration of the provider read here is the one the request is sent with.
Resolve(r) ==
  /\ Gate(r, "resolve")
  /\ Become(r, IF cache.provider = "none" THEN Ended("refused")
               ELSE [Passed(r) EXCEPT !.with = cache.provider,
                                      !.wire = IF UsesResponses(cache) THEN "responses" ELSE cache.provider])
  /\ NoneMoves /\ UNCHANGED readers

Capable(r) == Gate(r, "supports") /\ PassIf(r, Supports(req[r].with, req[r].kind.endpoint))

\* A mutant: the provider's handler trusts the check of the route.
Trust(r) == Gate(r, "recheck") /\ Pass(r)

\* handle_provider_messages_for_provider checks the controls against the configuration it sends with.
Recheck(r) == Gate(r, "recheck") /\ PassIf(r, ~(req[r].kind.controls /\ req[r].wire = "responses"))

\* create_messages, create_responses, create_chat_completions, create_embeddings, forward_provider_*: the request is
\* built, refused for a missing token or a URL that is not allowed, or on its way.
Send(r) ==
  /\ Gate(r, "send")
  /\ \/ Become(r, [req[r] EXCEPT !.status = "sent", !.todo = <<>>, !.checked = Defaults])
     \/ Become(r, Ended("failed"))
  /\ NoneMoves /\ UNCHANGED readers

\* The client goes away while its request waits for its slot, for approval or for the token of a provider: the
\* handler is dropped, a blocking reader is not.
HangUp(r) ==
  /\ Open(r) /\ Head(req[r].todo) \in {"admit", "approve", "resolve"}
  /\ Become(r, Ended("gone"))
  /\ NoneMoves /\ UNCHANGED readers

RequestStep(r) ==
  \/ Map(r) \/ Controls(r) \/ Admit(r) \/ Search(r) \/ Alias(r) \/ Premium(r) \/ Model(r) \/ Transport(r)
  \/ Ask(r) \/ Route(r) \/ Resolve(r) \/ Capable(r) \/ Recheck(r) \/ Send(r) \/ HangUp(r)

RequestsStay == UNCHANGED <<req, readers, manual>>

Next ==
  \/ \E r \in Requests, kind \in Kinds : Cardinality(Actors) < MaxActors /\ Arrive(r, kind)
  \/ \E r \in Requests : RequestStep(r) \/ \E yes \in BOOLEAN : Answered(r, yes)
  \/ /\ UNCHANGED premiumVars /\ RequestsStay
     /\ \/ \E p \in Procs, edit \in Edits : Cardinality(Actors) < MaxActors /\ Begin(p, edit)
        \/ \E p \in Procs : ProcStep(p)
        \/ saves + changes < MaxTurns /\ \E content \in Saves : Save(content)
  \/ RefresherStep /\ UNCHANGED configVars /\ RequestsStay
  \/ saves + changes < MaxTurns /\ QuotaChanges /\ UNCHANGED configVars /\ RequestsStay

Spec == Init /\ [][Next]_vars /\ PremiumFairness
--------------------------------------------------------------------------------
Sent(r) == req[r].status = "sent"
ToCopilot(r) == req[r].with = "none"

\* Whatever way a request takes, past web search, aliases and changes of the configuration, it is sent after exactly
\* one admission, unless the provider is in its path; to Copilot's generation only past the premium gate, and with
\* --manual only after the operator's yes, web search and compaction being the exceptions.  handle_completion (messages,
\* chat), handle_responses, handle_responses_compact, try_handle_web_search, images::handle.
GatesPassed == \A r \in Requests : Sent(r) =>
  /\ req[r].admitted = IF req[r].kind.endpoint \in Scoped THEN 0 ELSE 1
  /\ (ToCopilot(r) /\ req[r].kind.endpoint # "embeddings") => req[r].paid
  /\ (manual /\ ToCopilot(r) /\ req[r].kind.endpoint \in Approved /\ ~req[r].searched) => req[r].approved

\* What the Responses API cannot express is never dropped silently: a Messages request that carries such controls
\* reaches Responses only if the configuration changed between the check and the choice of the wire, and a provider's
\* Responses endpoint never.  validate_selected_responses_controls, handle_provider_messages_for_provider.
ControlsChecked == \A r \in Requests :
  (Sent(r) /\ req[r].kind.controls /\ req[r].wire = "responses") => ToCopilot(r) /\ req[r].moved
================================================================================

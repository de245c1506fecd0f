--------------------------- MODULE RequestOptions ---------------------------
(***************************************************************************)
(* What a Messages request wants besides an answer: the tools a model may  *)
(* call, the one it has to, and how much it should think.  Every API says  *)
(* it differently: src/src/routes/messages/responses_translation.rs,       *)
(* non_stream_translation.rs, preprocess.rs and routes/provider/messages.rs*)
(*                                                                         *)
(* What is wanted is a record: choice, "auto", "any", "none" or the name of*)
(* a tool; thinking, "unset", "adaptive", "enabled" (with a budget) or     *)
(* "disabled"; display, "unset", "omitted" or "summarized"; effort and     *)
(* topK, whether the client gives them.                                    *)
(*                                                                         *)
(* What is asked of an upstream is a function from the fields of its       *)
(* request to who decided them: the client, the configuration or the proxy.*)
(***************************************************************************)
EXTENDS RequestValidation

NoWishes == [choice |-> "auto", thinking |-> "unset", display |-> "unset",
             effort |-> FALSE, topK |-> FALSE]

Scalars == {"auto", "any", "none"}
NoFields == [field \in {} |-> "client"]
Field(name, given, source) == IF given THEN name :> source ELSE NoFields
Without(fields, names) == Restrict(fields, DOMAIN fields \ names)

\* validate_tool_choice: a tool that is loaded later cannot be chosen, and the
\* bridge only when it leads to one.
ValidChoice(choice, catalog, canSearch) ==
    \/ choice \in Scalars
    \/ Kind(catalog, choice) = "function"
    \/ Kind(catalog, choice) = "bridge" /\ SearchEnabled(catalog, canSearch)

ScalarChoice(choice) == IF choice = "any" THEN "required" ELSE choice

-----------------------------------------------------------------------------
(* The tools that are offered: [type, name, finds].                        *)

Offer(type, name, finds) == [type |-> type, name |-> name, finds |-> finds]
FunctionTool(name) == Offer("function", name, {})

\* translate_anthropic_tools_to_openai
ChatTools(catalog) == {FunctionTool(name) : name \in DOMAIN catalog}

\* validate_chat_tool_controls
ChatToolsRefused(catalog) == "deferred" \in {catalog[name] : name \in DOMAIN catalog}

\* list_deferred_tool_names
Deferred(catalog) == {name \in DOMAIN catalog : catalog[name] = "deferred"}

\* create_responses_tool_search_definition; it takes the place of the bridge.
SearchTool(catalog) == Offer("tool_search", "", Deferred(catalog))

\* convert_deferred_tool_to_namespace
NamespaceTool(name) == Offer("namespace", name, {})

\* Mutant: the tools to be found are hidden although nothing can find them.
NamespacesAlways(catalog, searches) ==
    {CASE catalog[name] = "deferred" -> NamespaceTool(name)
       [] catalog[name] = "bridge" -> SearchTool(catalog)
       [] OTHER -> FunctionTool(name) :
        name \in {n \in DOMAIN catalog : catalog[n] = "bridge" => searches}}

\* convert_anthropic_tools: a bridge that leads nowhere is left out.
ResponsesTools(catalog, searches) ==
    {CASE searches /\ catalog[name] = "deferred" -> NamespaceTool(name)
       [] searches /\ catalog[name] = "bridge" -> SearchTool(catalog)
       [] OTHER -> FunctionTool(name) :
        name \in {n \in DOMAIN catalog : catalog[n] = "bridge" => searches}}

\* convert_anthropic_tool_choice: the search cannot be chosen by its name.
ResponsesChoice(choice, catalog, searches) ==
    IF searches /\ Kind(catalog, choice) = "bridge" THEN "auto" ELSE ScalarChoice(choice)

NativeTools(catalog) == {Offer(catalog[name], name, {}) : name \in DOMAIN catalog}

-----------------------------------------------------------------------------
(* How much a model should think.                                          *)

Thinks(wants) == wants.thinking \notin {"unset", "disabled"}

\* prepare_messages_api_payload: a model that thinks as it sees fit is told to,
\* unless the client has said something or forces the choice of a tool.  (An
\* effort configured for the model, which goes before the client's, is left out.)
NativeFields(wants, adaptive) ==
    LET free == adaptive /\ wants.choice \in {"auto", "none"}
    IN Field("thinking", wants.thinking # "unset", "client")
       @@ Field("thinking", free, "proxy")
       @@ Field("effort", wants.effort, "client") @@ Field("effort", free, "proxy")
       @@ Field("top_k", wants.topK, "client")

\* translate_to_openai_with_options, get_thinking_budget: the client's budget
\* within the limits of the model, if the catalogue has any.
ChatFields(wants, budgeted) ==
    Field("thinking_budget", budgeted /\ Thinks(wants),
          IF wants.thinking = "enabled" THEN "client" ELSE "proxy")
    @@ Field("reasoning_effort", wants.effort /\ wants.thinking # "disabled", "client")
    @@ Field("top_k", wants.topK, "client")

\* chat_suppresses_thinking; validate_chat_config_extensions takes no other.
SuppressesThinking(wants) == wants.display = "omitted"
ChatDisplayRefused(wants) == wants.display = "summarized"

\* The reasoning of a Responses request.  An effort of "none" is no thinking.
ResponsesFields(wants) ==
    Field("effort", wants.thinking # "disabled", IF wants.effort THEN "client" ELSE "config")
    @@ Field("summary", wants.thinking # "disabled" /\ wants.display # "omitted", "proxy")

\* validate_responses_request_controls
ResponsesControlsRefused(wants) == wants.topK

-----------------------------------------------------------------------------
(* Providers, which are configured: topK, a default for the client's, and  *)
(* extraBody, fields to be sent with every request.                        *)

\* apply_model_defaults
Defaulted(wants, topK) == [wants EXCEPT !.topK = @ \/ topK]

\* apply_missing_extra_body
ExtraBody(extraBody) == [field \in extraBody |-> "config"]

\* The fields of the Messages API are never the configuration's.
KnownFields == {"thinking", "effort", "top_k"}
ProviderNativeFields(wants, extraBody) ==
    Field("thinking", wants.thinking # "unset", "client")
    @@ Field("effort", wants.effort, "client") @@ Field("top_k", wants.topK, "client")
    @@ ExtraBody(extraBody \ KnownFields)

\* apply_openai_compatible_extra_body_thinking_budget: not to think is the
\* client's choice, how much is the configuration's.
BudgetSettled(wants, extraBody, fields) ==
    IF wants.thinking = "disabled"
    THEN Without(fields, {"thinking_budget", "reasoning_effort"})
    ELSE ExtraBody(extraBody \cap {"thinking_budget"}) @@ fields

\* create_openai_compatible_payload
ProviderChatFields(wants, extraBody) ==
    LET asked == Field("thinking_budget", wants.thinking = "enabled", "client")
                 @@ ChatFields(wants, FALSE)
    IN BudgetSettled(wants, extraBody, asked @@ ExtraBody(extraBody))
       @@ Field("parallel_tool_calls", TRUE, "proxy")
=============================================================================

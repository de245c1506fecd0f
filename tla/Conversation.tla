---------------------------- MODULE Conversation ----------------------------
(***************************************************************************)
(* A client talks to models through POST /v1/messages.  It keeps the whole *)
(* conversation and sends all of it with every turn, each turn to a model  *)
(* it chooses; the proxy keeps nothing (src/src/routes/messages/handler.rs,*)
(* api_flows.rs).  So what one upstream said is shown to the next one only *)
(* as far as the translations of the answer and of the next request agree. *)
(*                                                                         *)
(* A model is one of Copilot's or of a third-party provider, whose requests*)
(* the proxy translates and nothing else (routes/provider/messages.rs).    *)
(*                                                                         *)
(* A turn: Ask (the client adds a message, or answers the calls it was     *)
(* given), Handle (the proxy prepares, translates and forwards it, or      *)
(* refuses), Answer (the upstream's answer comes back, translated).        *)
(***************************************************************************)
EXTENDS Preprocess, ChatRequests, ResponsesRequests, RequestOptions

CONSTANTS
    Models,          \* records, with the settings of a model: its api, "messages",
                     \* "chat" or "responses"; claude; search, for tools; adaptive
                     \* and budgeted, its thinking; provider, whether it is one's,
                     \* with caps, cache, topK and extraBody as configured
    Mixes,           \* the sets of models a conversation may be held with
    Catalogs,        \* the tools a conversation may be about
    MaxTurns,        \* bound on the turns of a conversation
    SystemPrompts,   \* contents of the system prompt
    Questions(_),    \* what a user may say in a turn: sequences of messages
    Replies(_, _),   \* results a tool may have: of a call, in a turn
    Wants(_, _),     \* what else a client may want, with a catalog, in a turn
    Beside(_),       \* blocks a user may send beside results, in a turn
    Outputs(_, _, _) \* what a model may answer, with a catalog, in a turn

VARIABLES
    catalog,         \* the tools of the conversation
    tokenBased,      \* token_based_billing
    system,          \* the system prompt
    messages,        \* the conversation as the client keeps it
    model,           \* the model of the turn
    wants,           \* what the client wants of the turn: see RequestOptions
    phase,           \* "idle", "asked", "sent" or "refused"
    request,         \* what was last sent upstream
    answers,         \* the answers: where in messages, by whom, and what
    lastTo           \* the last body each model has answered

vars == <<catalog, tokenBased, system, messages, model, wants, phase, request, answers,
          lastTo>>

NoRequest == [body |-> <<>>, system |-> <<>>, initiator |-> "none", compact |-> 0,
              tools |-> {}, choice |-> "auto", fields |-> NoFields, cached |-> {}]

Turn == Cardinality({i \in DOMAIN messages : messages[i].role = "assistant"}) + 1

Init ==
    /\ catalog \in Catalogs
    /\ tokenBased \in BOOLEAN
    /\ system \in SystemPrompts
    /\ messages = <<>>
    /\ model = CHOOSE m \in Models : TRUE
    /\ wants = NoWishes
    /\ phase = "idle"
    /\ request = NoRequest
    /\ answers = <<>>
    /\ lastTo = [m \in Models |-> <<>>]

-----------------------------------------------------------------------------
(* The client. *)

\* The calls of the last answer, which the next message has to answer.
Pending == IF messages = <<>> THEN <<>> ELSE OfType(Last(messages).blocks, {"tool_use"})

\* The results of the pending calls, in order, and what is said beside them.
ReplyBlocks ==
    {[k \in DOMAIN Pending |-> choice[k]] \o beside :
        choice \in {f \in [DOMAIN Pending ->
                        UNION {Replies(Pending[k], Turn) : k \in DOMAIN Pending}] :
                    \A k \in DOMAIN Pending : f[k] \in Replies(Pending[k], Turn)},
        beside \in Beside(Turn)}

\* A conversation is held with the models of one mix.
Reachable ==
    {m \in Models : \E mix \in Mixes : {answers[k].model : k \in DOMAIN answers} \cup {m} \subseteq mix}

Ask ==
    /\ phase = "idle"
    /\ Turn <= MaxTurns
    /\ IF Pending = <<>>
       THEN \E question \in Questions(Turn) : messages' = messages \o question
       ELSE \E blocks \in ReplyBlocks :
                messages' = Append(messages, Message("user", "array", blocks))
    /\ model' \in Reachable
    /\ wants' \in Wants(catalog, Turn)
    /\ phase' = "asked"
    /\ UNCHANGED <<catalog, tokenBased, system, request, answers, lastTo>>

\* A turn that was refused can be put to another model.
AskAnother ==
    /\ phase = "refused"
    /\ model' \in Reachable \ {model}
    /\ phase' = "asked"
    /\ UNCHANGED <<catalog, tokenBased, system, messages, wants, request, answers, lastTo>>

-----------------------------------------------------------------------------
(* The proxy. *)

Asked == [system |-> system, messages |-> messages]

\* handle_completion, up to the choice of an API; of a provider's request
\* (handle_provider_messages_for_provider) only the system messages are merged.
Normal == NormalizeSystemMessages(Asked)
Compact == IF model.provider THEN 0 ELSE CompactType(Normal)
Merges == ~tokenBased /\ ~model.provider
Prepared == [Normal EXCEPT !.messages = MergeAndMark(@, Compact, ~Merges)]

Searches == SearchEnabled(catalog, model.search)
Wanted == IF model.provider THEN Defaulted(wants, model.topK) ELSE wants

Refused ==
    \/ ~ValidRequest(Asked, catalog)
    \/ ~ValidChoice(wants.choice, catalog, model.search)
    \/ /\ model.api = "chat"
       /\ \/ ChatRefuses(Prepared, model.caps)
          \/ ChatToolsRefused(catalog)
          \/ ChatDisplayRefused(wants)
    \/ model.api = "responses" /\ (ResponsesRefuses(Prepared) \/ ResponsesControlsRefused(Wanted))

\* handle_with_messages_api; is_initiate_request.
IsInitiate(sent) ==
    LET last == Last(sent)
    IN last.role = "user" /\
        (last.form = "string" \/ \E i \in DOMAIN last.blocks : last.blocks[i].type # "tool_result")

\* Providers do not learn whose turn it is.
Upstream(body, initiator) ==
    [NoRequest EXCEPT !.body = body, !.system = Bodies(Prepared.system.blocks),
                      !.initiator = IF model.provider THEN "none" ELSE initiator,
                      !.compact = Compact]

ToMessages ==
    LET sent == StripTranslatedReasoning(Prepared.messages)
    IN [Upstream(sent, IF IsInitiate(sent) THEN "user" ELSE "agent") EXCEPT
            !.tools = NativeTools(catalog),
            !.choice = wants.choice,
            !.fields = IF model.provider THEN ProviderNativeFields(Wanted, model.extraBody)
                       ELSE NativeFields(wants, model.adaptive)]

\* handle_with_chat_completions; create_openai_compatible_payload.
ToChat ==
    LET translated == TranslateToOpenAI(Prepared, model.caps, model.claude)
        sent == IF model.provider THEN ProviderReasoning(translated) ELSE translated
    IN [Upstream(sent, ChatInitiator(sent)) EXCEPT
            !.system = <<>>,
            !.tools = ChatTools(catalog),
            !.choice = ScalarChoice(wants.choice),
            !.fields = IF model.provider THEN ProviderChatFields(Wanted, model.extraBody)
                       ELSE ChatFields(wants, model.budgeted),
            !.cached = IF model.cache THEN CacheMarks(sent) ELSE {}]

\* handle_with_responses_api; handle_openai_responses_provider_messages.
ToResponses ==
    LET sent == CompactByLatest(TranslateToInput(Prepared, catalog, Searches))
    IN [Upstream(sent, ResponsesInitiator(sent)) EXCEPT
            !.system = Instructions(Prepared.system),
            !.tools = ResponsesTools(catalog, Searches),
            !.choice = ResponsesChoice(wants.choice, catalog, Searches),
            !.fields = ResponsesFields(Wanted)]

Forwarded ==
    CASE model.api = "messages" -> ToMessages
      [] model.api = "chat" -> ToChat
      [] model.api = "responses" -> ToResponses

Refuse ==
    /\ phase = "asked"
    /\ Refused
    /\ phase' = "refused"
    /\ UNCHANGED <<catalog, tokenBased, system, messages, model, wants, request, answers, lastTo>>

Forward ==
    /\ phase = "asked"
    /\ ~Refused
    /\ request' = Forwarded
    /\ phase' = "sent"
    /\ UNCHANGED <<catalog, tokenBased, system, messages, model, wants, answers, lastTo>>

-----------------------------------------------------------------------------
(* The upstream. *)

AnswerBlocks(output) ==
    CASE model.api = "messages" -> output
      [] model.api = "chat" -> TranslateToAnthropic(output, SuppressesThinking(wants))
      [] model.api = "responses" -> MapOutput(output, BridgeName(catalog))

Answer ==
    /\ phase = "sent"
    /\ Turn < MaxTurns
    /\ \E output \in Outputs(model, catalog, Turn) :
         IF model.api = "chat" /\ ChatAnswerRefused(output)
         THEN phase' = "refused" /\ UNCHANGED <<messages, answers, wants, lastTo>>
         ELSE /\ phase' = "idle"
              /\ messages' = Append(messages, Message("assistant", "array", AnswerBlocks(output)))
              /\ answers' = Append(answers,
                    [at |-> Len(messages'), model |-> model, output |-> output,
                     silent |-> model.api = "chat" /\ SuppressesThinking(wants)])
              /\ lastTo' = [lastTo EXCEPT ![model] = request.body]
              /\ wants' = NoWishes
    /\ request' = NoRequest
    /\ UNCHANGED <<catalog, tokenBased, system, model>>

Next == Ask \/ AskAnother \/ Refuse \/ Forward \/ Answer

Spec == Init /\ [][Next]_vars

-----------------------------------------------------------------------------
(* What the upstream is shown. *)

Sent == phase = "sent"
Body == request.body

\* Everything said in it, in order.
SentAtoms ==
    LET parts(x) == IF model.api = "messages" THEN x.blocks ELSE x.parts
    IN request.system \o FlattenSeq([i \in DOMAIN Body |-> Atoms(parts(Body[i]))])

\* What a user or a tool said, recognised texts aside.
Own(blocks) == {a \in ToSet(Atoms(blocks)) : a[2] > 0}
Said == {<<i, a>> \in UNION {{i} \X Own(messages[i].blocks) : i \in DOMAIN messages} :
            messages[i].role # "assistant"}

HasResult(m, Test(_)) ==
    \E k \in DOMAIN m.blocks : m.blocks[k].type = "tool_result" /\ Test(m.blocks[k])

IsSearch(result) == Kind(catalog, NameOfCall(messages, result.id)) = "bridge"
IsCompaction(block) == block.type = "thinking" /\ block.sig.kind = "compaction"

\* A compaction stands for all that was said before it.
Compacted(i) ==
    model.api = "responses" /\ \E j \in DOMAIN messages : j > i
        /\ messages[j].role = "assistant"
        /\ \E k \in DOMAIN messages[j].blocks : IsCompaction(messages[j].blocks[k])

\* What a tool says beside a picture it may not give is told again with it.
ToldTwice(i, atom) ==
    model.api = "chat" /\ \E result \in ToSet(messages[i].blocks) :
        /\ result.type = "tool_result" /\ MustMove(result, model.caps)
        /\ atom \in ToSet(Bodies(OfType(result.inner, {"text"})))

\* What the proxy knowingly leaves out, and what it loses: a system message
\* behind an assistant's; a document a Chat model cannot read; what is said beside
\* a result which loads a tool, or a failed one when no other can hold an
\* attachment; everything in the result of a search but the tools it found.
LeftOut(i, atom) ==
    LET m == messages[i]
        attached == \E b \in ToSet(m.blocks) : b.type \in Attachments /\ atom \in ToSet(b.body)
        holds(r) == ~r.error /\ ~HasToolRef(r)
    IN \/ Compacted(i)
       \/ m.role = "system" /\ i > 1 /\ messages[i - 1].role = "assistant"
       \/ model.api = "chat" /\ ~model.caps.pdf /\ atom[1] = "document"
       \/ Merges /\ ~attached /\ HasResult(m, HasToolRef)
       \/ Merges /\ attached /\ HasResult(m, LAMBDA r : TRUE) /\ ~HasResult(m, holds)
       \/ Searches /\ model.api = "responses" /\ HasResult(m, IsSearch)

(***************************************************************************)
(* Nothing the user or a tool says is lost on the way: whatever is merged, *)
(* moved and translated, it reaches the upstream exactly once, and what was*)
(* said in a turn stands before what was said in a later one.              *)
(***************************************************************************)
NothingLost ==
    Sent =>
        LET told == SelectSeq(SentAtoms, LAMBDA a : a[2] > 0)
        IN /\ \A s \in Said : LeftOut(s[1], s[2]) \/
                Cardinality({i \in DOMAIN told : told[i] = s[2]}) =
                    IF ToldTwice(s[1], s[2]) THEN 2 ELSE 1
           /\ \A i \in 2 .. Len(told) : told[i - 1][2] <= told[i][2]

(***************************************************************************)
(* Calls and their results stay paired as the upstream's API wants it.     *)
(* Messages: an answer with calls is followed by a message that begins with*)
(* the results of all of them.  Chat: by their tool messages and nothing   *)
(* between.  Responses: every output has its call before it, every call    *)
(* has one output, and a search is answered by what it found.              *)
(***************************************************************************)
Ids(seq) == {seq[k].id : k \in DOMAIN seq}

PairedMessages ==
    \A i \in DOMAIN Body : Body[i].role = "assistant" =>
        LET calls == OfType(Body[i].blocks, {"tool_use"})
            first == SubSeq(Body[i + 1].blocks, 1, Len(calls))
        IN calls # <<>> => Ids(OfType(first, {"tool_result"})) = Ids(calls)

PairedChat ==
    LET Following(i) == {j \in DOMAIN Body : j > i /\ \A k \in i + 1 .. j : Body[k].role = "tool"}
    IN /\ \A i \in DOMAIN Body : Body[i].role = "assistant" =>
            {Body[j].answers : j \in Following(i)} = Ids(Body[i].calls)
       /\ \A j \in DOMAIN Body : Body[j].role = "tool" =>
            \E i \in DOMAIN Body : Body[i].role = "assistant" /\ j \in Following(i)

CallOf(output) ==
    IF output.type = "tool_search_output" THEN "tool_search_call" ELSE "function_call"

PairedResponses ==
    LET outputs == {i \in DOMAIN Body : Body[i].type \in {"function_call_output", "tool_search_output"}}
        calls == {i \in DOMAIN Body : Body[i].type \in {"function_call", "tool_search_call"}}
        Answers(o, c) == Body[o].id = Body[c].id /\ Body[c].type = CallOf(Body[o])
    IN /\ \A o \in outputs : \E c \in calls : c < o /\ Answers(o, c)
       /\ \A c \in calls : Cardinality({o \in outputs : o > c /\ Answers(o, c)}) = 1

ToolsPaired ==
    Sent => CASE model.api = "messages" -> PairedMessages
              [] model.api = "chat" -> PairedChat
              [] model.api = "responses" -> PairedResponses

-----------------------------------------------------------------------------
(* What an upstream is shown of its own answers. *)

InBody(part) == \E i \in 0 .. Len(Body) - Len(part) : SubSeq(Body, i + 1, i + Len(part)) = part

\* The answer as a later request of the same API has to contain it: an id that
\* was missing has been invented, and an empty message is no message.
ResponsesForm(output) ==
    LET named == [i \in DOMAIN output |->
            IF output[i].type = "tool_search_call"
            THEN [output[i] EXCEPT !.id = StableToolUseId(output[i], i - 1)] ELSE output[i]]
    IN SelectSeq(named, LAMBDA item : ~(item.type = "message" /\ Bodies(item.parts) = <<>>))

ShownAgain(answer) ==
    CASE model.api = "messages" ->
            InBody(<<Message("assistant", "array", answer.output)>>)
      [] model.api = "chat" ->
            LET unsealed == [answer.output EXCEPT !.opaque = <<>>]
            IN IF answer.silent THEN InBody(<<[unsealed EXCEPT !.reasoning = <<>>]>>)
               ELSE \/ ~model.provider /\ InBody(<<answer.output>>)
                    \* A Claude model is not given back what it never showed.
                    \/ /\ model.provider \/ (model.claude /\ answer.output.reasoning = <<>>)
                       /\ InBody(<<unsealed>>)
      [] model.api = "responses" ->
            Compacted(answer.at) \/ InBody(ResponsesForm(answer.output))

(***************************************************************************)
(* A model that is asked again gets its own answers back as it gave them:  *)
(* text, calls, reasoning with what vouches for it, and compactions, which *)
(* all have travelled through a client that knows only Anthropic's blocks. *)
(* Only reasoning the client does not want to see is gone, and a provider  *)
(* gets its text alone.                                                    *)
(***************************************************************************)
OwnAnswers == Sent => \A k \in DOMAIN answers : answers[k].model = model => ShownAgain(answers[k])

\* The opaque values that models with this API have given.
Given(api) ==
    LET own == SelectSeq(answers, LAMBDA a : a.model.api = api)
        Values(output) ==
            CASE api = "messages" -> {output[k].sig.enc : k \in DOMAIN output}
              [] api = "chat" -> {output.opaque}
              [] api = "responses" -> {output[k].enc : k \in DOMAIN output}
    IN UNION {Values(own[k].output) : k \in DOMAIN own} \cup {<<>>}

(***************************************************************************)
(* Reasoning that another API has sealed is not passed off as the model's  *)
(* own: a native Messages request has only Anthropic's signatures, a       *)
(* Responses request only reasoning of Responses models.  Two ways around  *)
(* it are left open by the code: compactions stay in native requests, and a*)
(* Chat model is given the first signature there is, whosesoever it is.    *)
(***************************************************************************)
OwnReasoning ==
    Sent =>
        /\ model.api = "messages" =>
            \A i \in DOMAIN Body : \A b \in ToSet(Body[i].blocks) :
                b.type = "thinking" => b.sig.enc \in Given("messages") \/ IsCompaction(b)
        /\ model.api = "responses" => \A i \in DOMAIN Body : Body[i].enc \in Given("responses")
        /\ model.api = "chat" /\ (\A k \in DOMAIN answers : answers[k].model.api = "chat") =>
            \A i \in DOMAIN Body : Body[i].opaque \in Given("chat")
        /\ model.api = "chat" /\ model.provider => \A i \in DOMAIN Body : Body[i].opaque = <<>>

\* Every model gets its own answers back, and nothing sealed by others.
Replayed == OwnAnswers /\ OwnReasoning

-----------------------------------------------------------------------------
(* Billing, caching and refusals. *)

AnswersCalls == HasType(Last(messages).blocks, {"tool_result"})

(***************************************************************************)
(* A turn that answers calls is the agent's: whatever the client sends     *)
(* beside the results (reminders, hooks, attachments), it does not count as*)
(* a question of the user, which would be billed.                          *)
(***************************************************************************)
ResultsAreAgents ==
    Sent /\ Merges /\ request.compact # 1 /\ AnswersCalls => request.initiator = "agent"

\* Two searches that came without an identifier got the same one.
SearchTwice ==
    LET uses == OfType(CallsAndResults(messages), {"tool_use"})
    IN \E i, j \in DOMAIN uses : i # j /\ uses[i].id = uses[j].id /\ uses[i].id[1] = "tool_call"

ForeignThinking ==
    \E k \in DOMAIN answers : answers[k].model.api # "responses"
        /\ HasType(messages[answers[k].at].blocks, {"thinking"})

EndsWithDocument ==
    LET last == Last(Prepared.messages) IN last.form = "array" /\ Last(last.blocks).type = "document"

(***************************************************************************)
(* A conversation the proxy itself has made is not refused when it comes   *)
(* back, but for what an API cannot express: thinking of others on         *)
(* Responses, tools to be loaded later on Chat, a summary of the thinking  *)
(* there, top_k on Responses.  And for two accidents: the                  *)
(* mark the proxy puts on a document at the end, for Chat; the identifier  *)
(* it invents for a search, when it does so twice.                         *)
(***************************************************************************)
Accepted ==
    phase = "asked" /\ Refused =>
        \/ model.api = "responses" /\ ForeignThinking
        \/ model.api = "responses" /\ Wanted.topK
        \/ model.api = "chat" /\ Kind(catalog, "lazy") = "deferred"
        \/ model.api = "chat" /\ wants.display = "summarized"
        \/ model.api = "chat" /\ Merges /\ EndsWithDocument
        \/ Kind(catalog, wants.choice) = "bridge" /\ ~Searches
        \/ SearchTwice

(***************************************************************************)
(* The tools and the calls of a request fit: every call of the conversation*)
(* has the form in which its tool is offered, and so has the tool that is  *)
(* to be chosen; every tool but the bridge is offered, and one that has to *)
(* be found can be; a search finds only what is offered to be found.  Calls*)
(* of the bridge stay where there is none, for a model that cannot search. *)
(***************************************************************************)
Offers(type, name) == \E offer \in request.tools : offer.type = type /\ offer.name = name

FitsOffer(item) ==
    CASE item.type = "function_call" ->
            Offers(IF item.namespaced THEN "namespace" ELSE "function", item.name)
            \/ (Kind(catalog, item.name) = "bridge" /\ ~Searches)
      [] item.type = "tool_search_call" -> Offers("tool_search", "")
      [] item.type = "tool_search_output" ->
            \E offer \in request.tools : offer.type = "tool_search" /\ item.tools \subseteq offer.finds
      [] OTHER -> TRUE

CalledNames(calls) == {calls[k].name : k \in DOMAIN calls}
Offered == {offer.name : offer \in request.tools}

CanBeFound(name) ==
    \E offer \in request.tools : offer.type = "tool_search" /\ name \in offer.finds

ToolsOffered ==
    Sent =>
        /\ \A name \in DOMAIN catalog : catalog[name] # "bridge" => name \in Offered
        /\ \A offer \in request.tools : offer.type = "namespace" => CanBeFound(offer.name)
        /\ CASE model.api = "messages" -> \A i \in DOMAIN Body :
                    CalledNames(OfType(Body[i].blocks, {"tool_use"})) \subseteq Offered
             [] model.api = "chat" -> \A i \in DOMAIN Body : CalledNames(Body[i].calls) \subseteq Offered
             [] model.api = "responses" -> \A i \in DOMAIN Body : FitsOffer(Body[i])
        /\ \/ request.choice \in {"auto", "required", "any", "none"}
           \/ Offers(IF model.api = "messages" THEN catalog[request.choice] ELSE "function",
                     request.choice)

(***************************************************************************)
(* Whether to think is the client's: nothing that is configured or added by*)
(* the proxy makes a model think which was told not to, or changes what a  *)
(* native request says about it.                                           *)
(***************************************************************************)
Fields == DOMAIN request.fields
ThinksAsTold ==
    Sent =>
        /\ wants.thinking = "disabled" /\ model.api = "chat" =>
            Fields \cap {"thinking_budget", "reasoning_effort"} = {}
        /\ wants.thinking = "disabled" /\ model.api = "responses" =>
            Fields \cap {"effort", "summary"} = {}
        /\ wants.thinking # "unset" /\ model.api = "messages" => request.fields["thinking"] = "client"

\* What comes back is taken, and goes out as it can be answered: with every call
\* answered once, every tool that was called, and thinking as the client wants it.
Answerable == ToolsPaired /\ ToolsOffered /\ ThinksAsTold /\ Accepted

\* A request without the marks for the cache, which move to its end each time.
Plain(body) ==
    IF model.api # "messages" THEN [i \in DOMAIN body |->
        IF model.api = "chat" THEN [body[i] EXCEPT !.parts = Unmarked(@)] ELSE body[i]]
    ELSE [i \in DOMAIN body |-> [body[i] EXCEPT !.blocks = Unmarked(@)]]

(***************************************************************************)
(* What a model has answered stays the beginning of what it is sent later, *)
(* so that its cache serves: a message is translated alike whether it is   *)
(* the last one or not.  A compaction begins anew, and the prompt that asks*)
(* for one is merged into its results only afterwards.                     *)
(***************************************************************************)
PrefixStable ==
    [][Forward => \/ IsPrefix(Plain(lastTo[model]), Plain(request'.body))
                  \/ \E i \in DOMAIN messages : Compacted(i)
                  \/ \E i \in DOMAIN messages : CompactPrompt \in ToSet(Atoms(messages[i].blocks))]_vars
=============================================================================

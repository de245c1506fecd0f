--------------------------- MODULE MCConversation ---------------------------
EXTENDS Conversation

Copilot(api, claude, search) ==
    [api |-> api, claude |-> claude, search |-> search, adaptive |-> claude,
     budgeted |-> claude, provider |-> FALSE, caps |-> CopilotChat, cache |-> api = "chat",
     topK |-> FALSE, extraBody |-> {}]
Provider(api, caps, cache, topK, extraBody) ==
    [Copilot(api, FALSE, FALSE) EXCEPT !.provider = TRUE, !.caps = caps, !.cache = cache,
                                       !.topK = topK, !.extraBody = extraBody]

NativeClaude == Copilot("messages", TRUE, FALSE)
ClaudeChat == Copilot("chat", TRUE, FALSE)
OtherChat == Copilot("chat", FALSE, FALSE)
Searcher == Copilot("responses", FALSE, TRUE)
CopilotModels == {NativeClaude, ClaudeChat, OtherChat, Searcher}

AnthropicProvider == Provider("messages", CopilotChat, FALSE, TRUE, {"thinking", "custom"})
ScalarProvider ==
    Provider("chat", Capabilities(FALSE, {}), TRUE, TRUE, {"thinking_budget", "reasoning_effort"})
RichProvider == Provider("chat", Capabilities(TRUE, {"array", "image", "pdf"}), FALSE, FALSE, {})
ResponsesProvider == Provider("responses", CopilotChat, FALSE, FALSE, {})

MCModels == CopilotModels \cup
    {AnthropicProvider, ScalarProvider, RichProvider, ResponsesProvider}
MCMixes == {CopilotModels, {AnthropicProvider, ClaudeChat}, {AnthropicProvider, ScalarProvider},
            {ScalarProvider, OtherChat, NativeClaude}, {RichProvider, Searcher},
            {RichProvider, ScalarProvider}, {ResponsesProvider, NativeClaude},
            {ResponsesProvider, Searcher}}

Plain1 == [read |-> "function"]
Searching == [read |-> "function", find |-> "bridge", lazy |-> "deferred"]
MCCatalogs == {Plain1, Searching}
MCSystemPrompts == {Content("string", <<Text(<<Special("instructions")>>)>>)}

User(blocks) == Message("user", "array", blocks)
Said1(kind, t) == Text(<<Atom(kind, t)>>)
MCQuestions(t) ==
    IF t # 2 THEN
     {<<Message("system", "string", <<Said1("context", t)>>),
        User(<<Image(Atom("image", t)), Said1("text", t)>>)>>}
    ELSE
     {<<Message("user", "string", <<Said1("text", t)>>)>>,
      <<User(<<Said1("text", t), Document(Atom("document", t))>>)>>,
      <<Message("system", "string", <<Said1("context", t)>>),
        Message("user", "string", <<Said1("text", t)>>),
        Message("system", "string", <<Text(<<SubagentHook, Atom("hook", t)>>)>>)>>,
      <<User(<<Text(<<CompactPrompt>>), Said1("text", t)>>)>>}

\* Everything there is to want, in the first turn.
MCWants(cat, t) ==
    IF t # 1 THEN {NoWishes}
    ELSE {[NoWishes EXCEPT !.choice = choice] :
            choice \in Scalars \cup {name \in DOMAIN cat : cat[name] # "deferred"}}
         \cup {[NoWishes EXCEPT !.thinking = thinking, !.effort = TRUE] :
                thinking \in {"enabled", "disabled"}}
         \cup {[NoWishes EXCEPT !.thinking = "adaptive", !.display = display] :
                display \in {"omitted", "summarized"}}
         \cup {[NoWishes EXCEPT !.topK = TRUE]}

Call(t, k) == <<"call", t, k>>
Out(use, t) == Atom("out " \o ToString(use.id[Len(use.id)]), t)
Shot(use, t) == Atom("shot " \o ToString(use.id[Len(use.id)]), t)
MCReplies(use, t) ==
    {ToolResult(use.id, "string", <<Text(<<Out(use, t)>>)>>)}
    \cup IF t # 2 \/ use.id = Call(1, 2) THEN {}
         ELSE IF use.name = "find" THEN
            {ToolResult(use.id, "array", <<ToolReference("lazy")>>),
             ToolResult(use.id, "string", <<Text(<<Sentinel>>)>>)}
         ELSE
            {ToolResult(use.id, "array", <<Text(<<Out(use, t)>>), Image(Shot(use, t))>>),
             ToolResult(use.id, "string", <<Text(<<PdfFileRead, Out(use, t)>>)>>),
             [ToolResult(use.id, "string", <<Text(<<Out(use, t)>>)>>) EXCEPT !.error = TRUE]}

MCBeside(t) ==
    IF t # 2 THEN {<<Said1("text", t)>>}
    ELSE {<<>>, <<Said1("text", t)>>,
          <<Said1("text", t), Said1("more", t)>>,
          <<Document(Atom("document", t)), Image(Atom("image", t))>>,
          <<Said1("text", t), Document(Atom("document", t))>>,
          <<Text(<<TurnBoundary>>)>>,
          <<Text(<<CompactPrompt>>), Said1("text", t)>>}

Reply(t) == Text(<<Atom("answer", t)>>)
Secret(api, t) == <<api, t>>
Thought(t) == <<Atom("thought", t)>>
Names(cat, t) == IF t = 1 THEN DOMAIN cat \ {"lazy"} ELSE DOMAIN cat

MessagesOutputs(cat, t) ==
    {<<Thinking(Thought(t), Native(Secret("native", t))), Reply(t)>>}
    \cup {<<Reply(t), ToolUse(Call(t, 1), n)>> : n \in Names(cat, t)}
    \cup {<<ToolUse(Call(t, 1), "read"), ToolUse(Call(t, 2), n)>> : n \in Names(cat, t)}

ChatOutput(reasoning, opaque, parts, calls) ==
    [ChatMessage("assistant", parts) EXCEPT !.reasoning = reasoning, !.opaque = opaque,
                                            !.calls = calls]
ChatCall(t, k, n) == [id |-> Call(t, k), name |-> n]
ChatOutputs(cat, t) ==
    {ChatOutput(Thought(t), Secret("chat", t), <<Reply(t)>>, <<>>),
     ChatOutput(<<>>, Secret("chat", t), <<>>, <<ChatCall(t, 1, "read")>>),
     ChatOutput(Thought(t), <<>>, <<Reply(t)>>, <<>>),
     ChatOutput(<<>>, <<>>, <<Reply(t)>>, <<ChatCall(t, 1, "read"), ChatCall(t, 2, "read")>>)}

FunctionCall(t, k, n, search) ==
    [Item("function_call") EXCEPT !.id = Call(t, k), !.name = n, !.namespaced = search /\ n = "lazy"]
SearchCall(id) == [Item("tool_search_call") EXCEPT !.id = id]
ResponsesOutputs(m, cat, t) ==
    LET search == SearchEnabled(cat, m.search)
        text == MessageItem("assistant", <<Reply(t)>>)
    IN {<<Reasoning(Thought(t), Secret("reasoning", t)), text>>,
        <<Reasoning(<<>>, Secret("reasoning", t)), FunctionCall(t, 1, "read", search)>>,
        <<Compaction(Secret("compaction", t)), text>>,
        <<text, FunctionCall(t, 1, "read", search), FunctionCall(t, 2, "read", search)>>}
       \cup IF ~search THEN {}
            ELSE {<<SearchCall(Call(t, 1))>>, <<SearchCall(<<>>)>>}
                 \cup IF t = 1 THEN {} ELSE {<<text, FunctionCall(t, 1, "lazy", search)>>}

\* Enough of them after the second turn.
Later == {<<Compaction(Secret("compaction", 2)), MessageItem("assistant", <<Reply(2)>>)>>,
          <<SearchCall(<<>>)>>}

MCOutputs(m, cat, t) ==
    CASE m.api = "messages" /\ t = 2 -> {<<Reply(t)>>}
      [] m.api = "chat" /\ t = 2 -> {CHOOSE output \in ChatOutputs(cat, t) : TRUE}
      [] m.api = "responses" /\ t = 2 -> Later \cap ResponsesOutputs(m, cat, t)
      [] OTHER -> CASE m.api = "messages" -> MessagesOutputs(cat, t)
      [] m.api = "chat" -> ChatOutputs(cat, t)
      [] m.api = "responses" -> ResponsesOutputs(m, cat, t)
=============================================================================

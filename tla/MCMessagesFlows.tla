---------------------------- MODULE MCMessagesFlows ----------------------------
EXTENDS MessagesFlows

\* Chunks of a Chat stream.
Chunk == [kind |-> "choice", chat |-> "c", tier |-> Absent, usage |-> <<>>, content |-> <<>>,
          reasoning |-> <<>>, opaque |-> <<>>, refusal |-> <<>>, tools |-> <<>>, finish |-> Absent]
Tool(index, id, name, args) ==
    [index |-> index, id |-> id, name |-> name, ext |-> FALSE, args |-> args]

MCChunks == {
    [Chunk EXCEPT !.content = <<"a">>],
    [Chunk EXCEPT !.content = <<"b">>, !.tier = "t"],
    [Chunk EXCEPT !.reasoning = <<"r">>],
    [Chunk EXCEPT !.opaque = <<"o">>],
    [Chunk EXCEPT !.tools = <<Tool(1, "1", "n", <<"{">>)>>],
    [Chunk EXCEPT !.tools = <<Tool(1, Absent, Absent, <<"}">>)>>, !.content = <<"c">>],
    [Chunk EXCEPT !.tools = <<Tool(2, "2", Absent, <<"{", "}">>)>>],
    [Chunk EXCEPT !.tools = <<Tool(1, "1", "n", <<"{", "}">>), Tool(2, "2", "m", <<"{", "}">>)>>,
                  !.reasoning = <<"r">>],
    [Chunk EXCEPT !.tools = <<Tool(2, Absent, "m", <<>>)>>, !.finish = "tool_calls"],
    [Chunk EXCEPT !.refusal = <<"a", "c">>],
    [Chunk EXCEPT !.finish = "stop", !.usage = <<"u">>],
    [Chunk EXCEPT !.finish = "tool_calls"],
    [Chunk EXCEPT !.finish = "content_filter"],
    [Chunk EXCEPT !.chat = "d", !.content = <<"a">>],
    [Chunk EXCEPT !.kind = "usage", !.usage = <<"u">>],
    [Chunk EXCEPT !.kind = "usage", !.usage = <<"v">>],
    [Chunk EXCEPT !.kind = "error"]}

\* Answers of a Responses stream.
Message(id, parts) == [NoItem EXCEPT !.type = "message", !.id = id, !.content = parts]
Function(id, call) ==
    [NoItem EXCEPT !.type = "function_call", !.id = id, !.call = call, !.args = <<"{", "}">>]
Custom == [NoItem EXCEPT !.type = "custom_tool_call", !.id = "x", !.call = "3", !.args = <<"p">>]
Search == [NoItem EXCEPT !.type = "tool_search_call", !.id = "s", !.call = "4", !.args = <<"q">>]
Reasoning == [NoItem EXCEPT !.type = "reasoning", !.id = "r", !.summary = <<<<"r", "s">>, <<"t">>>>,
                            !.reasons = <<<<"v">>>>]
Opaque == [NoItem EXCEPT !.type = "reasoning", !.id = "o", !.carrier = "k"]
Compaction == [NoItem EXCEPT !.type = "compaction", !.id = "k", !.carrier = "k"]

MCAnswers == {
    <<Message("m", <<<<"a", "b">>, <<"c">>>>)>>,
    <<Reasoning, Message("m", <<<<"a">>>>)>>,
    <<Function("f", "1"), Function("g", "2"), Custom>>,
    <<Search, Opaque, Function("f", "1")>>,
    <<Message("m", <<<<"a">>>>), Compaction>>}

\* Answers to a web search.
Searching(id, queries) ==
    [NoItem EXCEPT !.type = "web_search_call", !.id = id, !.call = "search", !.args = queries]
Opened == [NoItem EXCEPT !.type = "web_search_call", !.call = "open_page", !.args = <<"u">>]
Citing(parts, notes) == [Message("m", parts) EXCEPT !.notes = notes]

MCSearchAnswers == {
    <<Searching("w", <<"q", "p">>), Opened, Citing(<<<<"a", "b">>, <<"c">>>>, <<<<"u">>, <<"u", "v">>>>)>>,
    <<Opaque, Searching(Absent, <<"q">>), Citing(<<<<"a">>>>, <<<<"u", "u">>>>)>>}

MCSearchFaults == {
    [Upstream("annotation", 0, 0, <<>>) EXCEPT !.notes = <<"w">>],
    Upstream("part_done", 2, 0, <<"a", "b">>), Upstream("text_delta", 2, 2, <<"x">>),
    Upstream("text_done", 2, 0, <<"b">>), Upstream("text_delta", 2, 0, <<"x">>),
    ItemEvent("done", 0, [Searching("w", <<"q">>) EXCEPT !.call = Absent]),
    ItemEvent("done", 0, Searching("y", <<"q">>)), ItemEvent("done", 3, Function("f", "1")),
    Terminal("completed", "continue", <<>>, <<"u">>), Terminal("completed", "stop", <<Opaque>>, <<"u">>),
    Terminal("failed", Absent, <<>>, <<"u">>), Upstream("error", 0, 0, <<>>),
    Terminal("created", Absent, <<Searching("w", <<"x">>)>>, <<>>), Upstream("other", 0, 0, <<>>)}

MCFaults == {
    Upstream("text_delta", 1, 0, <<"x">>), Upstream("text_done", 0, 0, <<"x">>),
    Upstream("args_delta", 0, 0, <<"x">>), Upstream("args_delta", 0, 0, <<"\n", "\n">>),
    Upstream("args_done", 0, 0, <<"{", "}">>),
    [Upstream("args_delta", 0, 0, <<"{">>) EXCEPT !.call = "9"],
    [Upstream("text_delta", 1, 0, <<"a">>) EXCEPT !.id = "m"],
    Upstream("summary_delta", 0, 2, <<"x">>), Upstream("summary_delta", 0, 0, <<"x">>),
    Upstream("part_added", 0, 0, <<>>), Upstream("reasoning_delta", 0, 0, <<"x">>),
    ItemEvent("added", 0, Message("z", <<>>)), ItemEvent("added", 3, Opaque),
    ItemEvent("done", 0, Message("z", <<<<"y">>>>)), ItemEvent("done", 0, Function("f", "9")),
    ItemEvent("done", 0, [Message("m", <<<<"a">>>>) EXCEPT !.complete = FALSE]),
    ItemEvent("done", 1, [NoItem EXCEPT !.type = "tool_search_output"]),
    ItemEvent("done", 1, [Opaque EXCEPT !.carrier = Absent, !.id = Absent]),
    Terminal("created", Absent, <<Search>>, <<>>),
    Terminal("completed", "continue", <<>>, <<"u">>), Terminal("completed", "stop", <<Custom>>, <<"u">>),
    Terminal("incomplete", "max_output_tokens", <<>>, <<"u">>),
    Terminal("incomplete", "content_filter", <<>>, <<"u">>),
    Terminal("incomplete", "other", <<>>, <<"u">>),
    Terminal("failed", Absent, <<>>, <<"u">>), Upstream("error", 0, 0, <<>>),
    Upstream("malformed", 0, 0, <<>>), Upstream("other", 0, 0, <<>>),
    [Upstream("other", 0, 0, <<>>) EXCEPT !.seq = "back"],
    [Upstream("other", 0, 0, <<>>) EXCEPT !.seq = "same"]}

MCRelayed == {
    <<Event("message_start", 0, "message", <<"i">>), BlockStart(0, "text", <<>>),
      BlockDelta(0, "text", <<"a">>), BlockStop(0), MessageDelta("end_turn", <<"u">>), MessageStop>>,
    <<Event("message_start", 0, "message", <<"i">>), BlockStart(0, "text", <<>>),
      ErrorEvent("upstream")>>}
=================================================================================

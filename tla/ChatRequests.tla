---------------------------- MODULE ChatRequests ----------------------------
(***************************************************************************)
(* A Messages conversation as a Chat Completions request, and the message  *)
(* that comes back: src/src/routes/messages/non_stream_translation.rs.     *)
(*                                                                         *)
(* Reasoning is a text and an opaque value, one of each for a message.     *)
(* Only text sources of documents reach a model that cannot read PDF; any  *)
(* other document becomes a remark that it cannot be read.                 *)
(***************************************************************************)
EXTENDS RequestValidation

\* Capabilities of an upstream: whether it reads PDF, and what the content of a
\* tool message may be.
Capabilities(pdf, content) == [pdf |-> pdf, content |-> content]
CopilotChat == Capabilities(FALSE, {"array", "image"})   \* COPILOT_TOOL_CONTENT_SUPPORT_TYPE

ChatMessage(role, parts) ==
    [role |-> role, parts |-> parts, calls |-> <<>>, answers |-> <<>>,
     reasoning |-> <<>>, opaque |-> <<>>]

\* map_content_blocks
ChatPart(block, caps) ==
    CASE block.type = "document" /\ ~caps.pdf -> Text(<<DocumentFallback>>)
      [] block.type = "tool_reference" -> Text(<<Loaded>>)
      [] OTHER -> block

MapContent(blocks, caps) ==
    LET kept == SelectSeq(blocks, LAMBDA b : b.type \notin {"thinking", "tool_use"})
    IN [i \in DOMAIN kept |-> ChatPart(kept[i], caps)]

TextOf(parts) == <<Text(Bodies(OfType(parts, {"text"})))>>

\* handle_tool_result_block: what a tool message cannot hold is moved behind the
\* tool messages, into a message of the user.
MustMove(result, caps) ==
    result.form = "array" /\
        \/ HasType(result.inner, {"image"}) /\ "image" \notin caps.content
        \/ HasType(result.inner, {"document"}) /\ caps.pdf /\ "pdf" \notin caps.content

IsRich(result, caps) ==
    HasType(result.inner, {"image"}) \/ (HasType(result.inner, {"document"}) /\ caps.pdf)

ToolMessage(result, caps) ==
    LET parts == MapContent(result.inner, caps)
        scalar == MustMove(result, caps) \/ ("array" \notin caps.content /\ ~IsRich(result, caps))
    IN [ChatMessage("tool", IF result.form = "array" /\ scalar THEN TextOf(parts) ELSE parts)
            EXCEPT !.answers = result.id]

MovedMessage(result, caps) == ChatMessage("user", MapContent(result.inner, caps))

ChatUserMessages(message, caps) ==
    LET results == OfType(message.blocks, {"tool_result"})
        others == SelectSeq(message.blocks, LAMBDA b : b.type # "tool_result")
        moved == SelectSeq(results, LAMBDA r : MustMove(r, caps))
    IN [i \in DOMAIN results |-> ToolMessage(results[i], caps)]
       \o [i \in DOMAIN moved |-> MovedMessage(moved[i], caps)]
       \o (IF others = <<>> THEN <<>> ELSE <<ChatMessage("user", MapContent(others, caps))>>)

\* handle_assistant_message.  A Claude model is not given thinking without a
\* visible text, or signed by a model whose signatures contain '@': of the
\* carriers these are the ones of compaction.
ForModel(block, claude) ==
    block.type = "thinking" /\
        (claude => /\ block.body \notin {<<>>, <<ThinkingText>>}
                   /\ block.sig.kind \notin {"none", "compaction"})

\* decode_chat_reasoning_signature: what a Chat model gave is taken out of its
\* carrier; any other signature is sent as the client has it.
Opaque(sig) == IF sig.kind = "chat" THEN sig.enc ELSE <<sig.kind>> \o sig.enc

ChatAssistantMessage(message, caps, claude) ==
    LET thoughts == SelectSeq(message.blocks, LAMBDA b : ForModel(b, claude))
        visible == SelectSeq(thoughts, LAMBDA b : b.body # <<ThinkingText>>)
        signed == SelectSeq(thoughts, LAMBDA b : b.sig.kind # "none")
        uses == OfType(message.blocks, {"tool_use"})
    IN [ChatMessage("assistant", MapContent(message.blocks, caps)) EXCEPT
            !.reasoning = Bodies(visible),
            !.opaque = IF signed = <<>> THEN <<>> ELSE Opaque(signed[1].sig),
            !.calls = [i \in DOMAIN uses |-> [id |-> uses[i].id, name |-> uses[i].name]]]

ChatSystem(system) ==
    IF system.form = "none" THEN <<>>
    ELSE <<ChatMessage("system", <<Text(Bodies(system.blocks))>>)>>

TranslateToOpenAI(request, caps, claude) ==
    ChatSystem(request.system) \o
    FlattenSeq([i \in DOMAIN request.messages |->
        IF request.messages[i].role = "user"
        THEN ChatUserMessages(request.messages[i], caps)
        ELSE <<ChatAssistantMessage(request.messages[i], caps, claude)>>])

\* Refused with 400: a mark for the cache on a document which is about to become a
\* remark.
ChatRefuses(request, caps) ==
    ~caps.pdf /\ \E i \in DOMAIN request.messages :
            \E b \in ToSet(request.messages[i].blocks) :
                \E d \in {b} \cup ToSet(b.inner) : d.type = "document" /\ d.marked

\* normalize_openai_compatible_reasoning_content: a provider is given the text of
\* the reasoning and not what vouches for it.
ProviderReasoning(messages) == [i \in DOMAIN messages |-> [messages[i] EXCEPT !.opaque = <<>>]]

\* select_context_cache_message_indexes and its twin for Copilot: the first two
\* system messages and the last two others, if there is something in them.
CacheMarks(messages) ==
    LET filled == SelectSeq([i \in DOMAIN messages |-> i], LAMBDA i : messages[i].parts # <<>>)
        systems == SelectSeq(filled, LAMBDA i : messages[i].role = "system")
        others == SelectSeq(filled, LAMBDA i : messages[i].role # "system")
    IN {systems[k] : k \in DOMAIN systems \cap {1, 2}}
       \cup {others[k] : k \in DOMAIN others \cap {Len(others) - 1, Len(others)}}

\* create_chat_completions: a message of the assistant or of a tool at the end
\* makes the call the agent's.
ChatInitiator(messages) ==
    IF Last(messages).role \in {"assistant", "tool"} THEN "agent" ELSE "user"

-----------------------------------------------------------------------------
(* The answer: [reasoning, opaque, parts, calls] as in ChatMessage.        *)

\* translate_chat_reasoning
ReasoningBlocks(answer) ==
    IF answer.opaque = <<>> THEN <<>>
    ELSE <<Thinking(IF answer.reasoning = <<>> THEN <<ThinkingText>> ELSE answer.reasoning,
                    Carrier("chat", answer.opaque))>>

\* Reasoning somebody can read, without the value that vouches for it, is an
\* error of the upstream; so is an answer without anything in it.
ChatAnswerRefused(answer) ==
    \/ answer.reasoning # <<>> /\ answer.opaque = <<>>
    \/ /\ answer.opaque = <<>>
       /\ answer.parts = <<>>
       /\ answer.calls = <<>>

TranslateToAnthropic(answer, suppressThinking) ==
    (IF suppressThinking THEN <<>> ELSE ReasoningBlocks(answer)) \o answer.parts
    \o [i \in DOMAIN answer.calls |-> ToolUse(answer.calls[i].id, answer.calls[i].name)]
=============================================================================

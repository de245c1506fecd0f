------------------------- MODULE ResponsesRequests -------------------------
(***************************************************************************)
(* A Messages conversation as the input of a Responses request, and the    *)
(* output that comes back:                                                 *)
(* src/src/routes/messages/responses_translation.rs.                       *)
(*                                                                         *)
(* Input and output are items.  What an assistant said becomes messages,   *)
(* calls, reasoning and compactions again, in its order; what is opaque    *)
(* travels through the client inside the signatures of thinking blocks.    *)
(***************************************************************************)
EXTENDS RequestValidation

Item(type) ==
    [type |-> type, role |-> "", parts |-> <<>>, id |-> <<>>, name |-> "",
     namespaced |-> FALSE, tools |-> {}, summary |-> <<>>, enc |-> <<>>,
     status |-> "completed"]

MessageItem(role, parts) == [Item("message") EXCEPT !.role = role, !.parts = parts]
Reasoning(summary, enc) == [Item("reasoning") EXCEPT !.summary = summary, !.enc = enc]
Compaction(enc) == [Item("compaction") EXCEPT !.enc = enc]

\* A translation of the blocks of one message: the items so far and the parts
\* of a message which is not complete yet.
Begun == [items |-> <<>>, pending |-> <<>>]

\* flush_pending_content
Flush(done, role) ==
    IF done.pending = <<>> THEN done
    ELSE [items |-> Append(done.items, MessageItem(role, done.pending)), pending |-> <<>>]

AddItem(done, role, item) == [Flush(done, role) EXCEPT !.items = Append(@, item)]
AddPart(done, block) == [done EXCEPT !.pending = Append(@, Unmarked(<<block>>)[1])]

-----------------------------------------------------------------------------
(* The user.                                                               *)

\* convert_tool_result_content
ResultParts(result) ==
    [i \in DOMAIN result.inner |->
        IF result.inner[i].type = "tool_reference" THEN Text(<<Loaded>>)
        ELSE Unmarked(result.inner)[i]]

\* extract_mcp_tool_search_sentinel: a text that is a search result in JSON, and
\* nothing else.  It stands here for all the tools that can be found.
SentinelNames(result, catalog) ==
    IF \E i \in DOMAIN result.inner : result.inner[i].body = <<Sentinel>>
    THEN {name \in DOMAIN catalog : catalog[name] = "deferred"}
    ELSE {}

\* resolve_tool_search_referenced_tool_names
FoundTools(result, catalog) ==
    IF HasToolRef(result) THEN Referenced(result) ELSE SentinelNames(result, catalog)

Status(result) == IF result.error THEN "incomplete" ELSE "completed"

\* create_tool_call_output: the output of a search is the tools it found, and
\* whatever else the result says is left out.
CallOutput(result, searched, catalog) ==
    IF searched
    THEN [Item("tool_search_output") EXCEPT !.id = result.id, !.status = Status(result),
                                            !.tools = FoundTools(result, catalog)]
    ELSE [Item("function_call_output") EXCEPT !.id = result.id, !.status = Status(result),
                                              !.parts = ResultParts(result)]

\* tool_use_name_by_id, over the messages up to the one translated.
NameOfCall(messages, id) ==
    LET uses == OfType(CallsAndResults(messages), {"tool_use"})
        last == SelectLastInSeq(uses, LAMBDA use : use.id = id)
    IN IF last = 0 THEN "" ELSE uses[last].name

UserItems(messages, m, catalog, search) ==
    LET Add(done, block) ==
            IF block.type = "tool_result"
            THEN LET name == NameOfCall(SubSeq(messages, 1, m), block.id)
                 IN AddItem(done, "user", CallOutput(block,
                        search /\ Kind(catalog, name) = "bridge", catalog))
            ELSE AddPart(done, block)
    IN Flush(FoldLeft(Add, Begun, messages[m].blocks), "user").items

-----------------------------------------------------------------------------
(* The assistant.                                                          *)

\* create_tool_call
CallItem(use, catalog, search) ==
    IF search /\ Kind(catalog, use.name) = "bridge"
    THEN [Item("tool_search_call") EXCEPT !.id = use.id]
    ELSE [Item("function_call") EXCEPT !.id = use.id, !.name = use.name,
              !.namespaced = search /\ Kind(catalog, use.name) = "deferred"]

\* Mutant: the placeholder for reasoning nobody can see is sent as if it were some.
PlaceholderSent(block) == Reasoning(block.body, block.sig.enc)

\* create_reasoning_content
ReasoningItem(block) ==
    Reasoning(IF block.body = <<ThinkingText>> THEN <<>> ELSE block.body, block.sig.enc)

AssistantItems(message, catalog, search) ==
    LET Add(done, block) ==
            CASE block.type = "tool_use" ->
                    AddItem(done, "assistant", CallItem(block, catalog, search))
              [] block.type = "thinking" /\ block.sig.kind = "compaction" ->
                    AddItem(done, "assistant", Compaction(block.sig.enc))
              [] block.type = "thinking" /\ block.sig.kind = "reasoning" ->
                    AddItem(done, "assistant", ReasoningItem(block))
              [] OTHER -> AddPart(done, block)
    IN Flush(FoldLeft(Add, Begun, message.blocks), "assistant").items

\* Refused with 400: thinking that is neither reasoning nor a compaction of a
\* Responses model.
ResponsesRefuses(request) ==
    \E i \in DOMAIN request.messages : request.messages[i].role = "assistant" /\
        \E b \in ToSet(request.messages[i].blocks) :
            b.type = "thinking" /\ b.sig.kind \notin {"reasoning", "compaction"}

TranslateToInput(request, catalog, search) ==
    FlattenSeq([m \in DOMAIN request.messages |->
        IF request.messages[m].role = "user"
        THEN UserItems(request.messages, m, catalog, search)
        ELSE AssistantItems(request.messages[m], catalog, search)])

\* translate_system_prompt
Instructions(system) == Bodies(system.blocks)

\* compact_input_by_latest_compaction
CompactByLatest(items) ==
    LET last == SelectLastInSeq(items, LAMBDA item : item.type = "compaction")
    IN IF last = 0 THEN items ELSE SubSeq(items, last, Len(items))

\* get_responses_request_options: an item without a role, or with that of the
\* assistant, at the end makes the call the agent's.
ResponsesInitiator(items) ==
    IF items # <<>> /\ Last(items).role # "user" THEN "agent" ELSE "user"

-----------------------------------------------------------------------------
(* The answer: a sequence of items.                                        *)

\* stable_tool_use_id: the identifier of a search is optional.
StableToolUseId(item, index) == IF item.id = <<>> THEN <<"tool_call", index>> ELSE item.id

\* resolve_bridge_tool_search_name
BridgeName(catalog) ==
    LET bridges == {name \in DOMAIN catalog : catalog[name] = "bridge"}
    IN IF bridges = {} THEN "mcp__tool_search__search" ELSE CHOOSE name \in bridges : TRUE

\* effective_reasoning_text
ReasoningText(item) == IF item.summary = <<>> THEN <<ThinkingText>> ELSE item.summary

\* map_output_to_anthropic_content
OutputBlocks(item, index, bridge) ==
    CASE item.type = "message" ->
            IF Bodies(item.parts) = <<>> THEN <<>> ELSE <<Text(Bodies(item.parts))>>
      [] item.type = "function_call" -> <<ToolUse(item.id, item.name)>>
      [] item.type = "tool_search_call" -> <<ToolUse(StableToolUseId(item, index), bridge)>>
      [] item.type = "reasoning" ->
            <<Thinking(ReasoningText(item), Carrier("reasoning", item.enc))>>
      [] item.type = "compaction" ->
            <<Thinking(<<ThinkingText>>, Carrier("compaction", item.enc))>>
      [] OTHER -> <<>>

MapOutput(output, bridge) ==
    FlattenSeq([i \in DOMAIN output |-> OutputBlocks(output[i], i - 1, bridge)])
=============================================================================

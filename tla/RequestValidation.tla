------------------------- MODULE RequestValidation -------------------------
(***************************************************************************)
(* Anthropic messages as the request side of the proxy handles them, and   *)
(* which requests are let through before anything is done with them:       *)
(* src/src/routes/messages/request_validation.rs.                          *)
(*                                                                         *)
(* Blocks are open JSON objects, of which a model keeps what the code      *)
(* reads; every field has its type.  A text is a sequence of atoms: a piece*)
(* of text nobody looks into, or one of the few the code recognises.  An   *)
(* atom names what was said and in which turn, so that nothing said is     *)
(* equal to anything else said.                                            *)
(***************************************************************************)
EXTENDS Integers, Sequences, SequencesExt

Atom(kind, turn) == <<kind, turn>>
Special(kind) == <<kind, 0>>

\* The texts the code recognises, where a text starts with them or is one.
Reminder         == Special("reminder")       \* SYSTEM_REMINDER_START
SubagentHook     == Special("hook")           \* SUBAGENT_START_HOOK_ADDITIONAL_PREFIX
TurnBoundary     == Special("boundary")       \* TOOL_REFERENCE_TURN_BOUNDARY
PdfFileRead      == Special("pdf read")       \* PDF_FILE_READ_PREFIX
CompactPrompt    == Special("compact")        \* guard, prompt and section of a compaction
AutoContinue     == Special("continue")       \* COMPACT_AUTO_CONTINUE_PROMPT_STARTS
CompactSystem    == Special("summarizer")     \* COMPACT_SYSTEM_PROMPT_STARTS
ThinkingText     == Special("thinking")       \* THINKING_TEXT, for reasoning nobody can see
Sentinel         == Special("sentinel")       \* a tool-search result as JSON text
DocumentFallback == Special("unreadable")     \* create_document_text_part
Loaded           == Special("loaded")         \* the text "Tool ... loaded"

\* Signatures of a thinking block: Anthropic's own, or a carrier made by the
\* proxy (cr1#, rs1#, cm1#) around the reasoning of another API.
Carrier(kind, enc) == [kind |-> kind, enc |-> enc]
Unsigned == Carrier("none", <<>>)
Native(enc) == Carrier("native", enc)

Block(type) ==
    [type |-> type, id |-> <<>>, name |-> "", body |-> <<>>, sig |-> Unsigned,
     form |-> "array", inner |-> <<>>, error |-> FALSE,
     marked |-> FALSE]        \* has cache_control

Text(body) == [Block("text") EXCEPT !.body = body]
Image(atom) == [Block("image") EXCEPT !.body = <<atom>>]
Document(atom) == [Block("document") EXCEPT !.body = <<atom>>]
Thinking(body, sig) == [Block("thinking") EXCEPT !.body = body, !.sig = sig]
ToolUse(id, name) == [Block("tool_use") EXCEPT !.id = id, !.name = name]
ToolReference(name) == [Block("tool_reference") EXCEPT !.name = name]
ToolResult(id, form, inner) ==
    [Block("tool_result") EXCEPT !.id = id, !.form = form, !.inner = inner]

Attachments == {"image", "document"}

\* The content of a message or the system prompt: a string, which is one text,
\* or an array of blocks.
Content(form, blocks) == [form |-> form, blocks |-> blocks]
NoContent == Content("none", <<>>)
Message(role, form, blocks) == [role |-> role, form |-> form, blocks |-> blocks]

OfType(blocks, types) == SelectSeq(blocks, LAMBDA b : b.type \in types)
HasType(blocks, types) == \E i \in DOMAIN blocks : blocks[i].type \in types
Bodies(blocks) == FlattenSeq([i \in DOMAIN blocks |-> blocks[i].body])
Unmarked(blocks) == [i \in DOMAIN blocks |-> [blocks[i] EXCEPT !.marked = FALSE]]

\* has_tool_ref
HasToolRef(result) == result.form = "array" /\ HasType(result.inner, {"tool_reference"})

\* Every atom in blocks, those inside results included, in order.
Atoms(blocks) ==
    FlattenSeq([i \in DOMAIN blocks |-> blocks[i].body \o Bodies(blocks[i].inner)])

-----------------------------------------------------------------------------
(* Validation.  A catalog of tools maps the name of a tool to its kind: a  *)
(* function, one that is loaded when needed (defer_loading), or the bridge *)
(* which finds those.                                                      *)

Kind(catalog, name) == IF name \in DOMAIN catalog THEN catalog[name] ELSE "undefined"

\* tool_search_bridge_enabled and should_enable_responses_tool_search: the model
\* can search, there is a bridge and there is something to find.
SearchEnabled(catalog, canSearch) ==
    canSearch /\ {"bridge", "deferred"} \subseteq {catalog[name] : name \in DOMAIN catalog}

Referenced(block) == {block.inner[i].name : i \in {j \in DOMAIN block.inner :
                                                block.inner[j].type = "tool_reference"}}

ValidBlock(block, role, catalog) ==
    CASE block.type = "text" -> TRUE
      [] block.type \in Attachments -> role = "user"
      [] block.type = "tool_use" -> role = "assistant"
      [] block.type = "tool_result" ->
            /\ role = "user"
            /\ \A name \in Referenced(block) : Kind(catalog, name) = "deferred"
      [] block.type = "thinking" -> role = "assistant" /\ block.sig.kind # "none"
      [] OTHER -> FALSE

ValidMessage(message, catalog) ==
    \/ /\ message.role = "system"
       /\ \A i \in DOMAIN message.blocks : message.blocks[i].type = "text"
    \/ /\ message.role \in {"user", "assistant"}
       /\ \A i \in DOMAIN message.blocks :
            ValidBlock(message.blocks[i], message.role, catalog)

\* Identifiers of calls are unique, and a result names a call before it.
CallsAndResults(messages) ==
    OfType(FlattenSeq([i \in DOMAIN messages |-> messages[i].blocks]),
           {"tool_use", "tool_result"})

ValidIdentifiers(messages) ==
    LET order == CallsAndResults(messages)
        Calls(id, n) == {i \in 1 .. n : order[i].type = "tool_use" /\ order[i].id = id}
    IN \A n \in DOMAIN order :
            IF order[n].type = "tool_use" THEN Calls(order[n].id, n) = {n}
            ELSE Calls(order[n].id, n) # {}

\* validate_messages_request_shape, and that there is a message.
ValidRequest(request, catalog) ==
    /\ request.messages # <<>>
    /\ \A i \in DOMAIN request.messages : ValidMessage(request.messages[i], catalog)
    /\ \A i \in DOMAIN request.system.blocks : request.system.blocks[i].type = "text"
    /\ ValidIdentifiers(request.messages)
=============================================================================

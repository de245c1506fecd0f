----------------------------- MODULE Preprocess -----------------------------
(***************************************************************************)
(* What the Messages handler does to a request before it chooses an API:   *)
(* src/src/routes/messages/preprocess.rs.                                  *)
(*                                                                         *)
(* System messages are merged into their neighbours; what a user says      *)
(* beside the results of tools is moved into the results, so that the turn *)
(* is not billed as a new question; the last block is marked for caching.  *)
(***************************************************************************)
EXTENDS RequestValidation

StartsWith(body, atom) == body # <<>> /\ body[1] = atom

-----------------------------------------------------------------------------
(* System messages. *)

EnsureReminder(body) == IF StartsWith(body, Reminder) THEN body ELSE <<Reminder>> \o body

\* The context of a subagent hook is split after its first line.
NormalizeSystemString(body) ==
    IF ~StartsWith(body, SubagentHook)
    THEN Content("string", <<Text(EnsureReminder(body))>>)
    ELSE Content("array", <<Text(EnsureReminder(<<SubagentHook>>))>>
                          \o (IF Len(body) = 1 THEN <<>>
                              ELSE <<Text(EnsureReminder(Tail(body)))>>))

NormalizeSystemContent(content) ==
    IF content.form = "string" THEN NormalizeSystemString(content.blocks[1].body)
    ELSE Content("array", [i \in DOMAIN content.blocks |->
            [content.blocks[i] EXCEPT !.body = EnsureReminder(@)]])

BothStrings(a, b) == a.form = "string" /\ b.form = "string"

MergeSystemPrompt(current, addition) ==
    CASE current.form = "none" -> addition
      [] BothStrings(current, addition) ->
            Content("string", <<Text(Bodies(current.blocks \o addition.blocks))>>)
      [] OTHER -> Content("array", current.blocks \o addition.blocks)

\* After the last result, which has to come first, or before everything.
PrependSystem(message, addition) ==
    IF BothStrings(message, addition)
    THEN [message EXCEPT !.blocks = <<Text(Bodies(addition.blocks \o @))>>]
    ELSE LET last == SelectLastInSeq(message.blocks, LAMBDA b : b.type = "tool_result")
         IN [message EXCEPT !.form = "array",
                            !.blocks = SubSeq(@, 1, last) \o addition.blocks
                                       \o SubSeq(@, last + 1, Len(@))]

\* A system message behind an assistant's is dropped.
NormalizeSystemMessages(request) ==
    LET Merge(done, message) ==
            LET addition == NormalizeSystemContent(message)
            IN CASE message.role # "system" ->
                        [done EXCEPT !.messages = Append(@, message)]
                 [] message.role = "system" /\ done.messages = <<>> ->
                        [done EXCEPT !.system = MergeSystemPrompt(@, addition)]
                 [] message.role = "system" /\ done.messages # <<>>
                        /\ Last(done.messages).role = "user" ->
                        [done EXCEPT !.messages =
                            Append(Front(@), PrependSystem(Last(@), addition))]
                 [] OTHER -> done
    IN FoldLeft(Merge, [request EXCEPT !.messages = <<>>], request.messages)

-----------------------------------------------------------------------------
(* Is the request one of compaction?                                       *)

CompactCandidate(message) ==
    CASE message.role # "user" -> <<>>
      [] message.form = "string" -> message.blocks[1].body
      [] OTHER -> Bodies(SelectSeq(message.blocks,
                    LAMBDA b : b.type = "text" /\ ~StartsWith(b.body, Reminder)))

CompactType(request) ==
    LET text == CompactCandidate(Last(request.messages))
    IN  IF CompactPrompt \in ToSet(text) THEN 1                  \* COMPACT_REQUEST
        ELSE IF StartsWith(text, AutoContinue) THEN 2           \* COMPACT_AUTO_CONTINUE
        ELSE IF \E i \in DOMAIN request.system.blocks :
                    StartsWith(request.system.blocks[i].body, CompactSystem) THEN 1
        ELSE 0

-----------------------------------------------------------------------------
(* What the user says beside results is moved into them.                   *)

\* merge_content_with_text and merge_content_with_texts.  A result that loads a
\* tool is left as it is.
MergeTexts(result, texts) ==
    CASE result.form = "string" ->
            [result EXCEPT !.inner = <<Text(Bodies(@ \o texts))>>]
      [] HasToolRef(result) -> result
      [] OTHER -> [result EXCEPT !.inner = @ \o Unmarked(texts)]

MergeToolResult(results, texts) ==
    [i \in DOMAIN results |->
        CASE Len(results) = Len(texts) -> MergeTexts(results[i], <<texts[i]>>)
          [] Len(results) # Len(texts) /\ i = Len(results) -> MergeTexts(results[i], texts)
          [] OTHER -> results[i]]

StartsWithPdfRead(result) ==
    /\ result.inner # <<>>
    /\ ~HasType(result.inner, {"document"})
    /\ result.inner[1].type = "text"
    /\ StartsWith(result.inner[1].body, PdfFileRead)

\* Mutant: an attachment is given out again that has its result.
MergeAttachmentsAgain(results, attachments) ==
    LET last == Len(results)
    IN [i \in DOMAIN results |->
            IF (~StartsWithPdfRead(results[i]) /\ i # last) \/ attachments = <<>> THEN results[i]
            ELSE [results[i] EXCEPT !.form = "array", !.inner = @ \o Unmarked(attachments)]]

\* Documents go to the results that read one, in order; the others to the
\* results one by one when there are as many, or all to the last that takes any.
MergeAttachments(results, attachments) ==
    LET inOrder(S) == SetToSortSeq(S, <)
        mergeable == {i \in DOMAIN results : ~results[i].error /\ ~HasToolRef(results[i])}
        reads == inOrder({i \in mergeable : StartsWithPdfRead(results[i])})
        documents == inOrder({k \in DOMAIN attachments : attachments[k].type = "document"})
        paired == 1 .. (IF Len(reads) < Len(documents) THEN Len(reads) ELSE Len(documents))
        counted == inOrder(mergeable \ {reads[p] : p \in paired})
        rest == inOrder(DOMAIN attachments \ {documents[p] : p \in paired})
        IsLast(i) == \A j \in mergeable : j <= i
        Given(i) ==
            {documents[p] : p \in {q \in paired : reads[q] = i}}
            \cup IF counted # <<>> /\ Len(counted) = Len(rest)
                 THEN {rest[c] : c \in {d \in DOMAIN rest : counted[d] = i}}
                 ELSE {k \in ToSet(rest) : IsLast(i)}
        Added(i) == LET order == inOrder(Given(i))
                    IN Unmarked([k \in DOMAIN order |-> attachments[order[k]]])
    IN [i \in DOMAIN results |->
            IF i \notin mergeable \/ Given(i) = {} THEN results[i]
            ELSE [results[i] EXCEPT !.form = "array", !.inner = @ \o Added(i)]]

\* Mutant: only texts are merged.
MergeTextsOnly(blocks) ==
    LET results == OfType(blocks, {"tool_result"})
        texts == OfType(blocks, {"text"})
    IN IF results = <<>> \/ texts = <<>> \/ Len(results) + Len(texts) # Len(blocks) THEN blocks
       ELSE MergeToolResult(results, texts)

MergeUserContent(blocks) ==
    LET results == OfType(blocks, {"tool_result"})
        texts == OfType(blocks, {"text"})
        attachments == OfType(blocks, Attachments)
        merged == IF texts = <<>> THEN results ELSE MergeToolResult(results, texts)
    IN IF results = <<>> \/ Len(results) = Len(blocks)
          \/ Len(results) + Len(texts) + Len(attachments) # Len(blocks)
       THEN blocks
       ELSE MergeAttachments(merged, attachments)

UserArrays(messages) ==
    {i \in DOMAIN messages : messages[i].role = "user" /\ messages[i].form = "array"}

\* Mutant: only the last message is merged.
MergeLastOnly(messages, skipLast) ==
    [i \in DOMAIN messages |->
        IF i \notin UserArrays(messages) \/ skipLast \/ i # Len(messages) THEN messages[i]
        ELSE [messages[i] EXCEPT !.blocks = MergeUserContent(@)]]

MergeToolResultForClaude(messages, skipLast) ==
    [i \in DOMAIN messages |->
        IF i \notin UserArrays(messages) \/ (skipLast /\ i = Len(messages)) THEN messages[i]
        ELSE [messages[i] EXCEPT !.blocks = MergeUserContent(@)]]

\* strip_tool_reference_turn_boundary
StripTurnBoundary(messages) ==
    LET loads(blocks) ==
            \E k \in DOMAIN blocks : blocks[k].type = "tool_result" /\ HasToolRef(blocks[k])
    IN [i \in DOMAIN messages |->
        IF i \notin UserArrays(messages) \/ ~loads(messages[i].blocks) THEN messages[i]
        ELSE [messages[i] EXCEPT !.blocks =
                SelectSeq(@, LAMBDA b : ~(b.type = "text" /\ b.body = <<TurnBoundary>>))]]

\* apply_last_message_cache_control
MarkLastBlock(messages) ==
    LET m == Len(messages)
        b == Len(messages[m].blocks)
    IN IF messages[m].form # "array" \/ b = 0 \/ messages[m].blocks[b].type = "thinking"
       THEN messages
       ELSE [messages EXCEPT ![m].blocks[b].marked = TRUE]

\* Where Copilot bills by token there is nothing to gain from merging, and the
\* request stays as the client sent it.
MergeAndMark(messages, compact, tokenBased) ==
    IF tokenBased THEN messages
    ELSE MarkLastBlock(MergeToolResultForClaude(StripTurnBoundary(messages), compact = 1))

-----------------------------------------------------------------------------
(* Native Messages: the carriers of other APIs' reasoning are removed.     *)

StripTranslatedReasoning(messages) ==
    [i \in DOMAIN messages |->
        IF messages[i].role # "assistant" \/ messages[i].form # "array" THEN messages[i]
        ELSE [messages[i] EXCEPT !.blocks = SelectSeq(@,
                LAMBDA b : ~(b.type = "thinking" /\ b.sig.kind \in {"reasoning", "chat"}))]]
=============================================================================

-------------------------- MODULE ChatTranslation --------------------------
(***************************************************************************)
(* The translation of a Chat Completions stream into an Anthropic one:     *)
(* src/src/routes/messages/stream_translation.rs.  Translate is            *)
(* translate_chunk_to_anthropic_events and Flush the end of the stream.    *)
(*                                                                         *)
(* Chat deltas may interleave text, reasoning and parallel tool calls;     *)
(* Anthropic blocks follow each other.  Once a tool call is active, what   *)
(* is not its own arguments is deferred, in source order, to the end.      *)
(*                                                                         *)
(* A chunk that fails a check of its shape alone (a missing field, a wrong *)
(* type, an unknown extension) is of kind "malformed".  The service tier   *)
(* stands for both assertions that a later chunk may add but not change    *)
(* (system_fingerprint is the other).                                      *)
(***************************************************************************)
EXTENDS AnthropicStream

CONSTANT MaxTools   \* MAX_CHAT_STREAM_TOOL_CALLS

ASSUME MaxToolsAssumption == MaxTools \in Nat

NewTool == [id |-> Absent, name |-> Absent, ext |-> FALSE, args |-> <<>>,
            buffered |-> <<>>, block |-> -1, started |-> FALSE]

\* AnthropicStreamState
ChatState(suppress) ==
    [ok |-> TRUE, out |-> <<>>, spent |-> 0, suppress |-> suppress,
     chat |-> Absent, tier |-> Absent, usage |-> <<>>,  \* chat_id, _service_tier, _usage
     seen |-> FALSE, content |-> <<>>, emitted |-> <<>>, refusal |-> <<>>,
     begun |-> FALSE,           \* message_start_sent
     index |-> 0, open |-> FALSE, thinking |-> FALSE,
     pending |-> Absent,        \* the stop reason of pending_message_delta
     pendingUsage |-> <<>>, usageSeen |-> FALSE,
     deferred |-> <<>>, tools |-> <<>>, active |-> 0,
     stopped |-> FALSE, terminal |-> FALSE]

(***************************************************************************)
(* Blocks                                                                  *)
(***************************************************************************)
ToolOpen(s) == s.open /\ \E i \in DOMAIN s.tools : s.tools[i].block = s.index

CloseBlock(s) ==
    IF ~s.open THEN s
    ELSE [Emit(s, <<BlockStop(s.index)>>) EXCEPT
             !.open = FALSE, !.index = @ + 1,
             !.active = IF ToolOpen(s) THEN 0 ELSE @]

\* close_thinking_block; an empty signature is emitted too and costs nothing.
CloseThinkingWith(s, signature) ==
    IF ~s.thinking THEN s
    ELSE Then(Reserve(s, Len(signature)), LAMBDA t :
             [Emit(t, <<BlockDelta(t.index, "signature", signature), BlockStop(t.index)>>)
                 EXCEPT !.thinking = FALSE, !.index = @ + 1])

CloseThinking(s) == CloseThinkingWith(s, <<>>)

\* Text that is already paid for, or is paid for now.
EmitText(s, text, fromContent, paid) ==
    IF \/ ToolOpen(s)
       \/ fromContent /\ ~IsPrefix(s.emitted \o text, s.content)
    THEN Fail(s)
    ELSE Then(IF paid THEN s ELSE Reserve(s, Len(text)), LAMBDA r :
         LET t == CloseThinking(r)
             start == IF t.open THEN <<>> ELSE <<BlockStart(t.index, "text", <<>>)>>
         IN  [Emit(t, Append(start, BlockDelta(t.index, "text", text))) EXCEPT
                 !.open = TRUE, !.emitted = IF fromContent THEN @ \o text ELSE @])

\* Whole thinking block of an opaque reasoning value.
EmitOpaque(s, signature) ==
    [Emit(s, <<BlockStart(s.index, "thinking", <<>>),
               BlockDelta(s.index, "thinking", <<Placeholder>>),
               BlockDelta(s.index, "signature", signature), BlockStop(s.index)>>)
        EXCEPT !.index = @ + 1]

(***************************************************************************)
(* The scheduler: deferred output in source order                          *)
(***************************************************************************)
Deferred(kind, body, tool) == [kind |-> kind, body |-> body, tool |-> tool]

\* Mutant of Busy: what is deferred does not count.
BusyOnlyWhileActive(s) == s.active # 0

Busy(s) == s.active # 0 \/ s.deferred # <<>>

DeferText(s, text, fromContent) ==
    LET kind == IF fromContent THEN "content" ELSE "reasoning"
    IN  Then(Reserve(s, Len(text)), LAMBDA t :
            IF t.deferred # <<>> /\ Last(t.deferred).kind = kind
            THEN [t EXCEPT !.deferred[Len(t.deferred)].body = @ \o text]
            ELSE [t EXCEPT !.deferred = Append(@, Deferred(kind, text, 0))])

ScheduleText(s, text, fromContent) ==
    CASE text = <<>> -> s
      [] text # <<>> /\ Busy(s) -> DeferText(s, text, fromContent)
      [] OTHER -> EmitText(s, text, fromContent, FALSE)

ScheduleOpaque(s, signature) ==
    IF signature = <<>> THEN s
    ELSE IF s.thinking THEN CloseThinkingWith(s, signature)
    ELSE Then(Reserve(s, 1 + Len(signature)), LAMBDA t :
         IF Busy(t) THEN [t EXCEPT !.deferred = Append(@, Deferred("opaque", signature, 0))]
         ELSE EmitOpaque(CloseBlock(t), signature))

\* handle_thinking_text: out of place it becomes text.
Think(s, text) ==
    IF text = <<>> THEN s
    ELSE IF s.open \/ Busy(s) THEN ScheduleText(s, text, FALSE)
    ELSE Then(Reserve(s, Len(text)), LAMBDA t :
         LET start == IF t.thinking THEN <<>> ELSE <<BlockStart(t.index, "thinking", <<>>)>>
         IN  [Emit(t, Append(start, BlockDelta(t.index, "thinking", text)))
                 EXCEPT !.thinking = TRUE])

Ready(tool) == tool.id # Absent /\ tool.name # Absent

StartTool(s, i) ==
    IF s.active # 0 \/ s.tools[i].started \/ ~Ready(s.tools[i]) THEN Fail(s)
    ELSE LET t == CloseBlock(CloseThinking(s))
             tool == t.tools[i]
             args == [k \in DOMAIN tool.buffered |->
                         BlockDelta(t.index, "input_json", tool.buffered[k])]
         IN  [Emit(t, <<BlockStart(t.index, "tool_use", <<tool.id>>)>> \o args) EXCEPT
                 !.tools[i] = [tool EXCEPT !.block = t.index, !.started = TRUE,
                                           !.buffered = <<>>],
                 !.active = i, !.open = TRUE]

\* try_start_front_tool_call
StartFront(s) ==
    IF /\ s.active = 0 /\ s.deferred # <<>>
       /\ Head(s.deferred).kind = "tool" /\ Ready(s.tools[Head(s.deferred).tool])
    THEN StartTool([s EXCEPT !.deferred = Tail(@)], Head(s.deferred).tool)
    ELSE s

\* One deferred output of the end of the stream, closed behind it if it is a tool.
FlushOne(s, d) ==
    Then(s, LAMBDA t :
        CASE d.kind = "tool" -> Then(StartTool(CloseBlock(t), d.tool), CloseBlock)
          [] d.kind = "opaque" -> EmitOpaque(CloseBlock(t), d.body)
          [] OTHER -> EmitText(t, d.body, d.kind = "content", TRUE))

FlushDeferred(s) ==
    LET flushed[k \in 0 .. Len(s.deferred)] ==
            IF k = 0 THEN s ELSE FlushOne(flushed[k - 1], s.deferred[k])
    IN  [flushed[Len(s.deferred)] EXCEPT !.deferred = <<>>]

(***************************************************************************)
(* Tool deltas                                                             *)
(***************************************************************************)
Merge(tool, d) ==
    [tool EXCEPT !.id = IF d.id = Absent THEN @ ELSE d.id,
                 !.name = IF d.name = Absent THEN @ ELSE d.name,
                 !.ext = @ \/ d.ext]

\* What a delta adds to the payload.
ToolBytes(tool, d) ==
    LET One(b) == IF b THEN 1 ELSE 0
    IN  Len(d.args) + One(tool.id = Absent /\ d.id # Absent)
        + One(tool.name = Absent /\ d.name # Absent) + One(d.ext /\ ~tool.ext)

First(s, d) == d.index > Len(s.tools)

Current(s, d) == IF First(s, d) THEN NewTool ELSE s.tools[d.index]

\* A new call starts at once if nothing is before it, else it joins the queue.
ToolPlace(s, d) ==
    IF Merge(NewTool, d).id # Absent /\ Merge(NewTool, d).name # Absent /\ ~Busy(s)
    THEN StartTool(s, d.index)
    ELSE [s EXCEPT !.deferred = Append(@, Deferred("tool", <<>>, d.index))]

ToolArguments(s, d) ==
    IF d.args = <<>> THEN s
    ELSE LET t == [s EXCEPT !.tools[d.index].args = @ \o d.args]
         IN  IF t.active = d.index
             THEN Emit(t, <<BlockDelta(t.tools[d.index].block, "input_json", d.args)>>)
             ELSE [t EXCEPT !.tools[d.index].buffered = Append(@, d.args)]

HandleTool(s, d) ==
    LET paid(t) == Reserve(t, ToolBytes(Current(s, d), d))
        merged(t) == IF First(s, d) THEN [t EXCEPT !.tools = Append(@, Merge(NewTool, d))]
                     ELSE [t EXCEPT !.tools[d.index] = Merge(@, d)]
        placed(t) == IF First(s, d) THEN ToolPlace(t, d) ELSE StartFront(t)
    IN  Then(Then(Then(Then(s, paid), merged), placed), LAMBDA t :
            StartFront(ToolArguments(t, d)))

HandleTools(s, ds) ==
    LET handled[k \in 0 .. Len(ds)] ==
            IF k = 0 THEN CloseThinking(s) ELSE HandleTool(handled[k - 1], ds[k])
    IN  IF ds = <<>> THEN s ELSE handled[Len(ds)]

(***************************************************************************)
(* Validation of a chunk against the stream so far                         *)
(***************************************************************************)
SameChat(s, c) ==
    /\ s.chat \in {Absent, c.chat}
    /\ Absent \in {s.tier, c.tier} \/ s.tier = c.tier

SameUsage(s, c) == <<>> \in {s.usage, c.usage} \/ s.usage = c.usage

\* How many calls are known with the first i deltas.
KnownWith(s, ds, i) == Len(s.tools) + Cardinality({j \in 1 .. i : First(s, ds[j])})

ToolsFit(s, ds) ==
    /\ \A i, j \in DOMAIN ds : ds[i].index = ds[j].index => i = j
    /\ \A i \in DOMAIN ds :
          LET d == ds[i]
              tool == Current(s, d)
          IN  /\ First(s, d) => d.index = KnownWith(s, ds, i) /\ d.index <= MaxTools
              /\ Len(tool.args) + Len(d.args) <= MaxBytes
              /\ Absent \in {d.id, tool.id} \/ d.id = tool.id
              /\ Absent \in {d.name, tool.name} \/ d.name = tool.name
              /\ tool.started => (d.ext => tool.ext)

\* Content and refusal mirror one another as far as both go.
RefusalAgrees(s, c) ==
    /\ Len(s.content \o c.content) <= MaxBytes /\ Len(s.refusal \o c.refusal) <= MaxBytes
    /\ Prefixed(s.content \o c.content, s.refusal \o c.refusal)

\* The tools as they are with the deltas of the finishing chunk.
ToolsWith(s, ds) ==
    FoldLeft(LAMBDA ts, d :
                LET old == IF d.index > Len(ts) THEN NewTool ELSE ts[d.index]
                    new == [Merge(old, d) EXCEPT !.args = @ \o d.args]
                IN  IF d.index > Len(ts) THEN Append(ts, new) ELSE [ts EXCEPT ![d.index] = new],
             s.tools, ds)

\* Whether the fragments make a JSON object: here, an opening and a closing piece.
IsObject(args) == args = <<"{", "}">>

ToolsFinished(reason, tools) ==
    LET complete == \A i \in DOMAIN tools : Ready(tools[i]) /\ IsObject(tools[i].args)
    IN  CASE reason = "tool_calls" -> tools # <<>> /\ complete
          [] reason = "content_filter" -> complete
          [] OTHER -> tools = <<>>

HasOutput(c) ==
    \/ c.content # <<>> \/ c.reasoning # <<>> \/ c.opaque # <<>> \/ c.refusal # <<>>
    \/ c.tools # <<>>

FinishFits(s, c) ==
    c.finish # Absent =>
        /\ ToolsFinished(c.finish, ToolsWith(s, c.tools))
        /\ s.refusal \o c.refusal # <<>> => c.finish = "content_filter"
        /\ s.seen \/ HasOutput(c)

\* validate_chat_chunk
Valid(s, c) ==
    /\ c.kind \in {"choice", "usage"}
    /\ SameChat(s, c) /\ SameUsage(s, c)
    /\ c.kind = "usage" => c.usage # <<>>
    /\ c.kind = "choice" =>
          /\ s.pending = Absent
          /\ ToolsFit(s, c.tools) /\ RefusalAgrees(s, c) /\ FinishFits(s, c)

Establish(s, c) ==
    [s EXCEPT !.chat = c.chat, !.tier = IF @ = Absent THEN c.tier ELSE @,
              !.usage = IF c.usage = <<>> THEN @ ELSE c.usage]

(***************************************************************************)
(* The ends of a stream                                                    *)
(***************************************************************************)
\* terminal_stream_error_events: everything still deferred is dropped.
Terminate(s, kind) ==
    IF s.terminal THEN s
    ELSE LET t == CloseBlock(CloseThinking([s EXCEPT !.ok = TRUE]))
         IN  [Emit(t, <<ErrorEvent(kind)>>) EXCEPT
                 !.active = 0, !.tools = <<>>, !.deferred = <<>>,
                 !.pending = Absent, !.pendingUsage = <<>>, !.terminal = TRUE]

\* A failing step ends the stream with an error behind what it emitted.
OrMalformed(s) == IF s.ok THEN s ELSE Terminate(s, "api_error")

\* flush_reconciled_refusal
FlushRefusal(s) ==
    IF s.emitted # s.content THEN Fail(s)
    ELSE IF IsPrefix(s.refusal, s.content) THEN s
    ELSE EmitText(s, SubSeq(s.refusal, Len(s.content) + 1, Len(s.refusal)), FALSE, FALSE)

ToolsDelivered(s) ==
    \A i \in DOMAIN s.tools : s.tools[i].started /\ s.tools[i].buffered = <<>>

\* schedule_terminal_output
FinishOutput(s) ==
    LET closed == CloseThinking(s)
    IN  Then(FlushDeferred(IF ToolOpen(closed) THEN CloseBlock(closed) ELSE closed), LAMBDA t :
            IF ToolsDelivered(t) THEN Then(FlushRefusal(t), CloseBlock) ELSE Fail(t))

StopReason == [stop |-> "end_turn", length |-> "max_tokens", tool_calls |-> "tool_use",
               content_filter |-> "refusal"]

Finish(s, c) ==
    IF c.finish = Absent THEN s
    ELSE Then(FinishOutput(s), LAMBDA t :
         [t EXCEPT !.pending = StopReason[c.finish], !.pendingUsage = t.usage,
                   !.usageSeen = c.usage # <<>>])

\* The last usage chunk, at most one behind the finish and only then.
TakeUsage(s, c) ==
    IF s.pending = Absent \/ s.usageSeen THEN Terminate(s, "api_error")
    ELSE [s EXCEPT !.pendingUsage = c.usage, !.usageSeen = TRUE]

BeginMessage(s) ==
    IF s.begun THEN s
    ELSE Then(Reserve(s, IF s.tier = Absent THEN 0 ELSE 1), LAMBDA t :
            [Emit(t, <<MessageStart>>) EXCEPT !.begun = TRUE])

TakeChoice(s, c) ==
    LET noted(t) == [t EXCEPT !.seen = @ \/ HasOutput(c), !.content = @ \o c.content,
                              !.refusal = @ \o c.refusal]
        thought(t) == IF t.suppress THEN t
                      ELSE Then(Think(t, c.reasoning), LAMBDA u : ScheduleOpaque(u, c.opaque))
        tools(t) == HandleTools(t, c.tools)
        texted(t) == ScheduleText(t, c.content, TRUE)
        finished(t) == Finish(t, c)
    IN  Then(Then(Then(Then(Then(BeginMessage(s), noted), thought), tools), texted), finished)

\* translate_chunk_to_anthropic_events
Translate(s, c) ==
    IF s.terminal THEN s
    ELSE IF c.kind = "error" THEN Terminate(s, "upstream")
    ELSE IF ~Valid(s, c) THEN Terminate(s, "api_error")
    ELSE IF c.kind = "usage" THEN TakeUsage(Establish(s, c), c)
    ELSE OrMalformed(TakeChoice(Establish(s, c), c))

\* complete_pending_message and flush_pending_anthropic_stream_events
Flush(s) ==
    IF s.terminal THEN s
    ELSE IF s.pending = Absent THEN Terminate(s, "api_error")
    ELSE LET t == Reserve(s, IF s.tier = Absent THEN 0 ELSE 1)
         IN  IF ~t.ok THEN Terminate(s, "api_error")
             ELSE [Emit(t, <<MessageDelta(t.pending, t.pendingUsage), MessageStop>>) EXCEPT
                      !.pending = Absent, !.stopped = TRUE, !.terminal = TRUE]
============================================================================

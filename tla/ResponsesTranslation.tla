------------------------ MODULE ResponsesTranslation ------------------------
(***************************************************************************)
(* The translation of a Responses stream into an Anthropic one:            *)
(* src/src/routes/messages/responses_stream_translation.rs.  TranslateEvent*)
(* is translate_responses_stream_event.                                    *)
(*                                                                         *)
(* An output item is announced (added), filled by deltas, and completed    *)
(* (done); a completed value is authoritative and must extend what was     *)
(* streamed.  Text goes to the client as it comes; parallel calls are put  *)
(* one behind the other; reasoning waits for its item to complete.         *)
(*                                                                         *)
(* An event that fails a check of its shape alone is of type "malformed".  *)
(* `call` stands for the call id and the resolved name of a tool, which    *)
(* are checked together.  Owners of retained memory are counted exactly,   *)
(* with one byte for each identifier.                                      *)
(***************************************************************************)
EXTENDS AnthropicStream

CONSTANTS MaxRetained,   \* MAX_BUFFERED_TRANSLATION_BYTES
          MaxItems,      \* MAX_TRACKED_OUTPUT_ITEMS
          MaxParts,      \* MAX_TRACKED_CONTENT_PARTS
          MaxWhite       \* MAX_CONSECUTIVE_FUNCTION_CALL_WHITESPACE

ASSUME ResponsesLimits ==
    MaxRetained \in Nat /\ MaxItems \in Nat /\ MaxParts \in Nat /\ MaxWhite \in Nat

None == -1
Empty == <<>>   \* the function, and the sequence, without elements
CallTypes == {"function_call", "custom_tool_call", "tool_search_call"}

\* ResponsesStreamState.  Every start of a block closes the one before it, so
\* open_blocks has at most one.
ResponsesState ==
    [ok |-> TRUE, out |-> <<>>, spent |-> 0, owners |-> Empty,
     begun |-> FALSE,       \* message_start_sent
     completed |-> FALSE,   \* message_completed
     failed |-> FALSE,      \* translation_failed
     created |-> <<>>, next |-> 0, blockOf |-> Empty, open |-> None,
     calls |-> Empty, order |-> <<>>, active |-> None,
     items |-> Empty, reasoning |-> Empty, text |-> Empty,
     last |-> <<>>, textParts |-> 0, reasoningParts |-> 0, hasTool |-> FALSE]

With(f, k, v) == [x \in DOMAIN f \union {k} |-> IF x = k THEN v ELSE f[x]]
Without(f, k) == Restrict(f, DOMAIN f \ {k})

(***************************************************************************)
(* Retained memory                                                         *)
(***************************************************************************)
\* ResponsesBudgetTransaction: the three mutations and the check of their sum
Own(s, o, n) ==
    CASE n = 0 -> s
      [] n > 0 /\ o \in DOMAIN s.owners -> Fail(s)
      [] OTHER -> [s EXCEPT !.owners = With(@, o, n)]
Resize(s, o, n) ==
    [s EXCEPT !.owners = IF n = 0 THEN Without(@, o) ELSE With(@, o, n)]
Disown(s, o) == IF o \in DOMAIN s.owners THEN Resize(s, o, 0) ELSE Fail(s)

DisownAll(s, os) ==
    IF s.ok /\ os \subseteq DOMAIN s.owners
    THEN [s EXCEPT !.owners = Restrict(@, DOMAIN @ \ os)] ELSE Fail(s)

Retained(s) == FoldFunction(+, 0, s.owners)
Commit(s) == IF Retained(s) > MaxRetained THEN Fail(s) ELSE s

\* A step that checks everything before it changes anything.
Atomic(s, t) == IF t.ok THEN t ELSE Fail(s)

(***************************************************************************)
(* Blocks                                                                  *)
(***************************************************************************)
CloseOpen(s) ==
    IF s.open = None THEN s ELSE [Emit(s, <<BlockStop(s.open)>>) EXCEPT !.open = None]

\* Mutant of StartBlock: the block before it stays open.
StartBlockNested(s, index, kind, body) ==
    [Emit(s, <<BlockStart(index, kind, body)>>) EXCEPT !.open = index]

StartBlock(s, index, kind, body) ==
    [Emit(CloseOpen(s), <<BlockStart(index, kind, body)>>) EXCEPT !.open = index]

OpenBlock(s, key, kind) ==
    LET new == key \notin DOMAIN s.blockOf
        index == IF new THEN s.next ELSE s.blockOf[key]
        t == IF new THEN [s EXCEPT !.blockOf = With(@, key, index), !.next = @ + 1] ELSE s
    IN  IF t.open = index THEN t ELSE StartBlock(t, index, kind, <<>>)

\* close_all_open_blocks: nothing stays retained.
CloseAll(s) ==
    [CloseOpen(s) EXCEPT !.owners = Empty, !.blockOf = Empty, !.calls = Empty, !.order = <<>>,
                         !.active = None, !.items = Empty, !.reasoning = Empty, !.text = Empty,
                         !.last = <<>>, !.textParts = 0, !.reasoningParts = 0, !.created = <<>>]

TerminateResponses(s, kind) ==
    IF s.completed THEN s
    ELSE [Emit(CloseAll(s), <<ErrorEvent(kind)>>) EXCEPT !.completed = TRUE, !.failed = TRUE]

\* A handler that fails returns the events of its termination alone.
OrTerminate(s, t) ==
    IF t.ok THEN t ELSE TerminateResponses([t EXCEPT !.ok = TRUE, !.out = s.out], "api_error")

(***************************************************************************)
(* Items                                                                   *)
(***************************************************************************)
\* canonical_output_item_digest: without the parts that are encrypted anew
Digest(item) == [item EXCEPT !.id = Absent, !.carrier = Absent]
Digests(items) == [k \in DOMAIN items |-> Digest(items[k])]

IsJsonObject(args) == SelectSeq(args, LAMBDA p : p # "\n") = <<"{", "}">>

WellFormed(item, phase) ==
    CASE item.type = "function_call" ->
             IsJsonObject(item.args) \/ (phase = "added" /\ item.args = <<>>)
      [] item.type = "compaction" -> item.carrier # Absent
      [] OTHER -> item.type \in {"message", "reasoning", "tool_search_output"} \union CallTypes

\* The arguments a call item carries; the two other kinds are wrapped in an object.
Arguments(item) ==
    IF item.type = "function_call" THEN item.args
    ELSE <<"{input:">> \o item.args \o <<"}">>

\* validate_output_item_reconciliation
Reconciles(added, done) ==
    CASE added.type = "function_call" -> added.call = done.call
      [] added.type = "custom_tool_call" ->
             added.call = done.call /\ added.args \in {<<>>, done.args}
      [] added.type = "tool_search_call" ->
             /\ Absent \in {added.call, done.call} \/ added.call = done.call
             /\ added.args = done.args
      [] OTHER -> TRUE

IdTaken(s, i, id) == id # Absent /\ \E j \in DOMAIN s.items \ {i} : s.items[j].id = id

IdsAgree(e) == Absent \in {e.id, e.item.id} \/ e.id = e.item.id
EventId(e) == IF e.item.id # Absent THEN e.item.id ELSE e.id

\* plan_late_output_item_id: an id that first comes with a later event.
LateId(s, i, id) ==
    CASE id = Absent \/ s.items[i].id # Absent -> s
      [] id # Absent /\ s.items[i].id = Absent /\ IdTaken(s, i, id) -> Fail(s)
      [] OTHER ->
         LET t == Own(Resize(s, <<"metadata", i>>, 2), <<"id", i>>, 1)
             u == IF i \in DOMAIN t.reasoning THEN Resize(t, <<"reasoning_id", i>>, 1) ELSE t
         IN  [u EXCEPT !.items[i].id = id]

\* validate_active_output_item and validate_reasoning_event
Active(s, e, types) ==
    IF e.i \notin DOMAIN s.items THEN Fail(s)
    ELSE IF s.items[e.i].done \/ s.items[e.i].type \notin types THEN Fail(s)
    ELSE Then(LateId(s, e.i, e.id), LAMBDA t :
         IF e.call # Absent /\ e.i \in DOMAIN t.calls /\ t.calls[e.i].id # e.call
         THEN Fail(t) ELSE Commit(t))

(***************************************************************************)
(* Calls                                                                   *)
(***************************************************************************)
ToolUseId(call, id, i) ==
    CASE call # Absent -> call [] call = Absent /\ id # Absent -> id
      [] OTHER -> "tool_call_" \o ToString(i)

PayCall(s, i) ==
    IF i \in DOMAIN s.calls THEN s ELSE Own(Reserve(s, 2), <<"call", i>>, 2)

\* open_function_call_block
OpenCall(s, i, id) ==
    IF i \in DOMAIN s.calls /\ id \notin {Absent, s.calls[i].id} THEN Fail(s)
    ELSE
    LET known == IF i \in DOMAIN s.calls THEN s
                 ELSE [s EXCEPT !.calls = With(@, i,
                           [block |-> s.next, id |-> id, args |-> <<>>, white |-> 0,
                            argsDone |-> FALSE, started |-> FALSE, done |-> FALSE]),
                       !.order = Append(@, i), !.next = @ + 1]
        t == [known EXCEPT !.hasTool = TRUE, !.active = IF @ = None THEN i ELSE @]
    IN  IF t.active # i \/ t.calls[i].started THEN t
        ELSE [StartBlock(t, t.calls[i].block, "tool_use", <<t.calls[i].id>>)
                 EXCEPT !.calls[i].started = TRUE]

PayArguments(s, i, old, args) ==
    Commit(Resize(Reserve(s, Len(args) - Len(old)), <<"args", i>>, Len(args)))

\* Arguments reach the client at once if their call is the active one.
SetArguments(s, i, args) ==
    LET new == SubSeq(args, Len(s.calls[i].args) + 1, Len(args))
        t == [s EXCEPT !.calls[i].args = args]
    IN  IF t.active # i \/ new = <<>> THEN t
        ELSE Emit(t, <<BlockDelta(t.calls[i].block, "input_json", new)>>)

ReleaseCall(s, i) ==
    DisownAll(s, {<<"call", i>>} \union
                 (IF s.calls[i].args = <<>> THEN {} ELSE {<<"args", i>>}))

EndCall(s, i) ==
    LET t == IF s.open = s.calls[i].block THEN CloseOpen(s) ELSE s
    IN  [t EXCEPT !.calls = Without(@, i), !.active = None]

\* The next call of the queue becomes active with what it has; a finished one ends.
Activate(s, i) ==
    IF ~s.ok \/ s.active # None \/ i \notin DOMAIN s.calls THEN s
    ELSE
    LET args == s.calls[i].args
        t == OpenCall([s EXCEPT !.active = i], i, Absent)
        u == IF args = <<>> THEN t
             ELSE Emit(t, <<BlockDelta(t.calls[i].block, "input_json", args)>>)
    IN  IF s.calls[i].done THEN Then(ReleaseCall(u, i), LAMBDA v : EndCall(v, i)) ELSE u

\* advance_function_call_queue
Advance(s) ==
    LET t == IF s.active = None THEN s
             ELSE Then(ReleaseCall(s, s.active), LAMBDA u : EndCall(u, u.active))
        advanced[k \in 0 .. Len(t.order)] ==
            IF k = 0 THEN t ELSE Activate(advanced[k - 1], t.order[k])
    IN  advanced[Len(t.order)]

FinishCalls(s) ==
    IF s.calls = Empty THEN s
    ELSE Advance([s EXCEPT !.calls = [i \in DOMAIN @ |-> [@[i] EXCEPT !.done = TRUE]]])

\* update_whitespace_run_state over the pieces of a delta
WhiteRun(count, pieces) ==
    FoldLeft(LAMBDA n, p : IF n > MaxWhite THEN n ELSE IF p = "\n" THEN n + 1 ELSE 0,
             count, pieces)

(***************************************************************************)
(* Text                                                                    *)
(***************************************************************************)
TextAt(s, key) ==
    IF key \in DOMAIN s.text THEN s.text[key] ELSE [text |-> <<>>, done |-> FALSE]

PayText(s, key, body) ==
    LET new == key \notin DOMAIN s.text
        t == Reserve(s, Len(body))
        u == IF new THEN Own(t, <<"text_key", key>>, 1) ELSE t
        v == Resize(u, <<"text", key>>, Len(TextAt(s, key).text) + Len(body))
    IN  IF TextAt(s, key).done \/ (new /\ s.textParts >= MaxParts) THEN Fail(s)
        ELSE IF body # <<>> /\ key \notin DOMAIN s.blockOf
        THEN Own(v, <<"block_key", key>>, 1) ELSE v

\* append_output_text
AppendText(s, key, body) ==
    Then(Commit(PayText(s, key, body)), LAMBDA t :
        LET new == key \notin DOMAIN t.text
            u == [t EXCEPT !.text = With(@, key, [TextAt(t, key) EXCEPT !.text = @ \o body]),
                           !.textParts = IF new THEN @ + 1 ELSE @]
            v == OpenBlock(u, key, "text")
        IN  IF body = <<>> THEN u
            ELSE Emit(v, <<BlockDelta(v.blockOf[key], "text", body)>>))

\* reconcile_output_text: an authoritative text extends what was streamed.
ExtendText(s, key, body) ==
    LET old == TextAt(s, key)
    IN  CASE old.done -> IF old.text = body THEN s ELSE Fail(s)
          [] ~old.done /\ ~IsPrefix(old.text, body) -> Fail(s)
          [] OTHER -> AppendText(s, key, SubSeq(body, Len(old.text) + 1, Len(body)))

\* release_output_text_state
ReleaseText(s, i) ==
    LET keys == {k \in DOMAIN s.text : k[1] = i}
        owned(k) == {<<"text_key", k>>}
                    \union (IF s.text[k].text = <<>> THEN {} ELSE {<<"text", k>>})
                    \union (IF k \in DOMAIN s.blockOf THEN {<<"block_key", k>>} ELSE {})
    IN  Then(DisownAll(s, UNION {owned(k) : k \in keys}), LAMBDA t :
            [t EXCEPT !.text = Restrict(@, DOMAIN @ \ keys),
                      !.blockOf = Restrict(@, DOMAIN @ \ keys)])

\* Mutant of ExtendMessage: the completed item is not read for what its deltas left out.
ExtendMessageUnread(s, i, item) == s

\* plan_complete_message_item: parts of the message are numbered from 0.
ExtendMessage(s, i, item) ==
    LET extended[p \in 0 .. Len(item.content)] ==
            IF p = 0 THEN s
            ELSE Then(extended[p - 1], LAMBDA u : ExtendText(u, <<i, p - 1>>, item.content[p]))
    IN  IF \E k \in DOMAIN s.text : k[1] = i /\ k[2] + 1 \notin DOMAIN item.content THEN Fail(s)
        ELSE extended[Len(item.content)]

(***************************************************************************)
(* Events                                                                  *)
(***************************************************************************)
\* validate_event_sequence, told by how a number compares with the last one:
\* "none", "next", "same" or "back".
IsReplay(s, e) == e.seq = "same" /\ s.last = <<[e EXCEPT !.seq = "next"]>>

Number(s, e) ==
    IF e.seq = "none" THEN s
    ELSE IF e.seq = "next" \/ s.last = <<>>
    THEN Commit(Resize([s EXCEPT !.last = <<[e EXCEPT !.seq = "next"]>>], <<"snapshot">>, 1))
    ELSE Fail(s)

\* handle_response_created
Create(s, e) ==
    IF Len(e.output) > MaxItems \/ \E k \in DOMAIN e.output : ~WellFormed(e.output[k], "added")
    THEN Fail(s)
    ELSE Then(Commit(Resize(s, <<"response_id">>, 1)), LAMBDA t :
            [Emit(t, <<MessageStart>>) EXCEPT !.begun = TRUE, !.created = Digests(e.output)])

\* OutputItemLifecycle; the final item counts once it is done.
Known(item, id) ==
    [type |-> item.type, id |-> id, initial |-> item, final |-> item, done |-> FALSE,
     incomplete |-> FALSE]

\* A tool search without a call id waits for its completion.
CallStarts(item) ==
    item.type \in CallTypes /\ ~(item.type = "tool_search_call" /\ item.call = Absent)

InitialArguments(item) ==
    IF item.args = <<>> \/ item.type = "tool_search_call" THEN <<>> ELSE Arguments(item)

\* handle_output_item_added
AddItem(s, e) ==
    LET i == e.i
        id == EventId(e)
        a == Own(Own(s, <<"pending", i>>, 1), <<"metadata", i>>, IF id = Absent THEN 1 ELSE 2)
        b == IF id = Absent THEN a ELSE Own(a, <<"id", i>>, 1)
        c == IF id = Absent \/ e.item.type # "reasoning" THEN b
             ELSE Own(b, <<"reasoning_id", i>>, 1)
        d == IF CallStarts(e.item)
             THEN PayArguments(PayCall(c, i), i, <<>>, InitialArguments(e.item)) ELSE Commit(c)
        added(t) ==
            [t EXCEPT !.items = With(@, i, Known(e.item, id)),
                      !.reasoning = IF e.item.type = "reasoning"
                                    THEN With(@, i, [summary |-> Empty, content |-> Empty])
                                    ELSE @]
        opened(t) ==
            IF CallStarts(e.item)
            THEN Then(OpenCall(t, i, e.item.call), LAMBDA u :
                     SetArguments(u, i, InitialArguments(e.item)))
            ELSE t
    IN  IF ~IdsAgree(e) \/ ~WellFormed(e.item, "added") THEN Fail(s)
        ELSE IF i \in DOMAIN s.items
        THEN IF ~s.items[i].done /\ s.items[i].initial = e.item THEN s ELSE Fail(s)
        ELSE IF Cardinality(DOMAIN s.items) >= MaxItems \/ IdTaken(s, i, id) THEN Fail(s)
        ELSE Then(Atomic(s, d), LAMBDA t : opened(added(t)))

\* The lifecycle of an item that completes, announced or not.
Complete(s, e) ==
    LET i == e.i
        id == EventId(e)
        done(t) == [t EXCEPT !.items[i].done = TRUE, !.items[i].final = e.item,
                             !.items[i].incomplete = ~e.item.complete]
        implicit == Own(Own(s, <<"metadata", i>>, IF id = Absent THEN 1 ELSE 2),
                        <<"id", i>>, IF id = Absent THEN 0 ELSE 1)
    IN  IF i \in DOMAIN s.items
        THEN Then(LateId(s, i, id), LAMBDA t : done(Disown(t, <<"pending", i>>)))
        ELSE IF Cardinality(DOMAIN s.items) >= MaxItems \/ IdTaken(s, i, id) THEN Fail(s)
        ELSE done([implicit EXCEPT !.items = With(@, i, Known(e.item, id))])

DoneMessage(s, e) ==
    Then(Atomic(s, Commit(ExtendMessage(Complete(s, e), e.i, e.item))), LAMBDA t :
        ReleaseText(t, e.i))

DoneCall(s, e) ==
    LET i == e.i
        prior == IF i \in DOMAIN s.items THEN s.items[i].initial ELSE e.item
        call == IF e.item.call # Absent THEN e.item.call ELSE prior.call
        id == ToolUseId(call, IF e.item.id # Absent THEN e.item.id ELSE prior.id, i)
        old == IF i \in DOMAIN s.calls THEN s.calls[i].args ELSE <<>>
        args == Arguments(e.item)
        paid == Then(Complete(s, e), LAMBDA t : PayArguments(PayCall(t, i), i, old, args))
    IN  IF ~IsPrefix(old, args) \/ (i \in DOMAIN s.calls /\ s.calls[i].id # id) THEN Fail(s)
        ELSE Then(Atomic(s, paid), LAMBDA t :
             Then(OpenCall(t, i, id), LAMBDA u :
             LET v == [SetArguments(u, i, args) EXCEPT !.calls[i].done = TRUE]
             IN  IF v.active = i THEN Advance(v) ELSE v))

\* A whole thinking block; the block key of a compaction stays owned.
ThinkingBlock(s, i, text, carrier) ==
    LET t == OpenBlock(s, <<i, 0>>, "thinking")
    IN  Emit(t, <<BlockDelta(t.open, "thinking", text), BlockDelta(t.open, "signature", <<carrier>>)>>)

PayThinking(s, i, bytes) == Commit(Own(Reserve(s, bytes), <<"block_key", <<i, 0>>>>, 1))

DoneCompaction(s, e) ==
    Then(Atomic(s, Then(Complete(s, e), LAMBDA t : PayThinking(t, e.i, 2))), LAMBDA t :
        ThinkingBlock(t, e.i, <<Placeholder>>, e.item.carrier))

\* Parts kept by index, from 0, in order.
PartTexts(parts) == [k \in 1 .. Cardinality(DOMAIN parts) |-> parts[k - 1]]
Contiguous(parts) == DOMAIN parts = 0 .. (Cardinality(DOMAIN parts) - 1)

\* The completed parts if there are any, which extend the streamed ones.
PartsExtend(old, exact, new) ==
    \/ new = <<>>
    \/ /\ Len(new) >= Len(old)
       /\ \A k \in DOMAIN old :
             IF k \in exact THEN new[k] = old[k] ELSE IsPrefix(old[k], new[k])

\* plan_reasoning_state_release
ReleaseReasoning(s, i) ==
    LET r == s.reasoning[i]
        owned == {<<"summary", i, k>> : k \in {k \in DOMAIN r.summary : r.summary[k].text # <<>>}}
                 \union {<<"content", i, k>> : k \in {k \in DOMAIN r.content : r.content[k] # <<>>}}
                 \union (IF s.items[i].id = Absent THEN {} ELSE {<<"reasoning_id", i>>})
    IN  IF i \notin DOMAIN s.reasoning THEN s
        ELSE [DisownAll(s, owned) EXCEPT !.reasoning = Without(@, i)]

DoneReasoning(s, e) ==
    LET i == e.i
        known == i \in DOMAIN s.reasoning
        r == IF known THEN s.reasoning[i] ELSE [summary |-> Empty, content |-> Empty]
        summary == PartTexts([k \in DOMAIN r.summary |-> r.summary[k].text])
        content == PartTexts(r.content)
        exact == {k + 1 : k \in {k \in DOMAIN r.summary : r.summary[k].done}}
        Or(new, old) == IF new = <<>> THEN old ELSE new
        shown == FlattenSeq(Or(e.item.summary, summary) \o Or(e.item.reasons, content))
        opaque == e.item.carrier # Absent \/ e.item.id # Absent
                  \/ (i \in DOMAIN s.items /\ s.items[i].id # Absent)
        text == IF shown = <<>> THEN <<Placeholder>> ELSE shown
        released == Then(Complete(s, e), LAMBDA t : ReleaseReasoning(t, i))
        key == <<i, 0>>
    IN  IF ~Contiguous(r.summary) \/ ~Contiguous(r.content) THEN Fail(s)
        ELSE IF \/ ~PartsExtend(summary, exact, e.item.summary)
                \/ ~PartsExtend(content, {}, e.item.reasons) THEN Fail(s)
        ELSE IF shown = <<>> /\ ~opaque THEN Atomic(s, Commit(released))
        ELSE Then(Atomic(s, Then(released, LAMBDA t : PayThinking(t, i, Len(text) + 1))),
                  LAMBDA t :
             LET u == Disown(ThinkingBlock(t, i, text, e.item.carrier), <<"block_key", key>>)
             IN  [u EXCEPT !.blockOf = Without(@, key)])

\* handle_output_item_done
CompleteItem(s, e) ==
    LET known == e.i \in DOMAIN s.items
        old == s.items[e.i]
        call == s.calls[e.i]
    IN  IF \/ ~IdsAgree(e) \/ ~WellFormed(e.item, "done")
           \/ known /\ old.type # e.item.type
           \/ known /\ ~old.done /\ ~Reconciles(old.initial, e.item) THEN Fail(s)
        ELSE IF known /\ old.done THEN IF old.final = e.item THEN s ELSE Fail(s)
        ELSE IF /\ e.item.type = "function_call" /\ e.i \in DOMAIN s.calls
                /\ call.argsDone /\ call.args # e.item.args THEN Fail(s)
        ELSE CASE e.item.type = "message" -> DoneMessage(s, e)
               [] e.item.type \in CallTypes -> DoneCall(s, e)
               [] e.item.type = "compaction" -> DoneCompaction(s, e)
               [] e.item.type = "reasoning" -> DoneReasoning(s, e)
               [] OTHER -> Atomic(s, Commit(Complete(s, e)))

\* handle_function_call_arguments_delta; too long a run of white space ends the stream.
ArgumentsDelta(s, e) ==
    Then(Active(s, e, {"function_call"}), LAMBDA t :
        LET u == OpenCall(t, e.i, Absent)
            white == WhiteRun(u.calls[e.i].white, e.body)
            args == u.calls[e.i].args \o e.body
        IN  IF e.body = <<>> THEN Fail(t)
            ELSE IF white > MaxWhite THEN TerminateResponses(u, "api_error")
            ELSE IF u.calls[e.i].argsDone THEN Fail(u)
            ELSE Then(PayArguments([u EXCEPT !.calls[e.i].white = white], e.i,
                                   u.calls[e.i].args, args),
                      LAMBDA v : SetArguments(v, e.i, args)))

\* handle_function_call_arguments_done
ArgumentsDone(s, e) ==
    Then(Active(s, e, {"function_call"}), LAMBDA t :
        LET call == t.calls[e.i]
        IN  IF ~IsJsonObject(e.body) \/ call.argsDone \/ ~IsPrefix(call.args, e.body) THEN Fail(t)
            ELSE Then(PayArguments(t, e.i, call.args, e.body), LAMBDA u :
                 [SetArguments(u, e.i, e.body) EXCEPT !.calls[e.i].argsDone = TRUE]))

TextDelta(s, e) ==
    Then(Active(s, e, {"message"}), LAMBDA t : AppendText(t, <<e.i, e.part>>, e.body))

\* handle_output_text_done
TextDone(s, e) ==
    LET key == <<e.i, e.part>>
    IN  Then(Active(s, e, {"message"}), LAMBDA t :
            IF TextAt(t, key).done THEN Fail(t)
            ELSE Then(ExtendText(t, key, e.body), LAMBDA u : [u EXCEPT !.text[key].done = TRUE]))

\* reserve_reasoning_part, which creates the slot of a part
NewPart == [text |-> <<>>, done |-> FALSE, added |-> FALSE]
Slot(s, e, field, empty) ==
    Then(Active(s, e, {"reasoning"}), LAMBDA t :
        IF e.part \in DOMAIN t.reasoning[e.i][field] THEN t
        ELSE IF t.reasoningParts >= MaxParts THEN Fail(t)
        ELSE [t EXCEPT !.reasoningParts = @ + 1, !.reasoning[e.i][field] = With(@, e.part, empty)])

PartAdded(s, e) ==
    Then(Slot(s, e, "summary", NewPart), LAMBDA t :
        LET part == t.reasoning[e.i].summary[e.part]
        IN  IF ~part.added /\ (part.text # <<>> \/ part.done) THEN Fail(t)
            ELSE [t EXCEPT !.reasoning[e.i].summary[e.part].added = TRUE])

SummaryDelta(s, e) ==
    Then(Slot(s, e, "summary", NewPart), LAMBDA t :
        LET part == t.reasoning[e.i].summary[e.part]
            text == part.text \o e.body
        IN  IF part.done THEN Fail(t)
            ELSE Commit(Resize([t EXCEPT !.reasoning[e.i].summary[e.part].text = text],
                               <<"summary", e.i, e.part>>, Len(text))))

\* handle_reasoning_summary_text_done: the one event that needs an item id
SummaryDone(s, e) ==
    Then(Slot(s, e, "summary", NewPart), LAMBDA t :
        LET part == t.reasoning[e.i].summary[e.part]
        IN  CASE e.id = Absent -> Fail(t)
              [] e.id # Absent /\ part.done -> IF part.text = e.body THEN t ELSE Fail(t)
              [] e.id # Absent /\ ~part.done /\ ~IsPrefix(part.text, e.body) -> Fail(t)
              [] OTHER -> Commit(Resize([t EXCEPT !.reasoning[e.i].summary[e.part] =
                                            [part EXCEPT !.text = e.body, !.done = TRUE]],
                                        <<"summary", e.i, e.part>>, Len(e.body))))

ReasoningDelta(s, e) ==
    Then(Slot(s, e, "content", <<>>), LAMBDA t :
        LET text == t.reasoning[e.i].content[e.part] \o e.body
        IN  Commit(Resize([t EXCEPT !.reasoning[e.i].content[e.part] = text],
                          <<"content", e.i, e.part>>, Len(text))))

(***************************************************************************)
(* The same answer as one JSON document (responses_translation.rs)         *)
(***************************************************************************)
\* map_output_to_anthropic_content, one item
JsonBlock(item, i) ==
    LET text == FlattenSeq(item.content)
        shown == FlattenSeq(item.summary \o item.reasons)
        opaque == item.carrier # Absent \/ item.id # Absent
        block(kind, body) == <<[kind |-> kind, body |-> body]>>
    IN  CASE item.type = "message" -> IF text = <<>> THEN <<>> ELSE block("text", text)
          [] item.type \in CallTypes ->
                 block("tool_use", <<ToolUseId(item.call, item.id, i)>> \o Arguments(item))
          [] item.type = "compaction" -> block("thinking", <<Placeholder, item.carrier>>)
          [] item.type = "reasoning" /\ shown # <<>> ->
                 block("thinking", Append(shown, item.carrier))
          [] item.type = "reasoning" /\ shown = <<>> /\ opaque ->
                 block("thinking", <<Placeholder, item.carrier>>)
          [] OTHER -> <<>>

JsonBlocks(items) == FlattenSeq([k \in DOMAIN items |-> JsonBlock(items[k], k - 1)])

(***************************************************************************)
(* The ends of a stream                                                    *)
(***************************************************************************)
Snapshot(s, field) ==
    [k \in 1 .. Cardinality(DOMAIN s.items) |-> Digest(s.items[k - 1][field])]

\* What the terminal event must find: every item done and told alike.
Settled(s, e) ==
    /\ \A i \in DOMAIN s.items : s.items[i].done
    /\ \A i \in DOMAIN s.calls : s.calls[i].done
    /\ s.reasoning = Empty /\ Contiguous(s.items)
    /\ s.created = <<>> \/ s.created \in {Snapshot(s, "initial"), Snapshot(s, "final")}
    /\ e.output = <<>> \/ Digests(e.output) = Snapshot(s, "final")
    /\ e.type = "completed" => \A i \in DOMAIN s.items : ~s.items[i].incomplete

\* map_responses_stop_reason; e.end is end_turn, or the reason of an incomplete answer.
StopReasonOf(s, e) ==
    CASE e.type = "completed" /\ e.end = "continue" /\ ~s.hasTool -> "pause_turn"
      [] e.type = "completed" /\ (e.end # "continue" \/ s.hasTool) ->
             IF s.hasTool THEN "tool_use" ELSE "end_turn"
      [] e.type = "incomplete" /\ e.end = "max_output_tokens" -> "max_tokens"
      [] e.type = "incomplete" /\ e.end = "content_filter" -> "refusal"
      [] OTHER -> Absent

\* handle_response_completed
CompleteResponse(s, e) ==
    IF \E k \in DOMAIN e.output : ~WellFormed(e.output[k], "done") THEN Fail(s)
    ELSE IF ~Settled(s, e) \/ StopReasonOf(s, e) = Absent THEN Fail(s)
    ELSE Then(FinishCalls(s), LAMBDA t :
         [Emit(CloseAll(t), <<MessageDelta(StopReasonOf(s, e), e.usage), MessageStop>>)
             EXCEPT !.completed = TRUE])

Handle(s, e) ==
    CASE e.type = "created" -> Create(s, e)
      [] e.type = "added" -> AddItem(s, e)
      [] e.type = "done" -> CompleteItem(s, e)
      [] e.type = "text_delta" -> TextDelta(s, e)
      [] e.type = "text_done" -> TextDone(s, e)
      [] e.type = "args_delta" -> ArgumentsDelta(s, e)
      [] e.type = "args_done" -> ArgumentsDone(s, e)
      [] e.type = "part_added" -> PartAdded(s, e)
      [] e.type = "summary_delta" -> SummaryDelta(s, e)
      [] e.type = "summary_done" -> SummaryDone(s, e)
      [] e.type = "reasoning_delta" -> ReasoningDelta(s, e)
      [] e.type \in {"completed", "incomplete"} -> CompleteResponse(s, e)
      [] e.type = "failed" -> TerminateResponses(s, "upstream")
      [] e.type = "error" -> TerminateResponses(s, "upstream")
      [] e.type = "malformed" -> Fail(s)
      [] OTHER -> s

\* translate_responses_stream_event
TranslateEvent(s, e) ==
    LET misplaced == IF s.begun THEN e.type = "created"
                     ELSE e.type \notin {"created", "failed", "error"}
    IN  IF s.completed \/ IsReplay(s, e) THEN s
        ELSE OrTerminate(s, Then(Number(s, e), LAMBDA t :
                                IF misplaced THEN Fail(t) ELSE Handle(t, e)))
=============================================================================

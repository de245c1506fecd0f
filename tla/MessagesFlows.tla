---------------------------- MODULE MessagesFlows ----------------------------
(***************************************************************************)
(* A streamed answer of the Messages endpoint, from the upstream's events  *)
(* to the client: src/src/routes/messages/api_flows.rs.  The three flows   *)
(* read one upstream event at a time, translate it (or, for an upstream    *)
(* that speaks the Messages API, relay it), hand the client the resulting  *)
(* frames, and record the tokens used when they end.                       *)
(*                                                                         *)
(* The Chat upstream sends any chunk of a set at any time.  The Responses  *)
(* upstream tells an answer item by item as its API has it, except for     *)
(* MaxFaults events that may be anything.  Incremental events are those of *)
(* the first item that is not complete; only calls that both go on may     *)
(* interleave.                                                             *)
(***************************************************************************)
EXTENDS ChatTranslation, WebSearch

CONSTANTS Flows,        \* the flows to consider
          Chunks,       \* chunks of the Chat upstream
          MaxChunks,
          Answers,      \* answers of the Responses upstream, each a sequence of items
          SearchAnswers,   \* those to a web search
          Faults,       \* events that do not belong to the answer
          SearchFaults,    \* those of a web search
          MaxFaults,
          Relayed       \* streams of the Messages upstream, each a sequence of events

Text == Seq(STRING)

\* A chunk that was read, as the checks of its shape leave it.
ToolDelta == [index : Nat \ {0}, id : STRING, name : STRING, ext : BOOLEAN, args : Text]
ChunkShape ==
    [kind : STRING, chat : STRING, tier : STRING, usage : Text, content : Text, reasoning : Text,
     opaque : Text, refusal : Text, tools : Seq(ToolDelta), finish : STRING]

\* Items of the Responses API and its events.
ItemShape ==
    [type : STRING, id : STRING, call : STRING, args : Text, content : Seq(Text), notes : Seq(Text),
     summary : Seq(Text), reasons : Seq(Text), carrier : STRING, complete : BOOLEAN]
EventShape ==
    [type : STRING, seq : STRING, i : Nat, part : Nat, id : STRING, call : STRING, body : Text,
     notes : Text, item : ItemShape, output : Seq(ItemShape), end : STRING, usage : Text]

\* Whatever ends an answer tells the tokens used.
Tallied(e) == e.type \in {"completed", "incomplete", "failed"} => e.usage # <<>>

ASSUME FlowsAssumption == Flows \subseteq {"chat", "responses", "search", "messages"}
ASSUME ChunksAssumption == Chunks \subseteq ChunkShape
ASSUME AnswersAssumption == Answers \union SearchAnswers \subseteq Seq(ItemShape)
ASSUME FaultsAssumption ==
    \A e \in Faults \union SearchFaults : e \in EventShape /\ Tallied(e)

VARIABLES
    flow,       \* "chat", "responses", "search" or "messages"
    answer,     \* what the upstream tells
    sent,       \* how far it is
    faults,     \* how many events of it were none of the answer
    st,         \* the state of the translator
    queue,      \* events translated and not yet written
    view,       \* what the client has
    source,     \* what the upstream has told: see Tell and Settle
    usage,      \* the tokens the flow knows of
    recorded,   \* the tokens recorded
    conn        \* "open", "closing" (the flow has left its loop), "cut" (it has
                \* left it because the upstream was lost), "ended" or "gone"

vars == <<flow, answer, sent, faults, st, queue, view, source, usage, recorded, conn>>

\* What the client is promised.
Promised == INSTANCE MessagesProtocol WITH
    relayed <- flow = "messages", phase <- view.phase, open <- view.open,
    next <- view.next, last <- view.last

NoEvent == Event("none", 0, "none", <<>>)
PingFrame == Event("ping", 0, "ping", <<>>)

NoView == [phase |-> "before", open |-> <<>>, next |-> 0, last |-> NoEvent,
           got |-> <<>>,    \* the content blocks
           told |-> <<>>,   \* the usage
           reason |-> Absent]

NotSent == [stage |-> "new", part |-> 1, n |-> 0, closed |-> FALSE, waits |-> FALSE, notes |-> 0]

\* The Responses API, which the Responses flow and web search read.
Tells == flow \in {"responses", "search"}

Init ==
    /\ flow \in Flows
    /\ answer \in CASE flow = "chat" -> {<<>>}
                    [] flow = "responses" -> Answers
                    [] flow = "search" -> SearchAnswers
                    [] flow = "messages" -> Relayed
    /\ sent = IF Tells THEN [k \in DOMAIN answer |-> NotSent] ELSE 0
    /\ faults = 0
    /\ st \in CASE flow = "chat" -> {ChatState(b) : b \in BOOLEAN}
                [] flow = "responses" -> {ResponsesState}
                [] flow = "search" -> {SearchState}
                [] flow = "messages" -> {<<>>}
    /\ queue = <<>> /\ view = NoView /\ source = <<>>
    /\ usage = <<>> /\ recorded = <<>> /\ conn = "open"

(***************************************************************************)
(* The client                                                              *)
(***************************************************************************)
Block(kind, body) == [kind |-> kind, body |-> body]

\* A client that takes every event at its word.
See(v, e) ==
    LET seen == [v EXCEPT !.last = e]
    IN  CASE e.type = "message_start" ->
                 [seen EXCEPT !.phase = "message", !.told = e.body]
          [] e.type = "block_start" ->
                 [seen EXCEPT !.open = <<e.index, e.kind>>, !.next = e.index + 1,
                              !.got = Append(@, Block(e.kind, e.body))]
          [] e.type = "block_delta" ->
                 [seen EXCEPT !.got[Len(v.got)].body = @ \o e.body]
          [] e.type = "block_stop" -> [seen EXCEPT !.open = <<>>]
          [] e.type = "message_delta" ->
                 [seen EXCEPT !.phase = "stopping", !.told = @ \o e.body, !.reason = e.kind]
          [] e.type = "message_stop" -> [seen EXCEPT !.phase = "stopped"]
          [] e.type = "error" -> [seen EXCEPT !.phase = "failed"]
          [] OTHER -> seen

Deliver ==
    /\ conn \in {"open", "closing", "cut"} /\ queue # <<>>
    /\ view' = See(view, Head(queue)) /\ queue' = Tail(queue)
    /\ UNCHANGED <<flow, answer, sent, faults, st, source, usage, recorded, conn>>

\* The body is dropped with the connection and all its state, at any await.
Disconnect ==
    /\ conn \in {"open", "closing", "cut"} /\ conn' = "gone"
    /\ queue' = <<>> /\ st' = <<>> /\ usage' = <<>>
    /\ UNCHANGED <<flow, answer, sent, faults, view, source, recorded>>

(***************************************************************************)
(* The Chat flow                                                           *)
(***************************************************************************)
Waiting == conn = "open" /\ queue = <<>>
Reading(f) == flow = f /\ Waiting
Listening == Tells /\ Waiting

HasError(events) == \E k \in DOMAIN events : events[k].type = "error"

\* What a chunk tells, in the order in which it is handled.
Tell(told, c) ==
    LET Atoms(kind, body) == [k \in DOMAIN body |-> [kind |-> kind, body |-> body[k]]]
        known(id) == \E k \in DOMAIN told : told[k].kind = "tool" /\ told[k].body = id
        tool(d) == LET id == ToString(d.index)
                   IN  (IF known(id) THEN <<>> ELSE Atoms("tool", <<id>>)) \o Atoms(id, d.args)
        thought == IF st.suppress THEN <<>>
                   ELSE Atoms("thought", c.reasoning) \o Atoms("thought", c.opaque)
    IN  told \o thought \o FlattenSeq([k \in DOMAIN c.tools |-> tool(c.tools[k])])
        \o Atoms("content", c.content) \o Atoms("refusal", c.refusal)

ReceiveChunk ==
    /\ Reading("chat") /\ sent < MaxChunks
    /\ \E c \in Chunks :
          LET t == Translate(st, c)
          IN  /\ st' = [t EXCEPT !.out = <<>>] /\ queue' = t.out /\ sent' = sent + 1
              /\ usage' = IF ~st.terminal /\ ~HasError(t.out) /\ c.usage # <<>>
                          THEN c.usage ELSE usage
              /\ conn' = IF HasError(t.out) THEN "closing" ELSE conn
              /\ source' = IF c.kind = "choice" /\ Valid(st, c) THEN Tell(source, c) ELSE source
    /\ UNCHANGED <<flow, answer, faults, view, recorded>>

(***************************************************************************)
(* The Responses flow                                                      *)
(***************************************************************************)
NoItem == [type |-> "none", id |-> Absent, call |-> Absent, args |-> <<>>, content |-> <<>>,
           notes |-> <<>>, summary |-> <<>>, reasons |-> <<>>, carrier |-> Absent, complete |-> TRUE]

BaseEvent == [type |-> "none", seq |-> "none", i |-> 0, part |-> 0, id |-> Absent,
              call |-> Absent, body |-> <<>>, notes |-> <<>>, item |-> NoItem,
              output |-> <<>>, end |-> Absent, usage |-> <<>>]

Upstream(type, i, part, body) ==
    [BaseEvent EXCEPT !.type = type, !.i = i, !.part = part, !.body = body]
ItemEvent(type, i, item) == [BaseEvent EXCEPT !.type = type, !.i = i, !.item = item]
Terminal(type, end, output, u) ==
    [BaseEvent EXCEPT !.type = type, !.end = end, !.output = output, !.usage = u]

\* The parts of an item that come in pieces, and the events that bring them.
PartsOf(item) ==
    CASE item.type = "message" -> item.content
      [] item.type = "function_call" -> <<item.args>>
      [] item.type = "reasoning" -> item.summary \o item.reasons
      [] OTHER -> <<>>
PieceType(item, part) ==
    CASE item.type = "message" -> "text_delta"
      [] item.type = "function_call" -> "args_delta"
      [] OTHER -> IF part <= Len(item.summary) THEN "summary_delta" ELSE "reasoning_delta"
PartIndex(item, part) ==
    IF item.type = "reasoning" /\ part > Len(item.summary)
    THEN part - Len(item.summary) - 1 ELSE part - 1
EndType(type) ==
    CASE type = "text_delta" -> "text_done" [] type = "args_delta" -> "args_done"
      [] type = "summary_delta" -> "summary_done" [] OTHER -> "none"

\* How an item may be announced: without what is still to come, and a call perhaps whole.
Provisional(item) ==
    LET bare == [item EXCEPT !.args = <<>>, !.content = <<>>, !.notes = <<>>,
                             !.summary = <<>>, !.reasons = <<>>]
    IN  CASE item.type \in {"function_call", "custom_tool_call"} -> {bare, item}
          [] item.type = "tool_search_call" -> {item, [item EXCEPT !.call = Absent]}
          [] item.type = "compaction" -> {item}
          [] item.type = "web_search_call" -> {item, [bare EXCEPT !.call = Absent]}
          [] OTHER -> {bare, [bare EXCEPT !.id = Absent]}

GoesOn(k) ==
    sent[k].stage = "added" /\ answer[k].type \in CallTypes /\ ~sent[k].waits

MayTell(k) ==
    \A j \in 1 .. (k - 1) :
        sent[j].stage = "done" \/ (GoesOn(j) /\ answer[k].type \in CallTypes)

\* Each event the upstream may send next of an item, with its progress after it.
Announce(k) ==
    {[event |-> ItemEvent("added", k - 1, item),
      to |-> [NotSent EXCEPT !.stage = "added", !.waits = ~CallStarts(item),
                             !.n = IF item.type = "function_call" THEN Len(item.args) ELSE 0]]
        : item \in Provisional(answer[k])}

Piece(k) ==
    LET p == sent[k]
        parts == PartsOf(answer[k])
        full == p.part <= Len(parts) /\ p.n = Len(parts[p.part])
        part == IF full THEN p.part + 1 ELSE p.part
        n == IF full THEN 0 ELSE p.n
    IN  IF part > Len(parts) THEN {}
        ELSE {[event |-> Upstream(PieceType(answer[k], part), k - 1,
                                  PartIndex(answer[k], part), <<parts[part][n + 1]>>),
               to |-> [p EXCEPT !.part = part, !.n = n + 1, !.closed = FALSE,
                                !.notes = IF full THEN 0 ELSE @]]}

EndPart(k) ==
    LET p == sent[k]
        parts == PartsOf(answer[k])
        type == EndType(PieceType(answer[k], p.part))
    IN  IF p.part > Len(parts) \/ p.closed \/ type = "none" THEN {}
        ELSE {[event |-> [Upstream(type, k - 1, PartIndex(answer[k], p.part), parts[p.part])
                             EXCEPT !.id = answer[k].id],
               to |-> [p EXCEPT !.n = Len(parts[p.part]), !.closed = TRUE]]}

\* The citations of a part, one at a time or with the part's end.
Cite(k) ==
    LET p == sent[k]
        notes == At(answer[k].notes, p.part)
        event(type, body, told) ==
            [Upstream(type, k - 1, p.part - 1, body) EXCEPT !.notes = told]
    IN  IF flow # "search" \/ p.n = 0 THEN {}
        ELSE {[event |-> event("annotation", <<>>, <<notes[j]>>), to |-> [p EXCEPT !.notes = j]]
                  : j \in DOMAIN notes \cap {p.notes + 1}}
             \union (IF ~p.closed \/ p.notes > Len(notes) THEN {}
                     ELSE {[event |-> event("part_done", answer[k].content[p.part], notes),
                            to |-> [p EXCEPT !.notes = Len(notes) + 1]]})

\* How an item may be completed: its message may leave to its events what they told.
Final(k) ==
    LET p == sent[k]
        item == answer[k]
        told == flow = "search" /\ item.type = "message" /\ Len(item.content) = 1
                /\ p.closed /\ p.notes >= Len(At(item.notes, 1))
    IN  {item} \union (IF told THEN {[item EXCEPT !.content = <<>>, !.notes = <<>>]} ELSE {})

EndItem(k) ==
    {[event |-> ItemEvent("done", k - 1, item), to |-> [NotSent EXCEPT !.stage = "done"]]
        : item \in Final(k)}

\* What each item was completed with, by its index.
Settle(told, t, e) ==
    IF e.type = "done" /\ ~t.failed /\ \A k \in DOMAIN told : told[k].i # e.i
    THEN Append(told, [i |-> e.i, item |-> e.item]) ELSE told

\* Mutant of AcceptEvent: the flow leaves its loop at the first failure.
AcceptUntilFailure(e) ==
    LET t == TranslateEvent(st, e)
        terminal == e.type \in {"completed", "incomplete", "failed"}
    IN  /\ st' = [t EXCEPT !.out = <<>>] /\ queue' = t.out
        /\ usage' = IF terminal THEN e.usage ELSE usage
        /\ conn' = IF t.completed THEN "closing" ELSE conn
        /\ source' = Settle(source, t, e)
        /\ UNCHANGED <<flow, answer, view, recorded>>

\* Web search tells its client of the answer, or of its failure, all at once, and
\* has recorded the tokens it knows of before.
Answered(s, how, events, known) ==
    /\ st' = [SearchState EXCEPT !.failed = s.failed] /\ conn' = how /\ queue' = events
    /\ usage' = known /\ recorded' = IF known = <<>> THEN <<>> ELSE <<known>>

\* Web search collects an event.  It reads on behind a success.
AcceptSearch(e) ==
    LET t == CollectEvent(st, e)
        terminal == e.type \in {"completed", "incomplete", "failed"}
        known == IF terminal /\ usage = <<>> THEN e.usage ELSE usage
    IN  /\ CASE e.type = "error" -> Answered(t, "cut", <<ErrorEvent("upstream")>>, known)
             [] terminal /\ t.failed -> Answered(t, "closing", <<ErrorEvent("api_error")>>, known)
             [] OTHER -> st' = t /\ usage' = known /\ UNCHANGED <<conn, queue, recorded>>
        /\ source' = Settle(source, t, e)
        /\ UNCHANGED <<flow, answer, view>>

\* Translates an event and reads its usage; the flow leaves its loop on a
\* success, and on a failure once the upstream has come to its end.
AcceptEvent(e) ==
    LET t == TranslateEvent(st, e)
        terminal == e.type \in {"completed", "incomplete", "failed"}
    IN  /\ st' = [t EXCEPT !.out = <<>>] /\ queue' = t.out
        /\ usage' = IF terminal THEN e.usage ELSE usage
        /\ conn' = IF t.completed /\ (terminal \/ ~t.failed) THEN "closing" ELSE conn
        /\ source' = Settle(source, t, e)
        /\ UNCHANGED <<flow, answer, view, recorded>>

Accept(e) == IF flow = "search" THEN AcceptSearch(e) ELSE AcceptEvent(e)

\* An upstream that numbers its first event numbers all.
Numbered(e) == [e EXCEPT !.seq = IF st.last = <<>> THEN "none" ELSE "next"]

ReceiveCreated ==
    /\ Listening /\ ~st.begun /\ ~st.failed
    /\ \E output \in {<<>>, answer} :
          \E seq \in {"none", "next"} :
             Accept([Terminal("created", Absent, output, <<>>) EXCEPT !.seq = seq])
    /\ UNCHANGED <<sent, faults>>

ReceiveItemEvent ==
    /\ Listening /\ st.begun /\ ~st.failed
    /\ \E k \in DOMAIN answer :
          /\ MayTell(k)
          /\ \E step \in CASE sent[k].stage = "new" -> Announce(k) \union EndItem(k)
                           [] sent[k].stage = "added" -> Piece(k) \union EndPart(k) \union Cite(k) \union EndItem(k)
                           [] OTHER -> {} :
                Accept(Numbered(step.event)) /\ sent' = [sent EXCEPT ![k] = step.to]
    /\ UNCHANGED faults

\* An event with the number of the one before it, sent twice.
ReceiveReplay ==
    /\ Listening /\ st.last # <<>> /\ ~st.failed
    /\ Accept([Head(st.last) EXCEPT !.seq = "same"])
    /\ UNCHANGED <<sent, faults>>

ReceiveTerminal ==
    /\ Listening
    /\ st.failed \/ (st.begun /\ ~st.completed /\ \A k \in DOMAIN answer : sent[k].stage = "done")
    /\ \E output \in {<<>>, answer} :
          Accept(Numbered(Terminal("completed", "stop", output, <<"u">>)))
    /\ UNCHANGED <<sent, faults>>

ReceiveFault ==
    /\ Listening /\ faults < MaxFaults
    /\ \E e \in IF flow = "search" THEN SearchFaults ELSE Faults : Accept(e)
    /\ faults' = faults + 1 /\ UNCHANGED sent

(***************************************************************************)
(* The relayed flow                                                        *)
(***************************************************************************)
\* What an upstream that speaks the Messages API sends to a client that has seen v.
MayRelay(v, e) ==
    CASE e.type = "message_start" -> v.phase = "before"
      [] e.type = "block_start" -> v.phase = "message" /\ v.open = <<>> /\ e.index = v.next
      [] e.type = "block_delta" ->
             /\ v.phase = "message" /\ v.open # <<>> /\ e.index = v.open[1]
             /\ e.kind \in Promised!Deltas[v.open[2]]
      [] e.type = "block_stop" -> v.phase = "message" /\ v.open # <<>> /\ e.index = v.open[1]
      [] e.type = "message_delta" -> v.phase = "message" /\ v.open = <<>>
      [] e.type = "message_stop" -> v.phase = "stopping"
      [] OTHER -> e.type \in {"ping", "error"} /\ v.phase \notin {"stopped", "failed"}

SeenOf(r) ==
    LET seen[k \in 0 .. Len(r)] == IF k = 0 THEN NoView ELSE See(seen[k - 1], r[k])
    IN  seen

ASSUME RelayedAssumption ==
    \A r \in Relayed :
        /\ r \in Seq([type : STRING, index : Nat, kind : STRING, body : Text])
        /\ \A k \in 1 .. Len(r) : MayRelay(SeenOf(r)[k - 1], r[k])

ReceiveRelayed ==
    /\ Reading("messages") /\ sent < Len(answer)
    /\ LET e == answer[sent + 1]
       IN  /\ queue' = <<e>>
           /\ usage' = IF e.type \in {"message_start", "message_delta"} THEN usage \o e.body
                       ELSE usage
           /\ conn' = IF e.type \in {"message_stop", "error"} THEN "closing" ELSE conn
    /\ sent' = sent + 1
    /\ UNCHANGED <<flow, answer, faults, st, view, source, recorded>>

(***************************************************************************)
(* The ends                                                                *)
(***************************************************************************)
\* A ping while the upstream is silent, until the client was told of a failure.
Heartbeat ==
    /\ Waiting /\ flow # "search" /\ view.last # PingFrame
    /\ flow = "responses" => ~st.failed
    /\ queue' = <<PingFrame>>
    /\ UNCHANGED <<flow, answer, sent, faults, st, view, source, usage, recorded, conn>>

\* Ends the translation with an error, unless it has ended.
Interrupted ==
    CASE flow = "chat" -> Terminate(st, "api_error")
      [] flow = "responses" -> TerminateResponses(st, "api_error")
      [] flow = "messages" -> [out |-> <<ErrorEvent("api_error")>>]

Leave(t) ==
    /\ conn' = "cut" /\ queue' = t.out
    /\ st' = IF flow = "messages" THEN st ELSE [t EXCEPT !.out = <<>>]
    /\ UNCHANGED <<flow, answer, sent, faults, view, source, usage, recorded>>

\* The client of a web search gets its result, or else an error.
AnswerSearch(how, result) ==
    /\ IF result # <<>> THEN Answered(st, how, SyntheticStream(st, result[1]), usage)
       ELSE Answered([st EXCEPT !.failed = TRUE], how, <<ErrorEvent("api_error")>>, usage)
    /\ UNCHANGED <<flow, answer, sent, faults, view, source>>

\* A stall, a transport error or a record that is no JSON; the client is told which.
Interrupt ==
    Waiting /\ IF flow = "search" THEN AnswerSearch("cut", <<>>) ELSE Leave(Interrupted)

\* Mutant of EndOfStream: an end without a terminal event is taken for a success.
EndOfStreamTrusted ==
    /\ Waiting
    /\ IF flow = "search" THEN AnswerSearch("cut", <<>>)
       ELSE Leave(IF flow = "chat" THEN Flush(st) ELSE [out |-> <<>>])

\* [DONE], or the end of the body.
EndOfStream ==
    /\ Waiting
    /\ CASE flow = "chat" -> Leave(Flush(st))
         [] flow = "search" ->
                AnswerSearch(IF st.completed THEN "closing" ELSE "cut", SearchResult(st))
         [] OTHER -> Leave(Interrupted)

Record ==
    /\ conn \in {"closing", "cut"} /\ queue = <<>>
    /\ recorded' = IF flow = "search" THEN recorded ELSE Append(recorded, usage)
    /\ conn' = "ended"
    /\ UNCHANGED <<flow, answer, sent, faults, st, queue, view, source, usage>>

Next ==
    \/ ReceiveChunk
    \/ ReceiveCreated \/ ReceiveItemEvent \/ ReceiveReplay \/ ReceiveTerminal \/ ReceiveFault
    \/ ReceiveRelayed
    \/ Heartbeat \/ Interrupt \/ EndOfStream \/ Deliver \/ Record \/ Disconnect

Spec == Init /\ [][Next]_vars

\* Polled tasks, and an upstream that is not awaited for ever: the events it
\* sends are bounded, and its body ends or the pacer finds it stalled.
Fairness == WF_vars(Deliver) /\ WF_vars(Record) /\ WF_vars(Interrupt \/ EndOfStream)

FairSpec == Spec /\ Fairness

(***************************************************************************)
(* Properties                                                              *)
(***************************************************************************)
\* What the client sees, of whatever upstream and wherever it breaks off, is a
\* Messages stream (stream_translation.rs, responses_stream_translation.rs).
ImplementsMessages == Promised!Spec

\* What the blocks of a Chat answer say, a tool call standing for its start.
Heard ==
    FlattenSeq([k \in DOMAIN view.got |->
        IF view.got[k].kind = "tool_use" THEN <<Head(view.got[k].body)>>
        ELSE Said(view.got[k].body)])

Of(kinds) ==
    LET atoms == SelectSeq(source, LAMBDA a : a.kind \in kinds)
    IN  [k \in DOMAIN atoms |-> atoms[k].body]

\* A refusal is said at the end, as far as the content has not said it.
RefusalRest ==
    LET content == Of({"content"})
        refusal == Of({"refusal"})
    IN  SubSeq(refusal, Len(content) + 1, Len(refusal))

\* The Chat scheduler (stream_translation.rs) defers text, reasoning and calls
\* behind the active call: the client still hears everything in the order in
\* which it was told, each call with its own arguments, and at the end all of it.
NothingLost ==
    flow = "chat" =>
        LET told == Of({"thought", "content", "tool"}) \o RefusalRest
            calls == {k \in DOMAIN view.got : view.got[k].kind = "tool_use"}
            Rest(k) == Tail(view.got[k].body)
            Told(k) == Of({Head(view.got[k].body)})
        IN  /\ IsPrefix(Heard, told)
            /\ \A k \in calls : IsPrefix(Rest(k), Told(k))
            /\ view.phase = "stopped" => Heard = told /\ \A k \in calls : Rest(k) = Told(k)

\* Adjacent text blocks are one: a message of several parts has a block for each.
Joined(blocks) ==
    FoldLeft(LAMBDA bs, b :
                IF bs # <<>> /\ Last(bs).kind = "text" /\ b.kind = "text"
                THEN [bs EXCEPT ![Len(bs)].body = @ \o b.body] ELSE Append(bs, b),
             <<>>, blocks)

Completed ==
    [k \in DOMAIN source |->
        LET item == (CHOOSE t \in ToSet(source) : t.i = k - 1).item
        IN  IF item.type = "message" /\ item.content = <<>> THEN answer[k] ELSE item]

\* A Responses stream that comes to its end leaves the client with the blocks
\* that the JSON answer of the same items translates to
\* (translate_responses_result_to_anthropic, reconstruct_web_search_response), and
\* no answer told as its API has it is refused, whatever its deltas leave to the
\* completed items.
SameAsJson ==
    Tells =>
        /\ view.phase = "stopped" =>
              Joined(view.got) = IF flow = "search" THEN SearchJson(Completed)
                                 ELSE Joined(JsonBlocks(Completed))
        /\ faults = 0 /\ conn \in {"open", "closing"} => ~st.failed

\* Every stream whose client stays is recorded once, with the tokens the client
\* was told of, a web search when it learnt of any; and a flow that is not cut off
\* reads on after a failure until the upstream has told them (api_flows.rs).
TokensAccounted ==
    /\ conn = "ended" => recorded = <<usage>> \/ (flow = "search" /\ usage = <<>> /\ recorded = <<>>)
    /\ conn = "ended" /\ view.phase = "stopped" => recorded = <<view.told>>
    /\ conn = "closing" /\ Tells => usage # <<>>

\* Every stream ends: its client gets a last event and its tokens are recorded, or
\* the client is gone.
StreamsEnd ==
    <>(conn = "gone" \/ (conn = "ended" /\ view.phase \in {"stopped", "failed"}))
==============================================================================

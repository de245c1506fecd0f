------------------------------ MODULE WebSearch ------------------------------
(***************************************************************************)
(* Web search for the Messages API, run as one Responses request with that *)
(* API's own web_search tool: src/src/routes/messages/web_search.  The     *)
(* answer's events are collected, what the snapshots and events say of     *)
(* each output item is reconciled, and the result is told to the client as *)
(* the blocks of Anthropic's web_search: a search and its result for every *)
(* query, then the text.                                                   *)
(*                                                                         *)
(* Of a web_search_call, `call` is the kind of its action and `args` its   *)
(* queries, or what a page action names.  `notes` has the URLs that each   *)
(* part of a message cites.  Sizes are counted as in ResponsesTranslation; *)
(* a serialized value weighs one byte.                                     *)
(***************************************************************************)
EXTENDS ResponsesTranslation

\* WebSearchResponsesStreamCollection, with what the loop around it keeps
SearchState ==
    [ok |-> TRUE, spent |-> 0, last |-> <<>>,
     begun |-> FALSE, created |-> <<>>,     \* created_response
     items |-> Empty, text |-> Empty,
     completed |-> FALSE, terminal |-> <<>>,   \* terminal_response
     failed |-> FALSE]                      \* collection_error

(***************************************************************************)
(* Collecting                                                              *)
(***************************************************************************)
ValidSearchItem(item, phase) == item.type = "web_search_call" \/ WellFormed(item, phase)

CollectItem(s, e) ==
    LET known == e.i \in DOMAIN s.items
        old == IF known THEN s.items[e.i] ELSE [added |-> <<>>, done |-> <<>>]
        new == <<e.item>>
        fits == IF e.type = "added"
                THEN old.added \in {<<>>, new} /\ old.done = <<>>
                ELSE /\ old.done \in {<<>>, new}
                     /\ old.added # <<>> =>
                            old.added[1].type = e.item.type /\ Reconciles(old.added[1], e.item)
    IN  IF \/ ~ValidSearchItem(e.item, e.type) \/ ~fits
           \/ (~known /\ Cardinality(DOMAIN s.items) >= MaxItems) THEN Fail(s)
        ELSE [Reserve(s, 1) EXCEPT !.items = With(@, e.i, [old EXCEPT ![e.type] = new])]

NewText == [text |-> <<>>, done |-> FALSE, notes |-> <<>>]

\* get_or_create_output_text_part: only an announced message that is not done takes text.
TextPart(s, e) ==
    LET key == <<e.i, e.part>>
        new == key \notin DOMAIN s.text
        t == IF new THEN [Reserve(s, 1) EXCEPT !.text = With(@, key, NewText)] ELSE s
    IN  IF new /\ Cardinality(DOMAIN s.text) >= MaxParts THEN Fail(s)
        ELSE IF e.i \notin DOMAIN s.items THEN Fail(s)
        ELSE IF s.items[e.i].done # <<>> \/ s.items[e.i].added[1].type # "message" THEN Fail(s)
        ELSE t

\* The whole text of a part, which is kept twice.
EndText(s, e, extends) ==
    Then(TextPart(s, e), LAMBDA t :
        LET part == t.text[<<e.i, e.part>>]
        IN  IF (part.done /\ part.text # e.body) \/ (extends /\ ~IsPrefix(part.text, e.body))
            THEN Fail(t)
            ELSE [Reserve(t, 2 * Len(e.body) - Len(part.text) + Len(e.notes))
                     EXCEPT !.text[<<e.i, e.part>>] =
                         [text |-> e.body, done |-> TRUE, notes |-> part.notes \o e.notes]])

CollectText(s, e) ==
    Then(TextPart(Reserve(s, Len(e.body)), e), LAMBDA t :
        IF t.text[<<e.i, e.part>>].done THEN Fail(t)
        ELSE [t EXCEPT !.text[<<e.i, e.part>>].text = @ \o e.body])

CollectAnnotation(s, e) ==
    Then(TextPart(Reserve(s, 1), e), LAMBDA t :
        [t EXCEPT !.text[<<e.i, e.part>>].notes = @ \o e.notes])

ValidOutput(e, phase) == \A k \in DOMAIN e.output : ValidSearchItem(e.output[k], phase)

\* A failed or incomplete answer is not read further than its status.
CollectTerminal(s, e) ==
    IF e.type = "completed" /\ ~ValidOutput(e, "done") THEN Fail(s)
    ELSE [Reserve(s, 1) EXCEPT !.completed = TRUE, !.terminal = <<e>>]

\* collect_web_search_responses_stream_event
Collect(s, e) ==
    IF \/ e.type = "malformed" \/ s.completed
       \/ ~s.begun /\ e.type \notin {"created", "error"}
       \/ e.type = "created" /\ (s.begun \/ ~ValidOutput(e, "added")) THEN Fail(s)
    ELSE
    CASE e.type = "created" -> [Reserve(s, 1) EXCEPT !.begun = TRUE, !.created = <<e.output>>]
      [] e.type \in {"completed", "incomplete", "failed"} -> CollectTerminal(s, e)
      [] e.type \in {"added", "done"} -> CollectItem(s, e)
      [] e.type = "text_delta" -> CollectText(s, e)
      [] e.type = "text_done" -> EndText(s, e, TRUE)
      [] e.type = "part_done" -> EndText(s, e, FALSE)
      [] e.type = "annotation" -> CollectAnnotation(s, e)
      [] OTHER -> s

\* The first failure stands; what follows it is read for its usage alone.
CollectEvent(s, e) ==
    IF s.failed THEN s
    ELSE LET t == Collect(s, e) IN IF t.ok THEN t ELSE [s EXCEPT !.failed = TRUE]

(***************************************************************************)
(* Reconciling                                                             *)
(***************************************************************************)
At(seqs, k) == IF k \in DOMAIN seqs THEN seqs[k] ELSE <<>>
\* Without what is already there (merge_annotations, canonical_web_annotations).
Deduplicated(seq) == FoldLeft(LAMBDA s, x : IF Contains(s, x) THEN s ELSE Append(s, x), <<>>, seq)

TextsOf(s, i) == LET parts == {k[2] : k \in {k \in DOMAIN s.text : k[1] = i}}
                 IN  [p \in parts |-> s.text[<<i, p>>]]

\* Whether a done message is what its events told: they leave no gap behind its parts.
TextsFit(item, texts) ==
    \A p \in DOMAIN texts :
        IF p + 1 \in DOMAIN item.content
        THEN IF texts[p].done THEN texts[p].text = item.content[p + 1]
             ELSE IsPrefix(texts[p].text, item.content[p + 1])
        ELSE texts[p].done /\ (p = Len(item.content) \/ p - 1 \in DOMAIN texts)

\* merge_output_item_with_collected_text
MergeTexts(item, texts) ==
    LET parts == DOMAIN item.content \union {p + 1 : p \in DOMAIN texts}
        content == [k \in 1 .. Cardinality(parts) |->
                       IF k \in DOMAIN item.content THEN item.content[k] ELSE texts[k - 1].text]
        told(k) == IF k - 1 \in DOMAIN texts THEN texts[k - 1].notes ELSE <<>>
    IN  [item EXCEPT !.content = content,
                     !.notes = [k \in DOMAIN content |-> At(item.notes, k) \o told(k)]]

\* WebOutputAssertion: what a snapshot says of an item.
Assertion(item, status) ==
    [type |-> item.type, id |-> item.id, status |-> status, call |-> item.call,
     args |-> item.args, content |-> item.content,
     notes |-> [k \in DOMAIN item.content |-> Deduplicated(At(item.notes, k))]]
Finished(item) == Assertion(item, IF item.complete THEN "completed" ELSE "incomplete")
Begun(item) == Assertion(item, "in_progress")

\* Reasoning has no place in the client's answer.
Shown(assertions) ==
    FlattenSeq([k \in DOMAIN assertions |->
        IF assertions[k].type = "reasoning" THEN <<>> ELSE <<assertions[k]>>])
Supported(assertions) ==
    \A k \in DOMAIN assertions : assertions[k].type \in {"message", "web_search_call", "reasoning"}

TextAgrees(a, b, phase) == a \in {b, <<>>} \/ (b = <<>> /\ phase = "added")

MessagesAgree(a, b, phase) ==
    \/ a.content = <<>>
    \/ b.content = <<>> /\ phase = "added"
    \/ /\ Len(a.content) = Len(b.content)
       /\ \A k \in DOMAIN a.content :
             /\ TextAgrees(a.content[k], b.content[k], phase)
             /\ <<>> \in {a.notes[k], b.notes[k]} \/ a.notes[k] = b.notes[k]

\* merge_web_search_action: queries may grow; what a page action names may come late.
ActionsAgree(a, b) ==
    \/ Absent \in {a.call, b.call}
    \/ a.call = b.call /\ IF a.call = "search" THEN Prefixed(a.args, b.args)
                          ELSE <<>> \in {a.args, b.args} \/ a.args = b.args

ItemsAgree(a, b, phase) ==
    /\ a.type = b.type /\ a.status \in {b.status, "in_progress"}
    /\ IF a.type = "message" THEN MessagesAgree(a, b, phase) ELSE ActionsAgree(a, b)

Or(a, b, none) == IF a = none THEN b ELSE a
Longer(a, b) == IF Len(b) > Len(a) THEN b ELSE a

\* merge_web_output_assertion; the later id counts.
MergeItem(a, b) ==
    LET part(k) == IF b.content = <<>> THEN a.content[k] ELSE Or(a.content[k], b.content[k], <<>>)
        note(k) == Or(a.notes[k], At(b.notes, k), <<>>)
    IN  [b EXCEPT !.id = Or(b.id, a.id, Absent), !.call = Or(a.call, b.call, Absent),
                  !.args = Longer(a.args, b.args),
                  !.content = IF a.content = <<>> THEN @ ELSE [k \in DOMAIN a.content |-> part(k)],
                  !.notes = IF a.content = <<>> THEN @ ELSE [k \in DOMAIN a.content |-> note(k)]]

\* merge_web_output_snapshot.  m.list is the output so far, if one was told.
MergeSnapshot(m, snapshot) ==
    LET new == Shown(snapshot.items)
        old == m.list[1]
    IN  IF ~snapshot.told \/ (new = <<>> /\ snapshot.optional /\ Supported(snapshot.items)) THEN m
        ELSE IF ~Supported(snapshot.items) THEN [m EXCEPT !.ok = FALSE]
        ELSE IF m.list = <<>> THEN [m EXCEPT !.list = <<new>>]
        ELSE IF Len(old) = Len(new)
                /\ \A k \in DOMAIN old : ItemsAgree(old[k], new[k], snapshot.phase)
        THEN [m EXCEPT !.list = <<[k \in DOMAIN old |-> MergeItem(old[k], new[k])]>>]
        ELSE [m EXCEPT !.ok = FALSE]

Stated(items, phase, optional) ==
    [told |-> TRUE, items |-> items, phase |-> phase, optional |-> optional]
Unstated == [told |-> FALSE, items |-> <<>>, phase |-> "none", optional |-> FALSE]

MapSeq(items, F(_)) == [k \in DOMAIN items |-> F(items[k])]

\* reconcile_web_search_output, of the four snapshots; an output of <<>> is not told.
Reconciled(s) ==
    LET n == Cardinality(DOMAIN s.items)
        first(k) == LET i == s.items[k - 1]
                    IN  IF i.added # <<>> THEN Begun(i.added[1]) ELSE Finished(i.done[1])
        final(k) == LET item == s.items[k - 1].done[1]
                    IN  Finished(IF item.type = "message" /\ DOMAIN TextsOf(s, k - 1) # {}
                                 THEN MergeTexts(item, TextsOf(s, k - 1)) ELSE item)
        snapshot(output, phase, F(_)) ==
            IF output = <<>> THEN Unstated ELSE Stated(MapSeq(output, F), phase, phase = "added")
        lifecycle(phase, items) == IF n = 0 THEN Unstated ELSE Stated(items, phase, FALSE)
        merge(m, t) == IF m.ok THEN MergeSnapshot(m, t) ELSE m
        created == merge([ok |-> TRUE, list |-> <<>>], snapshot(s.created[1], "added", Begun))
        added == merge(created, lifecycle("added", [k \in 1 .. n |-> first(k)]))
        done == merge(added, lifecycle("done", [k \in 1 .. n |-> final(k)]))
    IN  merge(done, snapshot(s.terminal[1].output, "done", Finished))

\* build_collected_web_search_output: every item done, none missing, and its text as told
AllDone(s) ==
    /\ Contiguous(s.items) /\ \A i \in DOMAIN s.items : s.items[i].done # <<>>
    /\ \A i \in DOMAIN s.items :
          s.items[i].done[1].type = "message" => TextsFit(s.items[i].done[1], TextsOf(s, i))

\* validate_web_search_result
ValidResult(output) ==
    \A k \in DOMAIN output :
        /\ output[k].status = "completed"
        /\ output[k].type = "web_search_call" =>
              /\ output[k].call # Absent
              /\ output[k].call = "find_in_page" => Len(output[k].args) = 2
        /\ output[k].type = "message" /\ output[k].id # Absent =>
              \A j \in DOMAIN output \ {k} : output[j].type = "message" => output[j].id # output[k].id

(***************************************************************************)
(* The client's answer                                                     *)
(***************************************************************************)
IsSearch(a) == a.type = "web_search_call" /\ a.call = "search"

\* extract_web_search_result: the texts, the sources and the queries of all items,
\* and the identifiers of the searches.
Extract(output) ==
    LET searches == SelectSeq(output, IsSearch)
        told == SelectSeq(output, LAMBDA a : a.type = "message")
        texts == SelectSeq(FlattenSeq(MapSeq(told, LAMBDA a : a.content)), LAMBDA t : t # <<>>)
    IN  [text |-> FlattenSeq([k \in DOMAIN texts |-> (IF k = 1 THEN <<>> ELSE <<"\n\n">>) \o texts[k]]),
         sources |-> Deduplicated(FlattenSeq(FlattenSeq(MapSeq(told, LAMBDA a : a.notes)))),
         queries |-> FlattenSeq([k \in DOMAIN output |->
                         IF IsSearch(output[k]) THEN output[k].args ELSE <<>>]),
         ids |-> SelectSeq(MapSeq(searches, LAMBDA a : a.id), LAMBDA id : id # Absent)]

\* build_response_content: the sources are told with the last query.
SearchBlocks(output) ==
    LET x == Extract(output)
        asked == IF x.queries = <<>> THEN <<"">> ELSE x.queries
        id(k) == IF Len(asked) = 1 /\ x.ids # <<>> THEN x.ids[1] ELSE "srvtoolu_" \o ToString(k)
        pair(k) == <<[kind |-> "server_tool_use", body |-> <<id(k), asked[k]>>],
                     [kind |-> "web_search_tool_result",
                      body |-> <<id(k)>> \o (IF k = Len(asked) THEN x.sources ELSE <<>>)]>>
    IN  (IF x.sources = <<>> /\ x.queries = <<>> /\ x.ids = <<>> THEN <<>>
         ELSE FlattenSeq([k \in DOMAIN asked |-> pair(k)]))
        \o <<[kind |-> "text", body |-> x.text]>>

\* block_to_stream_events
BlockEvents(block, index) ==
    CASE block.kind = "text" ->
             <<BlockStart(index, "text", <<>>), BlockDelta(index, "text", block.body), BlockStop(index)>>
      [] block.kind = "server_tool_use" ->
             <<BlockStart(index, block.kind, <<block.body[1]>>),
               BlockDelta(index, "input_json", Tail(block.body)), BlockStop(index)>>
      [] OTHER -> <<BlockStart(index, block.kind, block.body), BlockStop(index)>>

\* validate_reconstructed_payload_budget
FitsClient(blocks) == FoldLeft(LAMBDA n, b : n + Len(b.body), 0, blocks) <= MaxBytes

\* build_web_search_responses_stream_result: <<>>, or the reconciled output
SearchResult(s) ==
    IF s.failed \/ ~s.completed THEN <<>>
    ELSE IF s.terminal[1].type # "completed" \/ ~AllDone(s) THEN <<>>
    ELSE LET m == Reconciled(s)
             output == IF m.list = <<>> THEN <<>> ELSE m.list[1]
         IN  IF m.ok /\ ValidResult(output) /\ FitsClient(SearchBlocks(output)) THEN <<output>> ELSE <<>>

\* build_synthetic_stream_events of what was reconstructed
SyntheticStream(s, output) ==
    LET blocks == SearchBlocks(output)
        reason == IF s.terminal[1].end = "continue" THEN "pause_turn" ELSE "end_turn"
    IN  <<MessageStart>> \o FlattenSeq([k \in DOMAIN blocks |-> BlockEvents(blocks[k], k - 1)])
        \o <<MessageDelta(reason, s.terminal[1].usage), MessageStop>>

\* The same answer had it come as one JSON document
SearchJson(items) == SearchBlocks(Shown(MapSeq(items, Finished)))
==============================================================================

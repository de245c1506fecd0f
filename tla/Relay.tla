---------------------------------- MODULE Relay ----------------------------------
(***************************************************************************)
(* The handlers that hand an upstream's answer on: bytes in any chunks,   *)
(* decoded (SseDecoder), checked (ResponsesGuard) or translated, and      *)
(* written to the client, with a heartbeat when there is nothing to       *)
(* write, until the answer is complete, wrong, cut off or too long        *)
(* silent; or collected and answered as a whole.  The translations to     *)
(* Messages appear by what they accept and end with: MessagesFlows has    *)
(* them in full.                                                          *)
(*                                                                         *)
(* Time is counted in ticks, and passes only while a handler waits.       *)
(***************************************************************************)
EXTENDS SseDecoder, ResponsesGuard

CONSTANTS
  Answers,      \* what an upstream may send, for each handler: [way, told, bytes, cuts, good, whole], the events, the
                \* bytes, where a chunk of them may end, if they are right for the API and what is to be collected
  Beat,         \* the heartbeat interval, which is the prefetch window, too
  Stall,        \* the dead-air budget
  ReadTimeout,  \* the read timeout of the HTTP client
  MaxBody       \* MAX_UPSTREAM_RESPONSE_BYTES, in symbols

ASSUME Windows == Beat \in Nat /\ 0 < Beat /\ Beat < Stall /\ Stall < ReadTimeout

Guarded == {"responses", "provider responses"}
Translating == {"via responses", "via chat"}
Collecting == {"collected", "buffered", "relayed body"}
Decoded == Guarded \cup {"provider chat", "provider messages"}

\* An event, and a frame of a decoded stream.
Frames == [type : STRING, name : BOOLEAN, id : STRING, i : Int, text : STRING, usage : STRING]

\* Upstreams speak the API they are asked in: a Responses stream has no message_stop, and tells its tokens with its
\* terminal event; a Messages stream has no terminal event of the Responses API.
ASSUME AnswersAssumption ==
  \A a \in Answers :
    /\ a.way \in {"chat"} \cup Decoded \cup Translating \cup Collecting
    /\ a.told \in Seq(Frames)
    /\ a.way \in Guarded \cup {"via responses"} =>
         \A n \in DOMAIN a.told :
            /\ a.told[n].type # "message_stop"
            /\ a.told[n].usage # "none" => a.told[n].type \in Terminals
    /\ a.way = "provider messages" => \A n \in DOMAIN a.told : a.told[n].type \notin Terminals

VARIABLES
  answer,     \* what the upstream sends
  transport,  \* "none" before the request is sent, then "http" or "websocket"
  pos,        \* how much of it has been sent: symbols, or messages of a WebSocket
  eof,        \* "open", "ended" or "lost"
  decoder,
  events,     \* decoded and not yet taken by the handler
  guard,      \* the state of the guard, of the translator or of the collector
  phase,      \* "dial", "prefetch", "on", then "done" (the body ends), "broken" (it ends in an error),
              \* "answered" (with one JSON body) or "gone" (the client is)
  client,     \* the frames the client has, or the body
  usage,      \* the tokens the handler knows of
  recorded,   \* the tokens recorded
  quiet,      \* ticks since the upstream last sent a byte
  idle,       \* ticks since the pacer last saw an event or fired a heartbeat
  silence     \* ticks since the client last got a byte

stream == <<answer, transport>>
clock == <<quiet, idle, silence>>
vars == <<stream, pos, eof, decoder, events, guard, phase, client, usage, recorded, clock>>

way == answer.way
Told(n) == answer.told[n]
Paced == way \notin {"chat", "buffered", "relayed body"}
Bytes == IF transport = "websocket" THEN answer.told ELSE answer.bytes

Malformation == [type |-> "malformed", name |-> TRUE, id |-> "none", i |-> NoIndex, text |-> "none", usage |-> "none"]
Nothing == [Malformation EXCEPT !.type = "empty"]
ProxyError == [Malformation EXCEPT !.type = "error", !.text = "proxy"]
Body(content) == [Malformation EXCEPT !.type = "body", !.text = content]

\* What a decoded record says.
Event(record) ==
  IF record.data = <<>> THEN Nothing
  ELSE LET n == Head(record.data)[2] IN
       IF n \in DOMAIN answer.told /\ record.data = Content(n)
       THEN [Told(n) EXCEPT !.name = record.name \in {0, n}] ELSE Malformation

\* The state of a handler: the guard's, and what translations and collectors keep.
Fresh == [created |-> FALSE, terminal |-> FALSE, id |-> "none", items |-> <<>>, failed |-> FALSE, output |-> <<>>]

Init ==
  /\ answer \in Answers
  /\ transport = "none" /\ pos = 0 /\ eof = "open" /\ decoder = Decoder /\ events = <<>>
  /\ guard = Fresh
  /\ phase = "dial" /\ client = <<>> /\ usage = "none" /\ recorded = <<>>
  /\ quiet = 0 /\ idle = 0 /\ silence = 0

Open == phase \in {"prefetch", "on"}
Drained == events = <<>> /\ phase # "dial"
TooLong(body) == Len(body) > MaxBody
TerminalUsage(e) == IF e.type \in Terminals THEN e.usage ELSE usage
Silence(written) == IF written THEN 0 ELSE silence

(***************************************************************************)
(* The upstream                                                            *)
(***************************************************************************)
\* create_responses: a WebSocket for a streamed Responses request, and HTTP when its handshake fails; other requests
\* go over HTTP, and an upstream that refuses one is answered as an error.
Dial ==
  /\ phase = "dial"
  /\ transport' \in IF way = "responses" THEN {"http", "websocket"} ELSE {"http"}
  /\ \/ phase' = (IF way = "provider responses" THEN "prefetch" ELSE "on") /\ UNCHANGED client
     \/ transport' = "http" /\ phase' = "answered" /\ client' = <<ProxyError>>
  /\ UNCHANGED <<answer, pos, eof, decoder, events, guard, usage, recorded, clock>>

\* events_impl: a chunk of the body, of any size, becomes records, or a mark of activity; a record that is too long
\* fails the stream behind those before it.  Chat streams are not decoded, other bodies are kept up to their limit.
Receive ==
  /\ Open /\ Drained /\ eof = "open" /\ ~decoder.overflowed /\ pos < Len(Bytes)
  /\ \E n \in 1 .. (Len(Bytes) - pos) :
       LET chunk == SubSeq(Bytes, pos + 1, pos + n) IN
       /\ transport = "websocket" \/ pos + n \in answer.cuts
       /\ pos' = pos + n
       /\ CASE transport = "websocket" ->
                 /\ n = 1 /\ events' = <<[data |-> Content(pos + 1), name |-> pos + 1]>> /\ UNCHANGED decoder
            [] way = "chat" -> events' = <<[data |-> chunk, name |-> 0]>> /\ UNCHANGED decoder
            [] way \in {"buffered", "relayed body"} ->
                 /\ decoder' = [buf |-> decoder.buf \o chunk, overflowed |-> TooLong(decoder.buf \o chunk)]
                 /\ events' = <<>>
            [] OTHER -> LET t == Push(decoder, chunk) IN
                 /\ decoder' = t.decoder
                 /\ events' = IF t.out = <<>> /\ ~t.decoder.overflowed THEN <<Marker>> ELSE t.out
       /\ quiet' = 0
  /\ UNCHANGED <<stream, eof, guard, phase, client, usage, recorded, idle, silence>>

\* The body ends, wherever it is, and what is left of it is a record, too; or the connection breaks.
Cease(how) ==
  /\ Open /\ Drained /\ eof = "open" /\ ~decoder.overflowed
  /\ eof' = how
  /\ IF how = "ended" /\ transport = "http" /\ way \notin {"chat", "buffered", "relayed body"}
     THEN events' = Finish(decoder) /\ decoder' = Decoder ELSE UNCHANGED <<decoder, events>>
  /\ UNCHANGED <<stream, pos, guard, phase, client, usage, recorded, clock>>

(***************************************************************************)
(* The handlers                                                            *)
(***************************************************************************)
\* What a handler does with an event: its next state, the frames written, the tokens known, and how it goes on.
Goes(g, frames, u) == [guard |-> g, frames |-> frames, usage |-> u, phase |-> phase, records |-> FALSE]
Ends(r, how) == [r EXCEPT !.phase = how, !.records = TRUE]
Leaves(r, how) == [r EXCEPT !.phase = how]

\* stream_responses_sse, stream_provider_response_events.
Guards(e) ==
  LET p == Process(guard, e)
      u == TerminalUsage(e)
  IN CASE p.verdict = "ignored" -> Goes(guard, <<>>, usage)
       [] p.verdict = "refused" -> Ends(Goes(guard, FailFrames(guard), usage), "done")
       [] OTHER -> LET r == Goes(p.guard, <<p.frame>>, u) IN IF p.guard.terminal THEN Ends(r, "done") ELSE r

\* stream_provider_chat_completions: records are handed on until [DONE].
Relays(e) ==
  LET r == Goes(guard, <<e>>, IF e.usage # "none" THEN e.usage ELSE usage) IN
  CASE e.type = "empty"  -> Goes(guard, <<>>, usage)
    [] e.type = "[DONE]" -> Ends(r, "done")
    [] OTHER             -> r

\* stream_provider_messages: the same up to the end of the message, and nothing malformed.
RelaysMessages(e) ==
  LET r == Goes(guard, <<e>>, IF e.usage # "none" THEN e.usage ELSE usage) IN
  CASE e.type = "empty" -> Goes(guard, <<>>, usage)
    [] e.type \in {"[DONE]", "malformed"} -> Ends(Goes(guard, <<ProxyError>>, usage), "done")
    [] e.type \in {"message_stop", "error"} -> Ends(r, "done")
    [] OTHER -> r

\* A mutant of TranslationOver: the first failure is the end.
EndsAtOnce(g, e) == g.terminal
TranslationOver(g, e) == g.terminal /\ (~g.failed \/ e.type \in Terminals)

\* stream_responses_provider_message_events: a failed translation reads on, silently, for the tokens.
TranslatesResponses(e) ==
  LET ended == guard.terminal
      u == TerminalUsage(e)
      told == e.type \in {"error", "failed"}
      fails == told \/ (e.type # "created" /\ ~guard.created)
      g == [guard EXCEPT !.created = @ \/ e.type = "created", !.terminal = @ \/ fails \/ e.type \in Terminals,
                         !.failed = @ \/ (fails /\ ~ended)]
      frames == CASE ended -> <<>> [] ~ended /\ fails -> <<[ProxyError EXCEPT !.text = IF told THEN "told" ELSE @]>> [] OTHER -> <<e>>
  IN CASE e.type \in {"empty", "meta"} -> Goes(guard, <<>>, usage)
       [] e.type = "[DONE]" \/ e.type = "malformed" ->
            Ends(Goes(guard, IF ended THEN <<>> ELSE <<ProxyError>>, usage), "done")
       [] OTHER -> LET r == Goes(g, frames, u) IN IF TranslationOver(g, e) THEN Ends(r, "done") ELSE r

\* flush_pending_anthropic_stream_events: a finished answer is closed, another one fails.
Flushed == IF guard.terminal THEN <<[Malformation EXCEPT !.type = "message_stop"]>> ELSE <<ProxyError>>

\* stream_openai_compatible_provider_messages: a finished answer is closed at the end, when its tokens may have come.
TranslatesChat(e) ==
  LET g == [guard EXCEPT !.terminal = @ \/ e.type = "finish"]
      u == IF e.usage # "none" THEN e.usage ELSE usage
  IN CASE e.type = "empty" -> Goes(guard, <<>>, usage)
       [] e.type = "[DONE]" -> Ends(Goes(guard, Flushed, usage), "done")
       [] e.type \in {"malformed", "error"} -> Ends(Goes(guard, <<ProxyError>>, usage), "done")
       [] OTHER -> Goes(g, IF e.type = "chunk" THEN <<e>> ELSE <<>>, u)

\* normalize_terminal_event: the terminal's own items, or the completed ones, which must have every index from 0.
Collected(e) ==
  LET items == guard.output
      Text(k) == (CHOOSE t \in {items[j] : j \in DOMAIN items} : t.i = k).text
  IN CASE e.text # "none" -> Body(<<e.text>>)
       [] e.text = "none" /\ {items[k].i : k \in DOMAIN items} = 0 .. Len(items) - 1 ->
            Body([k \in DOMAIN items |-> Text(k - 1)])
       [] OTHER -> ProxyError

\* collect_responses_stream_result_with_usage_observer: completed items, put together unless the terminal has them.
Collects(e) ==
  LET u == TerminalUsage(e)
      known == {k \in DOMAIN guard.output : guard.output[k].i = e.i}
      fails == \/ e.type \in {"malformed", "[DONE]", "error", "failed"} \/ ~e.name
               \/ e.type \notin {"meta", "created"} /\ ~guard.created
               \/ e.type = "done" /\ \E k \in known : guard.output[k].text # e.text
      r == [Goes(guard, <<>>, u) EXCEPT !.records = u # "none"]
  IN CASE e.type \in {"empty", "meta"} -> Goes(guard, <<>>, usage)
       [] fails /\ e.type \notin {"empty", "meta"} -> Leaves([r EXCEPT !.frames = <<ProxyError>>], "answered")
       [] ~fails /\ e.type \in {"completed", "incomplete"} -> Leaves([r EXCEPT !.frames = <<Collected(e)>>], "answered")
       [] OTHER -> Goes([guard EXCEPT !.created = @ \/ e.type = "created",
                                      !.output = IF e.type = "done" /\ known = {} THEN Append(@, [i |-> e.i, text |-> e.text])
                                                 ELSE @], <<>>, u)

\* sniff_usage: the tokens of a chunk, whose every line must be a data line.
Sniffed(chunk) ==
  LET all == RecordLines(chunk)
      lines == IF Last(all) = <<>> THEN Front(all) ELSE all
      whole(l) == l # <<>> /\ Len(l) = 3 /\ Tail(l) = Content(l[2][2]) /\ Told(l[2][2]).usage # "none"
      found == SelectSeq(lines, whole)
  IN IF (\E k \in DOMAIN lines : lines[k] = <<>> \/ Head(lines[k]) # DataField) \/ found = <<>> THEN usage
     ELSE Told(Last(found)[2][2]).usage

\* stream_sse: bytes are handed on as they come.
Forwards(chunk) == Goes(guard, <<Body(chunk)>>, Sniffed(chunk))

React(record) ==
  CASE way = "chat" -> Forwards(record.data)
    [] way \in Guarded -> Guards(Event(record))
    [] way = "provider chat" -> Relays(Event(record))
    [] way = "provider messages" -> RelaysMessages(Event(record))
    [] way = "via responses" -> TranslatesResponses(Event(record))
    [] way = "via chat" -> TranslatesChat(Event(record))
    [] way = "collected" -> Collects(Event(record))

Apply(r) ==
  /\ guard' = r.guard /\ client' = client \o r.frames /\ usage' = r.usage /\ phase' = r.phase
  /\ recorded' = IF r.records THEN Append(recorded, r.usage) ELSE recorded

\* A mutant of IdleAfter: whatever comes from the upstream keeps the heartbeat back.
IdleUntilBytes(record) == 0
\* next_with_marker: a mark of activity does not keep the heartbeat back.
IdleAfter(record) == IF record = Marker THEN idle ELSE 0

\* The loop of a handler takes an event.
Take ==
  /\ phase = "on" /\ events # <<>>
  /\ LET r == React(Head(events)) IN
     /\ Apply(r)
     /\ events' = IF r.phase = "on" THEN Tail(events) ELSE <<>>
     /\ idle' = IdleAfter(Head(events))
     /\ silence' = Silence(r.frames # <<>> \/ r.phase = "answered")
  /\ UNCHANGED <<stream, pos, eof, decoder, quiet>>

\* stream_provider_response_events: a first event that is an error is answered as one; any other starts the stream.
Peek ==
  /\ phase = "prefetch" /\ events # <<>>
  /\ LET e == Event(Head(events)) IN
     CASE e.type = "empty" -> events' = Tail(events) /\ UNCHANGED <<phase, client, silence>>
       [] e.type = "error" -> phase' = "answered" /\ client' = <<e>> /\ silence' = 0 /\ events' = <<>>
       [] OTHER -> phase' = "on" /\ silence' = 0 /\ UNCHANGED <<events, client>>
  /\ idle' = IdleAfter(Head(events))
  /\ UNCHANGED <<stream, pos, eof, decoder, guard, usage, recorded, quiet>>

\* What a handler does when the body is over, broken, too long or stalled.
Closing(how) ==
  LET r(frames) == Goes(guard, frames, usage) IN
  IF phase = "prefetch" THEN Leaves(r(<<ProxyError>>), "answered")
  ELSE
  CASE way \in Guarded -> Ends(r(FailFrames(guard)), "done")
    [] way = "chat" -> Ends(r(<<>>), IF how = "ended" THEN "done" ELSE "broken")
    [] way = "provider chat" ->
         (CASE how = "ended" -> Ends(r(<<>>), "done")
            [] how = "lost" -> Leaves(r(<<>>), "broken")
            [] how = "stalled" -> Ends(r(<<ProxyError>>), "done"))
    [] way = "provider messages" -> Ends(r(<<ProxyError>>), "done")
    [] way = "via responses" -> Ends(r(IF guard.terminal THEN <<>> ELSE <<ProxyError>>), "done")
    [] way = "via chat" -> Ends(r(IF how = "ended" THEN Flushed ELSE <<ProxyError>>), "done")
    [] way = "collected" -> Leaves(r(<<ProxyError>>), "answered")

\* A mutant of Over: a decoder that gives up says nothing.
OverAtEnd ==
  /\ Open /\ Drained /\ eof # "open" /\ way \notin {"buffered", "relayed body"}
  /\ Apply(Closing(eof))
  /\ silence' = 0
  /\ UNCHANGED <<stream, pos, eof, decoder, events, quiet, idle>>

Over ==
  /\ Open /\ Drained /\ (eof # "open" \/ decoder.overflowed) /\ way \notin {"buffered", "relayed body"}
  /\ Apply(Closing(IF decoder.overflowed THEN "lost" ELSE eof))
  /\ silence' = 0
  /\ UNCHANGED <<stream, pos, eof, decoder, events, quiet, idle>>

\* read_bytes_capped and what follows it: a Responses body must be JSON with consistent usage; a provider's Chat body
\* is handed on whatever it is.
Answer ==
  /\ phase = "on" /\ way \in {"buffered", "relayed body"} /\ (eof # "open" \/ decoder.overflowed)
  /\ LET whole == eof = "ended" /\ ~decoder.overflowed
         valid == whole /\ decoder.buf = answer.bytes /\ Told(1).type = "result"
         good == IF way = "buffered" THEN valid ELSE whole
         u == IF valid THEN Told(1).usage ELSE "none"
     IN Apply([Goes(guard, <<IF good THEN Body(decoder.buf) ELSE ProxyError>>, u) EXCEPT !.phase = "answered", !.records = valid])
  /\ silence' = 0
  /\ UNCHANGED <<stream, pos, eof, decoder, events, quiet, idle>>

(***************************************************************************)
(* Time                                                                    *)
(***************************************************************************)
Waits == Open /\ Drained /\ eof = "open" /\ ~decoder.overflowed
StallDue == Paced /\ quiet >= Stall
BeatDue == Paced /\ idle >= Beat
WindowDue == phase = "prefetch" /\ silence >= Beat

\* Handlers that write no heartbeat: nothing is written before the headers, and behind the end of a translation.
Mute == phase = "prefetch" \/ way = "collected" \/ guard.failed

Tick ==
  /\ Waits /\ ~StallDue /\ ~BeatDue /\ ~WindowDue /\ quiet < ReadTimeout
  /\ quiet' = quiet + 1 /\ idle' = idle + 1
  /\ silence' = IF silence > Beat THEN silence ELSE silence + 1
  /\ UNCHANGED <<stream, pos, eof, decoder, events, guard, phase, client, usage, recorded>>

\* StallPacer: the stall comes before the heartbeat.
Heartbeat ==
  /\ Waits /\ BeatDue /\ ~StallDue
  /\ idle' = 0 /\ silence' = Silence(~Mute)
  /\ UNCHANGED <<stream, pos, eof, decoder, events, guard, phase, client, usage, recorded, quiet>>

Stalled ==
  /\ Waits /\ StallDue
  /\ Apply(Closing("stalled"))
  /\ silence' = 0
  /\ UNCHANGED <<stream, pos, eof, decoder, events, quiet, idle>>

\* The prefetch window is over: the headers go out.
Elapse ==
  /\ Waits /\ WindowDue /\ ~BeatDue
  /\ phase' = "on" /\ silence' = 0
  /\ UNCHANGED <<stream, pos, eof, decoder, events, guard, client, usage, recorded, quiet, idle>>

\* The client goes away, and its handler with it.
HangUp ==
  /\ Open
  /\ phase' = "gone" /\ decoder' = Decoder /\ events' = <<>> /\ quiet' = 0 /\ idle' = 0 /\ silence' = 0
  /\ UNCHANGED <<stream, pos, eof, guard, client, usage, recorded>>

Handling == Take \/ Peek \/ Over \/ Answer
Timers == Tick \/ Heartbeat \/ Stalled \/ Elapse

\* The HTTP client gives a silent connection up.
TimeOut == quiet >= ReadTimeout /\ Cease("lost")

Next ==
  \/ Dial \/ Receive \/ Handling \/ Timers \/ TimeOut \/ HangUp
  \/ \E how \in {"ended", "lost"} : Cease(how)

\* Handlers and their timers run, and the HTTP client's timeouts fire; nothing is asked of the upstream.
Spec == Init /\ [][Next]_vars /\ WF_vars(Dial) /\ WF_vars(Handling) /\ WF_vars(Timers) /\ WF_vars(TimeOut)

(***************************************************************************)
(* Properties                                                              *)
(***************************************************************************)
Shown(e) == <<e.type, e.i, e.text>>
ByProxy(f) == f.type # "body" /\ f.text = "proxy"
FromUpstream == SelectSeq(client, LAMBDA f : ~ByProxy(f))
Alarmed == \E k \in DOMAIN client : ByProxy(client[k])
IsTerminal(f) == f.type \in Terminals \cup {"error", "message_stop", "[DONE]"}
CutRecord(f) == f.type = "malformed" /\ way = "provider chat" /\ eof = "ended" /\ pos < Len(Bytes)
Relayable == SelectSeq(answer.told, LAMBDA e : e.type # "empty")

\* However the upstream's bytes are cut into chunks, the client gets the records in their order and unchanged but for
\* their ids, and an answer that is right and within the limits gets no error of the proxy's unless it is cut off
\* or stalls; what is collected is all items or an error.  Decoder::push, events_impl, the handlers' loops.
RelayFaithful ==
  /\ way \in Decoded /\ transport # "none" /\ phase # "answered" =>
       /\ Len(FromUpstream) <= Len(Relayable)
       /\ \A k \in DOMAIN FromUpstream :
            Shown(FromUpstream[k]) = Shown(Relayable[k]) \/ (CutRecord(FromUpstream[k]) /\ k = Len(FromUpstream))
  /\ way = "chat" /\ phase = "done" => FlattenSeq([k \in DOMAIN client |-> client[k].text]) = SubSeq(answer.bytes, 1, pos)
  /\ way \notin {"chat", "buffered", "relayed body"} /\ phase = "done" /\ answer.good /\ Alarmed =>
       eof = "lost" \/ quiet >= Stall \/ pos < Len(Bytes)
  /\ way = "collected" /\ phase = "answered" /\ ~Alarmed => client = <<Body(answer.whole)>>
  /\ way = "buffered" /\ phase = "answered" /\ ~Alarmed => client = <<Body(answer.bytes)>>

\* The client of a Responses or Messages stream gets one terminal event, the last, whatever goes wrong.
\* ResponsesStreamGuard, the handlers' loops.
OneEnd ==
  way \in (Decoded \cup Translating) \ {"provider chat"} /\ phase \in {"on", "done"} =>
    /\ \A k \in DOMAIN client : IsTerminal(client[k]) => k = Len(client)
    /\ phase = "done" => client # <<>> /\ IsTerminal(Last(client))

\* The ids of a Responses stream stay what they were announced as: a response's to its terminal event, an item's in
\* all that comes of it, whatever ids the upstream gives them later.  fix_stream_ids, ResponsesStreamGuard::process.
IdsStay ==
  way \in Guarded /\ phase \in {"on", "done"} =>
    \A j, k \in DOMAIN client : j < k =>
      /\ client[j].type = "created" /\ client[k].type \in Terminals => client[k].id = client[j].id
      /\ /\ client[j].type = "added" /\ client[j].i # NoIndex
         /\ client[k].type \in {"done", "delta"} /\ client[k].i = client[j].i
         /\ \A m \in j + 1 .. k - 1 : ~(client[m].type = "added" /\ client[m].i = client[j].i)
         => client[k].id = client[j].id

LastUsage(frames) ==
  LET last == {k \in DOMAIN frames : /\ frames[k].usage # "none"
                                     /\ \A j \in k + 1 .. Len(frames) : frames[j].usage = "none"}
  IN IF last = {} THEN "none" ELSE frames[CHOOSE k \in last : TRUE].usage

\* A stream is recorded once, when it ends, never while it runs or when its client has left, and with the tokens of
\* what the client was sent.  TokenUsageRecorder::record in the handlers' loops.
RecordedAsSent ==
  /\ Len(recorded) <= 1
  /\ phase \in {"dial", "prefetch", "on", "gone"} => recorded = <<>>
  /\ phase = "done" => Len(recorded) = 1
  /\ way \in Decoded /\ phase = "done" => recorded[1] = LastUsage(client)

\* What a client may rely on of its stream, and the record of it, whatever the upstream sends and wherever it stops:
\* stream_responses_sse, stream_provider_response_events and the other loops over events_impl.
StreamSound == OneEnd /\ IdsStay /\ RecordedAsSent

\* What a translator reads to its end, failed or not.
Translatable ==
  IF way = "via chat" THEN answer.good ELSE \A n \in DOMAIN answer.told : Told(n).type \notin {"malformed", "[DONE]"}

\* The tokens recorded are those the answer told, or, behind a failed translation, those of its terminal event; of a
\* collected answer those of its terminal, valid or not.  The recorders of the handlers' loops, sniff_usage.
UsageKept ==
  /\ way = "chat" /\ phase = "done" => recorded[1] \in {"none", LastUsage(answer.told)}
  /\ way \in Translating /\ phase = "done" /\ pos = Len(Bytes) /\ Translatable => recorded[1] = LastUsage(answer.told)
  /\ way \in {"collected", "buffered"} /\ phase = "answered" /\ ~Alarmed =>
       recorded = <<LastUsage(answer.told)>>

\* The client of a paced stream hears something in every heartbeat interval, comments of the upstream or not, as long
\* as no event is swallowed.  StallPacer::next_with_marker, next_sse.
NeverSilent ==
  Open /\ way \in Decoded /\ (\A n \in DOMAIN answer.told : Told(n).type # "empty") => silence <= Beat

\* Every answer ends.  StallPacer, upstream_read_timeout.
RelayEnds == <>(phase \in {"done", "broken", "answered", "gone"})
=================================================================================

------------------------------ MODULE RelayProofs ------------------------------
(***************************************************************************)
(* Proofs about the handlers that hand an upstream's answer on: how a     *)
(* stream ends, which ids it shows, which tokens are recorded and how     *)
(* long its client waits, however its bytes come and whatever they say.   *)
(***************************************************************************)
EXTENDS Relay, SequenceTheorems, TLAPS

(***************************************************************************)
(* What a client has                                                       *)
(***************************************************************************)
IsSeq(c) == \E S : c \in Seq(S)

LEMMA OneMore ==
    ASSUME NEW c, IsSeq(c), NEW f
    PROVE  /\ c \o <<>> = c
           /\ IsSeq(c \o <<f>>) /\ Len(c \o <<f>>) = Len(c) + 1 /\ Len(c) \in Nat
           /\ DOMAIN c = 1 .. Len(c) /\ DOMAIN (c \o <<f>>) = 1 .. Len(c) + 1
           /\ \A k \in 1 .. Len(c) : (c \o <<f>>)[k] = c[k]
           /\ (c \o <<f>>)[Len(c) + 1] = f
<1>. PICK T : c \in Seq(T) BY DEF IsSeq
<1>. DEFINE l == <<f>>
            S == T \cup {f}
<1>1. c \in Seq(S) /\ l \in Seq(S) /\ Len(l) = 1 /\ l[1] = f OBVIOUS
<1>. HIDE DEF l, S
<1>. DEFINE d == c \o l
<1>2. /\ d \in Seq(S) /\ Len(d) = Len(c) + Len(l)
      /\ \A k \in 1 .. Len(c) + Len(l) : d[k] = IF k <= Len(c) THEN c[k] ELSE l[k - Len(c)]
    BY <1>1, ConcatProperties
<1>3. c \o <<>> = c BY <1>1, ConcatEmptySeq
<1>4. Len(c) \in Nat /\ DOMAIN c = 1 .. Len(c) /\ DOMAIN d = 1 .. Len(d) BY <1>1, <1>2
<1>. HIDE DEF d
<1>5. Len(d) = Len(c) + 1 /\ \A k \in 1 .. Len(c) : d[k] = c[k] BY <1>1, <1>2, <1>4
<1>6. d[Len(c) + 1] = f BY <1>1, <1>2, <1>4
<1>. QED BY <1>2, <1>3, <1>4, <1>5, <1>6 DEF d, l, IsSeq

LEMMA AppendToNone == \A x : Append(<<>>, x) = <<x>>
<1>1. \A x : <<x>> \in Seq({x}) OBVIOUS
<1>2. \A S : <<>> \in Seq(S) OBVIOUS
<1>. SUFFICES ASSUME NEW x PROVE Append(<<>>, x) = <<x>> OBVIOUS
<1>. DEFINE S == {x}
<1>3. <<x>> \in Seq(S) /\ <<>> \in Seq(S) BY <1>1, <1>2
<1>4. x \in S OBVIOUS
<1>. HIDE DEF S
<1>5. Append(<<>>, x) = <<>> \o <<x>> BY <1>3, <1>4, AppendIsConcat
<1>6. <<>> \o <<x>> = <<x>> BY <1>3, ConcatEmptySeq
<1>. QED BY <1>5, <1>6

\* The usage that counts is that of the last frame that has one.
LEMMA LastUsageOfNone == LastUsage(<<>>) = "none"
BY DEF LastUsage

LEMMA LastUsageOfMore ==
    ASSUME NEW c, IsSeq(c), NEW f
    PROVE  LastUsage(c \o <<f>>) = IF f.usage # "none" THEN f.usage ELSE LastUsage(c)
<1>. DEFINE n == Len(c)
            d == c \o <<f>>
            L(q) == {k \in DOMAIN q : q[k].usage # "none" /\ \A j \in k + 1 .. Len(q) : q[j].usage = "none"}
            T == L(d)
            U == L(c)
<1>1. /\ n \in Nat /\ DOMAIN c = 1 .. n /\ DOMAIN d = 1 .. n + 1 /\ Len(d) = n + 1
      /\ d[n + 1] = f /\ \A k \in 1 .. n : d[k] = c[k]
    BY OneMore
<1>2. /\ LastUsage(d) = IF T = {} THEN "none" ELSE d[CHOOSE k \in T : TRUE].usage
      /\ LastUsage(c) = IF U = {} THEN "none" ELSE c[CHOOSE k \in U : TRUE].usage
    BY DEF LastUsage
<1>3. \A k : k \in T <=> /\ k \in 1 .. n + 1 /\ d[k].usage # "none"
                         /\ \A j \in k + 1 .. n + 1 : d[j].usage = "none"
    BY <1>1
<1>4. \A k : k \in U <=> /\ k \in 1 .. n /\ c[k].usage # "none"
                         /\ \A j \in k + 1 .. n : c[j].usage = "none"
    BY <1>1
<1>. SUFFICES LastUsage(d) = IF f.usage # "none" THEN f.usage ELSE LastUsage(c) OBVIOUS
<1>. HIDE DEF d, T, U, n
<1>5. CASE f.usage # "none"
    <2>1. n + 1 \in T BY <1>1, <1>3, <1>5
    <2>2. \A k \in T : k = n + 1 BY <1>1, <1>3, <1>5
    <2>3. (CHOOSE k \in T : TRUE) = n + 1 BY <2>1, <2>2
    <2>. QED BY <1>1, <1>2, <1>5, <2>1, <2>3
<1>6. CASE f.usage = "none"
    <2>1. \A k : k \in T <=> k \in U
        <3>1. ASSUME NEW k \in T PROVE k \in U
            <4>1. k \in 1 .. n BY <1>1, <1>3, <1>6
            <4>2. \A j \in k + 1 .. n : c[j].usage = "none" BY <1>1, <1>3, <4>1
            <4>. QED BY <1>1, <1>3, <1>4, <4>1, <4>2
        <3>2. ASSUME NEW k \in U PROVE k \in T
            <4>1. k \in 1 .. n BY <1>4
            <4>2. \A j \in k + 1 .. n : d[j].usage = "none" BY <1>1, <1>4, <4>1
            <4>3. \A j \in k + 1 .. n + 1 : d[j].usage = "none" BY <1>1, <1>6, <4>1, <4>2
            <4>4. d[k].usage # "none" /\ k \in 1 .. n + 1 BY <1>1, <1>4, <4>1
            <4>. QED BY <1>3, <4>3, <4>4
        <3>. QED BY <3>1, <3>2
    <2>2. T = U BY <2>1
    <2>3. CASE U = {} BY <1>2, <1>6, <2>2, <2>3
    <2>4. CASE U # {}
        <3>. DEFINE m == CHOOSE k \in U : TRUE
        <3>1. m \in U BY <2>4
        <3>2. LastUsage(d) = d[m].usage /\ LastUsage(c) = c[m].usage BY <1>2, <2>2, <2>4
        <3>. HIDE DEF m
        <3>3. d[m] = c[m] BY <1>1, <1>4, <3>1
        <3>. QED BY <1>6, <3>2, <3>3
    <2>. QED BY <2>3, <2>4
<1>. QED BY <1>5, <1>6

(***************************************************************************)
(* The invariant of a decoded or translated stream                         *)
(***************************************************************************)
GuardShape(g) ==
    /\ g = [created |-> g.created, terminal |-> g.terminal, id |-> g.id, items |-> g.items,
            failed |-> g.failed, output |-> g.output]
    /\ g.created \in BOOLEAN /\ g.terminal \in BOOLEAN /\ g.failed \in BOOLEAN

\* The client has been told the end: the stream is over or, when an answer is
\* translated, read on for its tokens.
Ended(w, g, ph) == ph = "done" \/ (w = "via responses" /\ g.terminal)

EndsInv(w, c, g, ph) ==
    /\ \A k \in DOMAIN c : IsTerminal(c[k]) => k = Len(c)
    /\ Ended(w, g, ph) <=> c # <<>> /\ IsTerminal(c[Len(c)])

\* Frame k is the last to announce its item.
Announces(c, k) ==
    /\ k \in DOMAIN c /\ c[k].type = "added" /\ c[k].i # NoIndex
    /\ \A m \in k + 1 .. Len(c) : ~ (c[m].type = "added" /\ c[m].i = c[k].i)

\* The ids in force are those the client was told.
IdsInv(c, g) ==
    /\ \A k \in DOMAIN c : c[k].type = "created" => g.created /\ g.id = c[k].id
    /\ \A k : Announces(c, k) => c[k].i \in DOMAIN g.items /\ g.items[c[k].i] = c[k].id

IdsKept(c) ==
    \A j, k \in DOMAIN c : j < k =>
      /\ c[j].type = "created" /\ c[k].type \in Terminals => c[k].id = c[j].id
      /\ /\ c[j].type = "added" /\ c[j].i # NoIndex
         /\ c[k].type \in {"done", "delta"} /\ c[k].i = c[j].i
         /\ \A m \in j + 1 .. k - 1 : ~ (c[m].type = "added" /\ c[m].i = c[j].i)
         => c[k].id = c[j].id

StreamInv(w, c, g, u, ph) ==
    /\ IsSeq(c) /\ GuardShape(g)
    /\ w \in Decoded => u = LastUsage(c)
    /\ w \in Guarded /\ ph # "done" => u = "none"
    /\ w # "provider chat" => EndsInv(w, c, g, ph)
    /\ w \in Guarded => IdsKept(c)
    /\ w \in Guarded /\ ph # "done" => ~ g.terminal /\ IdsInv(c, g)

Framing == Decoded \cup Translating

RelayInv ==
    /\ answer \in Answers
    /\ phase \in {"dial", "prefetch", "on", "done", "broken", "answered", "gone"}
    /\ eof \in {"open", "ended", "lost"}
    /\ transport = "websocket" => way = "responses"
    /\ way \in {"buffered", "relayed body"} => events = <<>>
    /\ recorded = <<>> \/ (recorded = <<usage>> /\ phase \in {"done", "broken", "answered"})
    /\ phase = "done" => recorded = <<usage>>
    /\ phase \in {"dial", "prefetch"} => client = <<>> /\ usage = "none" /\ guard = Fresh
    /\ way \in Framing /\ phase \in {"on", "done"} => StreamInv(way, client, guard, usage, phase)

(***************************************************************************)
(* What a handler does with an event                                       *)
(***************************************************************************)
\* The ids of a frame and the ids then in force.
Identified(f, g) ==
    /\ IF f.type = "created" THEN ~ guard.created /\ g.created /\ g.id = f.id
       ELSE g.id = guard.id /\ (g.created <=> guard.created)
    /\ f.type \in Terminals => f.id = guard.id
    /\ g.items = IF f.type = "added" THEN SetItem(guard.items, f.i, f.id) ELSE guard.items
    /\ f.type \in {"done", "delta"} /\ f.i \in DOMAIN guard.items => f.id = guard.items[f.i]

Silent(r) ==
    /\ r.frames = <<>>
    /\ way \in Decoded => r.usage = usage
    /\ way # "provider chat" => (Ended(way, r.guard, r.phase) <=> Ended(way, guard, "on"))
    /\ way \in Guarded => r.guard = guard

Writes(r, f) ==
    /\ r.frames = <<f>>
    /\ way \in Decoded => r.usage = IF f.usage # "none" THEN f.usage ELSE usage
    /\ way # "provider chat" => ~ Ended(way, guard, "on") /\ (Ended(way, r.guard, r.phase) <=> IsTerminal(f))
    /\ way \in Guarded /\ r.phase = "on" => ~ r.guard.terminal /\ r.usage = "none" /\ Identified(f, r.guard)
    /\ way \in Guarded /\ f.type \in Terminals => f.id = guard.id
    /\ way \in Guarded /\ f.type \in {"done", "delta"} /\ f.i \in DOMAIN guard.items => f.id = guard.items[f.i]

Progress(r) ==
    /\ r.phase \in {"on", "done"} /\ GuardShape(r.guard)
    /\ r.records <=> r.phase = "done"
    /\ Silent(r) \/ \E f : Writes(r, f)

\* The events of an upstream.
IsEvent(e) == e = [type |-> e.type, name |-> e.name, id |-> e.id, i |-> e.i, text |-> e.text, usage |-> e.usage]

Speaks(e) ==
    /\ IsEvent(e)
    /\ way \in Guarded \cup {"via responses"} =>
         e.type # "message_stop" /\ (e.usage # "none" => e.type \in Terminals)
    /\ way = "provider messages" => e.type \notin Terminals

LEMMA EventSpeaks ==
    ASSUME answer \in Answers, NEW record
    PROVE  Speaks(Event(record))
<1>. DEFINE n == Head(record.data)[2]
            e == [Told(n) EXCEPT !.name = record.name \in {0, n}]
<1>1. Speaks(Nothing) /\ Speaks(Malformation)
    <2>. DEFINE m == Malformation  z == Nothing
    <2>1. m.type = "malformed" /\ m.usage = "none"
          /\ IsEvent(m)
        BY DEF Malformation, IsEvent
    <2>. HIDE DEF m
    <2>2. z.type = "empty" /\ z.usage = "none"
          /\ IsEvent(z)
        <3>1. z = [m EXCEPT !.type = "empty"] BY DEF Nothing, m
        <3>. HIDE DEF z
        <3>. QED BY <2>1, <3>1 DEF IsEvent
    <2>. HIDE DEF z
    <2>3. Speaks(m) /\ Speaks(z) BY <2>1, <2>2 DEF Speaks, Terminals
    <2>. QED BY <2>3 DEF m, z
<1>2. CASE n \in DOMAIN answer.told
    <2>. DEFINE t == answer.told[n]
                b == record.name \in {0, n}
    <2>1. answer.told \in Seq(Frames) BY AnswersAssumption
    <2>. HIDE DEF n
    <2>2. t \in Frames BY <1>2, <2>1, ElementOfSeq
    <2>3. /\ way \in Guarded \cup {"via responses"} =>
               t.type # "message_stop" /\ (t.usage # "none" => t.type \in Terminals)
          /\ way = "provider messages" => t.type \notin Terminals
        BY <1>2, AnswersAssumption DEF way
    <2>4. e = [t EXCEPT !.name = b] BY DEF Told
    <2>. HIDE DEF t, e, b
    <2>5. e.type = t.type /\ e.usage = t.usage
          /\ IsEvent(e)
        BY <2>2, <2>4 DEF Frames, IsEvent
    <2>6. Speaks(e) BY <2>3, <2>5 DEF Speaks
    <2>. QED BY <1>1, <2>6 DEF Event, e, n
<1>3. CASE n \notin DOMAIN answer.told BY <1>1, <1>3 DEF Event
<1>. QED BY <1>2, <1>3

(***************************************************************************)
(* The guard                                                               *)
(***************************************************************************)
LEMMA FailFrame ==
    ASSUME NEW g, ~ g.terminal
    PROVE  \E f : /\ FailFrames(g) = <<f>> /\ f.type \in {"failed", "error"}
                  /\ f.usage = "none" /\ f.id = g.id
<1>. DEFINE f == [type |-> IF g.created THEN "failed" ELSE "error", name |-> TRUE, id |-> g.id, i |-> NoIndex,
                  text |-> "proxy", usage |-> "none"]
<1>1. FailFrames(g) = <<f>> BY DEF FailFrames
<1>2. f.type = (IF g.created THEN "failed" ELSE "error") /\ f.usage = "none" /\ f.id = g.id OBVIOUS
<1>. HIDE DEF f
<1>. QED BY <1>1, <1>2

LEMMA SynchronizedKeeps ==
    ASSUME NEW g, NEW e, IsEvent(e), NEW f, f = Synchronized(g, e)
    PROVE  /\ f.type = e.type /\ f.i = e.i /\ f.usage = e.usage
           /\ e.type \in {"done", "delta"} /\ e.i \in DOMAIN g.items => f.id = g.items[e.i]
<1>1. CASE e.type = "added"
    <2>. DEFINE id == IF e.id = "none" THEN Made(e.i) ELSE e.id
    <2>1. f = [e EXCEPT !.id = id] BY <1>1 DEF Synchronized
    <2>. HIDE DEF id
    <2>. QED BY <1>1, <2>1 DEF IsEvent
<1>2. CASE e.type \in {"done", "delta"} /\ HasItem(g, e.i)
    <2>1. f = [e EXCEPT !.id = ItemId(g, e.i)] BY <1>2 DEF Synchronized
    <2>. QED BY <1>2, <2>1 DEF IsEvent, ItemId
<1>3. CASE e.type # "added" /\ ~ (e.type \in {"done", "delta"} /\ HasItem(g, e.i))
    <2>1. f = e BY <1>3 DEF Synchronized
    <2>. QED BY <1>3, <2>1 DEF HasItem
<1>. QED BY <1>1, <1>2, <1>3

\* An event that passes: its frame, and the guard behind it.
LEMMA ProcessPasses ==
    ASSUME NEW e, IsEvent(e), e.type # "empty", ~ Malformed(guard, e), GuardShape(guard), NEW p, p = Process(guard, e)
    PROVE  /\ p.verdict = "passes" /\ GuardShape(p.guard)
           /\ p.frame.type = e.type /\ p.frame.usage = e.usage
           /\ p.guard.terminal <=> e.type \in Terminals \cup {"error"}
           /\ Identified(p.frame, p.guard)
<1>. DEFINE f == Synchronized(guard, e)
            g == p.guard
            h == p.frame
<1>0. ~ guard.terminal /\ (e.type = "created" => ~ guard.created) BY DEF Malformed
<1>a. /\ f.type = e.type /\ f.i = e.i /\ f.usage = e.usage
      /\ e.type \in {"done", "delta"} /\ e.i \in DOMAIN guard.items => f.id = guard.items[e.i]
    BY SynchronizedKeeps
<1>b. /\ e.type = "created" => p = Passes([guard EXCEPT !.created = TRUE, !.id = e.id], e)
      /\ e.type \in Terminals => p = Passes([guard EXCEPT !.terminal = TRUE], [e EXCEPT !.id = guard.id])
      /\ e.type = "error" => p = Passes([guard EXCEPT !.terminal = TRUE], e)
      /\ e.type = "added" => p = Passes([guard EXCEPT !.items = SetItem(@, e.i, f.id)], f)
      /\ e.type \notin {"created", "error", "added"} \cup Terminals => p = Passes(guard, f)
    BY DEF Process, Terminals
<1>. HIDE DEF f
<1>. SUFFICES /\ p.verdict = "passes" /\ GuardShape(g)
              /\ h.type = e.type /\ h.usage = e.usage
              /\ g.terminal <=> e.type \in Terminals \cup {"error"}
              /\ Identified(h, g)
    OBVIOUS
<1>1. CASE e.type = "created"
    <2>1. p.verdict = "passes" /\ h = e /\ g = [guard EXCEPT !.created = TRUE, !.id = e.id]
        BY <1>1, <1>b DEF Passes
    <2>. HIDE DEF g, h
    <2>2. GuardShape(g) /\ ~ g.terminal /\ g.created /\ g.id = e.id /\ g.items = guard.items
        BY <1>0, <2>1 DEF GuardShape
    <2>. QED BY <1>0, <1>1, <2>1, <2>2 DEF Identified, Terminals
<1>2. CASE e.type \in Terminals
    <2>. DEFINE x == [e EXCEPT !.id = guard.id]
                y == [guard EXCEPT !.terminal = TRUE]
    <2>0. x = [e EXCEPT !.id = guard.id] /\ y = [guard EXCEPT !.terminal = TRUE] OBVIOUS
    <2>b. p = Passes(y, x) BY <1>2, <1>b
    <2>. HIDE DEF x, y
    <2>c. p.verdict = "passes" /\ h = x /\ g = y BY <2>b DEF Passes
    <2>. HIDE DEF g, h
    <2>1. p.verdict = "passes" /\ h = [e EXCEPT !.id = guard.id] /\ g = [guard EXCEPT !.terminal = TRUE]
        BY <2>0, <2>c
    <2>2. /\ GuardShape(g) /\ g.terminal /\ (g.created <=> guard.created) /\ g.id = guard.id
          /\ g.items = guard.items
        BY <2>1 DEF GuardShape
    <2>3. h.type = e.type /\ h.usage = e.usage /\ h.id = guard.id BY <2>1 DEF IsEvent
    <2>. QED BY <1>2, <2>1, <2>2, <2>3 DEF Identified, Terminals
<1>3. CASE e.type = "error"
    <2>1. p.verdict = "passes" /\ h = e /\ g = [guard EXCEPT !.terminal = TRUE]
        BY <1>3, <1>b DEF Passes
    <2>. HIDE DEF g, h
    <2>2. /\ GuardShape(g) /\ g.terminal /\ (g.created <=> guard.created) /\ g.id = guard.id
          /\ g.items = guard.items
        BY <2>1 DEF GuardShape
    <2>. QED BY <1>3, <2>1, <2>2 DEF Identified, Terminals
<1>4. CASE e.type = "added"
    <2>1. p.verdict = "passes" /\ h = f /\ g = [guard EXCEPT !.items = SetItem(@, e.i, f.id)]
        BY <1>4, <1>b DEF Passes
    <2>. HIDE DEF g, h
    <2>2. /\ GuardShape(g) /\ ~ g.terminal /\ (g.created <=> guard.created) /\ g.id = guard.id
          /\ g.items = SetItem(guard.items, e.i, f.id)
        BY <1>0, <2>1 DEF GuardShape
    <2>. QED BY <1>4, <1>a, <2>1, <2>2 DEF Identified, Terminals
<1>5. CASE e.type \notin {"created", "error", "added"} \cup Terminals
    <2>1. p.verdict = "passes" /\ h = f /\ g = guard
        BY <1>5, <1>b DEF Passes
    <2>. HIDE DEF g, h
    <2>. QED BY <1>0, <1>5, <1>a, <2>1 DEF Identified, Terminals
<1>. QED BY <1>1, <1>2, <1>3, <1>4, <1>5

LEMMA GuardsMove ==
    ASSUME way \in Guarded, phase = "on", usage = "none", GuardShape(guard), ~ guard.terminal,
           NEW e, Speaks(e), NEW r, r = Guards(e)
    PROVE  Progress(r)
<1>. DEFINE p == Process(guard, e)
            u == TerminalUsage(e)
<1>0. IsEvent(e) /\ e.type # "message_stop" /\ (e.usage # "none" => e.type \in Terminals)
    BY DEF Speaks, IsEvent, Guarded
<1>a. way # "via responses" /\ way # "provider chat" BY DEF Guarded
<1>b. \A g : Ended(way, g, "on") <=> FALSE BY <1>a DEF Ended
<1>c. \A g : Ended(way, g, "done") BY DEF Ended
<1>1. CASE e.type = "empty"
    <2>1. p.verdict = "ignored" BY <1>1 DEF Process, Ignored
    <2>2. r = Goes(guard, <<>>, usage) BY <2>1 DEF Guards
    <2>3. r.guard = guard /\ r.frames = <<>> /\ r.usage = usage /\ r.phase = "on" /\ r.records = FALSE
        BY <2>2 DEF Goes
    <2>. QED BY <2>3, <1>b DEF Progress, Silent
<1>2. CASE e.type # "empty" /\ Malformed(guard, e)
    <2>1. p.verdict = "refused" BY <1>2 DEF Process, Refused
    <2>2. PICK f : /\ FailFrames(guard) = <<f>> /\ f.type \in {"failed", "error"}
                   /\ f.usage = "none" /\ f.id = guard.id
        BY FailFrame
    <2>3. r = Ends(Goes(guard, <<f>>, usage), "done") BY <2>1, <2>2 DEF Guards
    <2>4. r.guard = guard /\ r.frames = <<f>> /\ r.usage = usage /\ r.phase = "done" /\ r.records = TRUE
        BY <2>3 DEF Goes, Ends
    <2>5. IsTerminal(f) BY <2>2 DEF IsTerminal, Terminals
    <2>6. Writes(r, f) BY <2>2, <2>4, <2>5, <1>b, <1>c DEF Writes
    <2>. QED BY <2>4, <2>6 DEF Progress
<1>3. CASE e.type # "empty" /\ ~ Malformed(guard, e)
    <2>. DEFINE f == p.frame
                g == p.guard
                q == Goes(g, <<f>>, u)
    <2>1. /\ p.verdict = "passes" /\ GuardShape(g)
          /\ f.type = e.type /\ f.usage = e.usage
          /\ g.terminal <=> e.type \in Terminals \cup {"error"}
          /\ Identified(f, g)
        BY <1>0, <1>3, ProcessPasses
    <2>2. r = IF g.terminal THEN Ends(q, "done") ELSE q BY <2>1 DEF Guards
    <2>3. u = IF e.type \in Terminals THEN e.usage ELSE usage BY DEF TerminalUsage
    <2>. HIDE DEF f, g, u, p
    <2>4. /\ r.guard = g /\ r.frames = <<f>> /\ r.usage = u
          /\ r.phase = (IF g.terminal THEN "done" ELSE "on") /\ (r.records <=> g.terminal)
        BY <2>2 DEF Goes, Ends
    <2>5. e.type # "[DONE]" BY <1>3 DEF Malformed
    <2>6. IsTerminal(f) <=> g.terminal BY <1>0, <2>1, <2>5 DEF IsTerminal, Terminals
    <2>7. Ended(way, r.guard, r.phase) <=> g.terminal BY <1>a, <2>4 DEF Ended
    <2>8. Writes(r, f)
        <3>1. u = IF f.usage # "none" THEN f.usage ELSE usage BY <1>0, <2>1, <2>3
        <3>2. ~ g.terminal => u = "none" BY <1>0, <2>1, <2>3
        <3>. QED BY <1>b, <2>1, <2>4, <2>6, <2>7, <3>1, <3>2 DEF Writes, Identified
    <2>9. r.phase \in {"on", "done"} /\ (r.records <=> r.phase = "done") BY <2>1, <2>4 DEF GuardShape
    <2>. QED BY <2>1, <2>4, <2>8, <2>9 DEF Progress
<1>. QED BY <1>1, <1>2, <1>3

(***************************************************************************)
(* The other handlers                                                      *)
(***************************************************************************)
LEMMA ErrorFrame ==
    /\ IsEvent(ProxyError) /\ ProxyError.type = "error" /\ ProxyError.usage = "none" /\ IsTerminal(ProxyError)
    /\ \A x : LET f == [ProxyError EXCEPT !.text = x] IN f.usage = "none" /\ IsTerminal(f)
<1>. DEFINE m == Malformation
            p == ProxyError
<1>1. IsEvent(m) /\ m.usage = "none" BY DEF Malformation, IsEvent
<1>2. p = [m EXCEPT !.type = "error", !.text = "proxy"] BY DEF ProxyError
<1>. HIDE DEF m
<1>3. IsEvent(p) /\ p.type = "error" /\ p.usage = "none"
    <2>. HIDE DEF p
    <2>. QED BY <1>1, <1>2 DEF IsEvent
<1>. HIDE DEF p
<1>4. ASSUME NEW x, NEW f, f = [p EXCEPT !.text = x]
      PROVE  f.usage = "none" /\ f.type = "error"
    BY <1>3, <1>4 DEF IsEvent
<1>5. \A f : f.type = "error" => IsTerminal(f) BY DEF IsTerminal
<1>6. \A x : LET f == [p EXCEPT !.text = x] IN f.usage = "none" /\ IsTerminal(f) BY <1>4, <1>5
<1>. QED BY <1>3, <1>5, <1>6 DEF p

Outcome(r, g, shown, u, over) ==
    /\ r.guard = g /\ r.frames = shown /\ r.usage = u
    /\ r.phase = (IF over THEN "done" ELSE "on") /\ (r.records <=> over)

LEMMA GoesOn ==
    ASSUME phase = "on", NEW g, NEW shown, NEW u
    PROVE  Outcome(Goes(g, shown, u), g, shown, u, FALSE)
<1>. DEFINE q == Goes(g, shown, u)
<1>1. q = [guard |-> g, frames |-> shown, usage |-> u, phase |-> "on", records |-> FALSE] BY DEF Goes
<1>. HIDE DEF q
<1>2. q.guard = g BY <1>1
<1>3. q.frames = shown BY <1>1
<1>4. q.usage = u BY <1>1
<1>5. q.phase = "on" BY <1>1
<1>6. ~ q.records BY <1>1
<1>7. Outcome(q, g, shown, u, FALSE) BY <1>2, <1>3, <1>4, <1>5, <1>6 DEF Outcome
<1>. QED BY <1>7 DEF q

LEMMA GoesOut ==
    ASSUME phase = "on", NEW g, NEW shown, NEW u
    PROVE  Outcome(Ends(Goes(g, shown, u), "done"), g, shown, u, TRUE)
<1>. DEFINE q == Goes(g, shown, u)
            r == Ends(q, "done")
<1>1. q = [guard |-> g, frames |-> shown, usage |-> u, phase |-> "on", records |-> FALSE] BY DEF Goes
<1>2. r = [q EXCEPT !.phase = "done", !.records = TRUE] BY DEF Ends
<1>. HIDE DEF q, r
<1>3. r.guard = g BY <1>1, <1>2
<1>4. r.frames = shown BY <1>1, <1>2
<1>5. r.usage = u BY <1>1, <1>2
<1>6. r.phase = "done" BY <1>1, <1>2
<1>7. r.records BY <1>1, <1>2
<1>8. Outcome(r, g, shown, u, TRUE) BY <1>3, <1>4, <1>5, <1>6, <1>7 DEF Outcome
<1>. QED BY <1>8 DEF q, r

LEMMA GoesOnOrOut ==
    ASSUME phase = "on", NEW g, NEW shown, NEW u, NEW over,
           NEW r, r = IF over THEN Ends(Goes(g, shown, u), "done") ELSE Goes(g, shown, u)
    PROVE  Outcome(r, g, shown, u, over)
<1>1. CASE over BY <1>1, GoesOut DEF Outcome
<1>2. CASE ~ over BY <1>2, GoesOn DEF Outcome
<1>. QED BY <1>1, <1>2

\* A handler that ends the stream with a frame.
LEMMA EndsWith ==
    ASSUME way \in Framing \ Guarded, GuardShape(guard), ~ Ended(way, guard, "on"), NEW f, IsTerminal(f), f.usage = "none",
           NEW u, way \in Decoded => u = usage,
           NEW r, r = Ends(Goes(guard, <<f>>, u), "done")
    PROVE  Progress(r)
<1>1. r.guard = guard /\ r.frames = <<f>> /\ r.usage = u /\ r.phase = "done" /\ r.records = TRUE
    BY DEF Ends, Goes
<1>2. Writes(r, f) BY <1>1 DEF Writes, Ended
<1>. QED BY <1>1, <1>2 DEF Progress

\* A handler that passes over an event.
LEMMA PassesOver ==
    ASSUME way \in Framing, phase = "on", GuardShape(guard), NEW r, r = Goes(guard, <<>>, usage)
    PROVE  Progress(r)
<1>1. r.guard = guard /\ r.frames = <<>> /\ r.usage = usage /\ r.phase = "on" /\ r.records = FALSE
    BY DEF Goes
<1>. QED BY <1>1 DEF Progress, Silent

LEMMA RelaysMove ==
    ASSUME way = "provider chat", phase = "on", GuardShape(guard), NEW e, NEW r, r = Relays(e)
    PROVE  Progress(r)
<1>. DEFINE u == IF e.usage # "none" THEN e.usage ELSE usage
<1>0. way \notin Guarded /\ way \in Framing BY DEF Guarded, Framing, Decoded
<1>1. CASE e.type = "empty" BY <1>0, <1>1, PassesOver DEF Relays
<1>2. CASE e.type # "empty"
    <2>. DEFINE last == e.type = "[DONE]"
                shown == <<e>>
    <2>1. r = IF last THEN Ends(Goes(guard, shown, u), "done") ELSE Goes(guard, shown, u) BY <1>2 DEF Relays
    <2>. HIDE DEF u, last, shown
    <2>a. Outcome(r, guard, shown, u, last) BY <2>1, GoesOnOrOut
    <2>2. /\ r.guard = guard /\ r.frames = shown /\ r.usage = u
          /\ r.phase = (IF last THEN "done" ELSE "on") /\ (r.records <=> last)
        BY <2>a DEF Outcome
    <2>. USE DEF shown
    <2>3. Writes(r, e) BY <1>0, <2>2 DEF Writes, u
    <2>. QED BY <2>2, <2>3 DEF Progress
<1>. QED BY <1>1, <1>2

LEMMA RelaysMessagesMove ==
    ASSUME way = "provider messages", phase = "on", GuardShape(guard), NEW e, Speaks(e), NEW r, r = RelaysMessages(e)
    PROVE  Progress(r)
<1>. DEFINE u == IF e.usage # "none" THEN e.usage ELSE usage
            last == e.type \in {"message_stop", "error"}
<1>0. way \in Framing \ Guarded /\ ~ Ended(way, guard, "on") BY DEF Guarded, Framing, Decoded, Ended
<1>1. CASE e.type = "empty" BY <1>0, <1>1, PassesOver DEF RelaysMessages
<1>2. CASE e.type \in {"[DONE]", "malformed"}
    <2>1. r = Ends(Goes(guard, <<ProxyError>>, usage), "done") BY <1>2 DEF RelaysMessages
    <2>. QED BY <1>0, <2>1, ErrorFrame, EndsWith
<1>3. CASE e.type \notin {"empty", "[DONE]", "malformed"}
    <2>. DEFINE shown == <<e>>
    <2>1. r = IF last THEN Ends(Goes(guard, shown, u), "done") ELSE Goes(guard, shown, u) BY <1>3 DEF RelaysMessages
    <2>. HIDE DEF u, last, shown
    <2>a. Outcome(r, guard, shown, u, last) BY <2>1, GoesOnOrOut
    <2>2. /\ r.guard = guard /\ r.frames = shown /\ r.usage = u
          /\ r.phase = (IF last THEN "done" ELSE "on") /\ (r.records <=> last)
        BY <2>a DEF Outcome
    <2>. USE DEF shown, last
    <2>3. IsTerminal(e) <=> last BY <1>3 DEF IsTerminal, Speaks
    <2>4. Ended(way, r.guard, r.phase) <=> last BY <2>2 DEF Ended
    <2>. HIDE DEF last
    <2>5. Writes(r, e) BY <1>0, <2>2, <2>3, <2>4 DEF Writes, u
    <2>. QED BY <2>2, <2>5 DEF Progress
<1>. QED BY <1>1, <1>2, <1>3

LEMMA TranslatesResponsesMove ==
    ASSUME way = "via responses", phase = "on", GuardShape(guard), NEW e, Speaks(e), NEW r, r = TranslatesResponses(e)
    PROVE  Progress(r)
<1>. DEFINE ended == guard.terminal
            u == TerminalUsage(e)
            told == e.type \in {"error", "failed"}
            fails == told \/ (e.type # "created" /\ ~ guard.created)
            created == guard.created \/ e.type = "created"
            terminal == guard.terminal \/ fails \/ e.type \in Terminals
            failed == guard.failed \/ (fails /\ ~ ended)
            g == [guard EXCEPT !.created = created, !.terminal = terminal, !.failed = failed]
            x == IF told THEN "told" ELSE ProxyError.text
            f == [ProxyError EXCEPT !.text = x]
            shown == IF ended THEN <<>> ELSE IF fails THEN <<f>> ELSE <<e>>
<1>0. /\ way \in Framing \ Guarded /\ way \notin Decoded
      /\ \A h : Ended(way, h, "on") <=> h.terminal
    BY DEF Guarded, Framing, Decoded, Translating, Ended
<1>a. f.usage = "none" /\ IsTerminal(f) BY ErrorFrame
<1>1. CASE e.type \in {"empty", "meta"} BY <1>0, <1>1, PassesOver DEF TranslatesResponses
<1>2. CASE e.type \in {"[DONE]", "malformed"}
    <2>1. r = Ends(Goes(guard, IF ended THEN <<>> ELSE <<ProxyError>>, usage), "done")
        BY <1>2 DEF TranslatesResponses
    <2>2. CASE ended
        <3>1. r.guard = guard /\ r.frames = <<>> /\ r.phase = "done" /\ r.records = TRUE
            BY <2>1, <2>2 DEF Ends, Goes
        <3>2. Silent(r) BY <1>0, <2>2, <3>1 DEF Silent, Ended
        <3>. QED BY <3>1, <3>2 DEF Progress
    <2>3. CASE ~ ended BY <1>0, <2>1, <2>3, ErrorFrame, EndsWith
    <2>. QED BY <2>2, <2>3
<1>3. CASE e.type \notin {"empty", "meta", "[DONE]", "malformed"}
    <2>. DEFINE over == TranslationOver(g, e)
    <2>1. r = IF over THEN Ends(Goes(g, shown, u), "done") ELSE Goes(g, shown, u)
        BY <1>3 DEF TranslatesResponses
    <2>2. g = [guard EXCEPT !.created = created, !.terminal = terminal, !.failed = failed] OBVIOUS
    <2>a. over <=> g.terminal /\ (~ g.failed \/ e.type \in Terminals) BY DEF TranslationOver
    <2>b. guard.created \in BOOLEAN /\ guard.terminal \in BOOLEAN /\ guard.failed \in BOOLEAN BY DEF GuardShape
    <2>c. created \in BOOLEAN /\ terminal \in BOOLEAN /\ failed \in BOOLEAN BY <2>b
    <2>. HIDE DEF g, u, f, x
    <2>3. /\ GuardShape(g) /\ (g.terminal <=> terminal) /\ (g.failed <=> failed)
        <3>. HIDE DEF created, terminal, failed
        <3>. QED BY <2>2, <2>c DEF GuardShape
    <2>. HIDE DEF over, shown
    <2>d. Outcome(r, g, shown, u, over) BY <2>1, GoesOnOrOut
    <2>4. /\ r.guard = g /\ r.frames = shown
          /\ r.phase = (IF over THEN "done" ELSE "on") /\ (r.records <=> over)
        BY <2>d DEF Outcome
    <2>5. over => g.terminal BY <2>a
    <2>6. Ended(way, r.guard, r.phase) <=> terminal BY <1>0, <2>3, <2>4, <2>5 DEF Ended
    <2>7. CASE ended
        <3>1. shown = <<>> BY <2>7 DEF shown
        <3>2. Silent(r) BY <1>0, <2>4, <2>6, <2>7, <3>1 DEF Silent
        <3>. QED BY <2>3, <2>4, <3>2 DEF Progress
    <2>8. CASE ~ ended /\ fails
        <3>1. shown = <<f>> BY <2>8 DEF shown
        <3>2. Writes(r, f) BY <1>0, <1>a, <2>4, <2>6, <2>8, <3>1 DEF Writes
        <3>. QED BY <2>3, <2>4, <3>2 DEF Progress
    <2>9. CASE ~ ended /\ ~ fails
        <3>1. shown = <<e>> BY <2>9 DEF shown
        <3>2. IsTerminal(e) <=> terminal BY <1>3, <2>9 DEF IsTerminal, Speaks, Terminals
        <3>. HIDE DEF terminal, fails
        <3>3. Writes(r, e) BY <1>0, <2>4, <2>6, <2>9, <3>1, <3>2 DEF Writes
        <3>. QED BY <2>3, <2>4, <3>3 DEF Progress
    <2>. QED BY <2>7, <2>8, <2>9
<1>. QED BY <1>1, <1>2, <1>3

LEMMA FlushedFrame == \E f : Flushed = <<f>> /\ f.usage = "none" /\ IsTerminal(f)
<1>. DEFINE m == Malformation
            f == [m EXCEPT !.type = "message_stop"]
<1>1. IsEvent(m) /\ m.usage = "none" BY DEF Malformation, IsEvent
<1>2. Flushed = IF guard.terminal THEN <<f>> ELSE <<ProxyError>> BY DEF Flushed
<1>. HIDE DEF m
<1>3. f.type = "message_stop" /\ f.usage = "none" BY <1>1 DEF IsEvent
<1>. HIDE DEF f
<1>4. IsTerminal(f) BY <1>3 DEF IsTerminal
<1>. QED BY <1>2, <1>3, <1>4, ErrorFrame

LEMMA TranslatesChatMove ==
    ASSUME way = "via chat", phase = "on", GuardShape(guard), NEW e, NEW r, r = TranslatesChat(e)
    PROVE  Progress(r)
<1>. DEFINE terminal == guard.terminal \/ e.type = "finish"
            g == [guard EXCEPT !.terminal = terminal]
            u == IF e.usage # "none" THEN e.usage ELSE usage
<1>0. /\ way \in Framing \ Guarded /\ way \notin Decoded /\ way # "via responses"
      /\ \A h, ph : Ended(way, h, ph) <=> ph = "done"
      /\ ~ Ended(way, guard, "on")
    BY DEF Guarded, Framing, Decoded, Translating, Ended
<1>1. CASE e.type = "empty" BY <1>0, <1>1, PassesOver DEF TranslatesChat
<1>2. CASE e.type = "[DONE]"
    <2>1. r = Ends(Goes(guard, Flushed, usage), "done") BY <1>2 DEF TranslatesChat
    <2>2. PICK f : Flushed = <<f>> /\ f.usage = "none" /\ IsTerminal(f) BY FlushedFrame
    <2>3. r = Ends(Goes(guard, <<f>>, usage), "done") BY <2>1, <2>2
    <2>. QED BY <1>0, <2>2, <2>3, EndsWith
<1>3. CASE e.type \in {"malformed", "error"}
    <2>1. r = Ends(Goes(guard, <<ProxyError>>, usage), "done") BY <1>3 DEF TranslatesChat
    <2>. QED BY <1>0, <2>1, ErrorFrame, EndsWith
<1>4. CASE e.type \notin {"empty", "[DONE]", "malformed", "error"}
    <2>. DEFINE shown == IF e.type = "chunk" THEN <<e>> ELSE <<>>
    <2>1. r = Goes(g, shown, u) BY <1>4 DEF TranslatesChat
    <2>2. g = [guard EXCEPT !.terminal = terminal] /\ terminal \in BOOLEAN BY DEF GuardShape
    <2>. HIDE DEF g, u, terminal, shown
    <2>3. GuardShape(g) BY <2>2 DEF GuardShape
    <2>4. r.guard = g /\ r.frames = shown /\ r.phase = "on" /\ ~ r.records
        <3>1. Outcome(r, g, shown, u, FALSE) BY <2>1, GoesOn
        <3>. QED BY <3>1 DEF Outcome
    <2>5. CASE e.type = "chunk"
        <3>1. shown = <<e>> BY <2>5 DEF shown
        <3>2. ~ IsTerminal(e) BY <2>5 DEF IsTerminal, Terminals
        <3>3. Writes(r, e) BY <1>0, <2>4, <3>1, <3>2 DEF Writes
        <3>. QED BY <2>3, <2>4, <3>3 DEF Progress
    <2>6. CASE e.type # "chunk"
        <3>1. shown = <<>> BY <2>6 DEF shown
        <3>2. Silent(r) BY <1>0, <2>4, <3>1 DEF Silent
        <3>. QED BY <2>3, <2>4, <3>2 DEF Progress
    <2>. QED BY <2>5, <2>6
<1>. QED BY <1>1, <1>2, <1>3, <1>4

\* The body is over, broken, too long or stalled.
LEMMA ClosingMoves ==
    ASSUME way \in Framing, phase = "on", GuardShape(guard), way \in Guarded => ~ guard.terminal,
           NEW how, how \in {"ended", "lost", "stalled"}, NEW r, r = Closing(how)
    PROVE  Progress(r) \/ (r.phase = "broken" /\ r.usage = usage /\ ~ r.records)
<1>1. CASE way \in Guarded
    <2>1. r = Ends(Goes(guard, FailFrames(guard), usage), "done") BY <1>1 DEF Closing, Guarded
    <2>2. PICK f : /\ FailFrames(guard) = <<f>> /\ f.type \in {"failed", "error"}
                   /\ f.usage = "none" /\ f.id = guard.id
        BY <1>1, FailFrame
    <2>. DEFINE shown == <<f>>
    <2>3. r = Ends(Goes(guard, shown, usage), "done") BY <2>1, <2>2
    <2>. HIDE DEF shown
    <2>4. Outcome(r, guard, shown, usage, TRUE) BY <2>3, GoesOut
    <2>5. r.guard = guard /\ r.frames = <<f>> /\ r.usage = usage /\ r.phase = "done" /\ r.records
        BY <2>4 DEF Outcome, shown
    <2>6. IsTerminal(f) BY <2>2 DEF IsTerminal, Terminals
    <2>7. Writes(r, f) BY <1>1, <2>2, <2>5, <2>6 DEF Writes, Ended, Guarded
    <2>. QED BY <2>5, <2>7 DEF Progress
<1>2. CASE way = "provider chat"
    <2>0. way \notin Guarded /\ way # "via responses" BY <1>2 DEF Guarded
    <2>1. CASE how = "ended"
        <3>1. r = Ends(Goes(guard, <<>>, usage), "done") BY <1>2, <2>0, <2>1 DEF Closing
        <3>2. Outcome(r, guard, <<>>, usage, TRUE) BY <3>1, GoesOut
        <3>3. Silent(r) BY <1>2, <2>0, <3>2 DEF Silent, Outcome
        <3>. QED BY <3>2, <3>3 DEF Progress, Outcome
    <2>2. CASE how = "lost"
        <3>. DEFINE q == Goes(guard, <<>>, usage)
        <3>1. r = Leaves(q, "broken") BY <1>2, <2>0, <2>2 DEF Closing
        <3>2. Outcome(q, guard, <<>>, usage, FALSE) BY GoesOn
        <3>3. q = [guard |-> guard, frames |-> <<>>, usage |-> usage, phase |-> "on", records |-> FALSE] BY DEF Goes
        <3>4. r = [q EXCEPT !.phase = "broken"] BY <3>1 DEF Leaves
        <3>. HIDE DEF q
        <3>5. r.phase = "broken" BY <3>3, <3>4
        <3>6. ~ r.records BY <3>3, <3>4
        <3>7. r.usage = usage BY <3>3, <3>4
        <3>. QED BY <3>5, <3>6, <3>7
    <2>3. CASE how = "stalled"
        <3>1. r = Ends(Goes(guard, <<ProxyError>>, usage), "done") BY <1>2, <2>0, <2>3 DEF Closing
        <3>2. way \in Framing \ Guarded /\ ~ Ended(way, guard, "on") BY <2>0 DEF Ended
        <3>. QED BY <3>1, <3>2, ErrorFrame, EndsWith
    <2>. QED BY <2>1, <2>2, <2>3
<1>3. CASE way = "provider messages"
    <2>1. r = Ends(Goes(guard, <<ProxyError>>, usage), "done") BY <1>3 DEF Closing, Guarded
    <2>2. way \in Framing \ Guarded /\ ~ Ended(way, guard, "on") BY <1>3 DEF Ended, Guarded
    <2>. QED BY <2>1, <2>2, ErrorFrame, EndsWith
<1>4. CASE way = "via responses"
    <2>0. way \in Framing \ Guarded /\ way \notin Decoded BY <1>4 DEF Guarded, Decoded
    <2>1. r = Ends(Goes(guard, IF guard.terminal THEN <<>> ELSE <<ProxyError>>, usage), "done")
        BY <1>4 DEF Closing, Guarded
    <2>2. CASE guard.terminal
        <3>1. r = Ends(Goes(guard, <<>>, usage), "done") BY <2>1, <2>2
        <3>2. Outcome(r, guard, <<>>, usage, TRUE) BY <3>1, GoesOut
        <3>3. Silent(r) BY <1>4, <2>0, <2>2, <3>2 DEF Silent, Outcome, Ended
        <3>. QED BY <3>2, <3>3 DEF Progress, Outcome
    <2>3. CASE ~ guard.terminal
        <3>1. r = Ends(Goes(guard, <<ProxyError>>, usage), "done") BY <2>1, <2>3
        <3>2. ~ Ended(way, guard, "on") BY <2>3 DEF Ended
        <3>. QED BY <2>0, <3>1, <3>2, ErrorFrame, EndsWith
    <2>. QED BY <2>2, <2>3
<1>5. CASE way = "via chat"
    <2>0. way \in Framing \ Guarded /\ way \notin Decoded /\ ~ Ended(way, guard, "on")
        BY <1>5 DEF Guarded, Decoded, Ended
    <2>1. r = Ends(Goes(guard, IF how = "ended" THEN Flushed ELSE <<ProxyError>>, usage), "done")
        BY <1>5 DEF Closing, Guarded
    <2>2. PICK f : /\ (IF how = "ended" THEN Flushed ELSE <<ProxyError>>) = <<f>>
                   /\ f.usage = "none" /\ IsTerminal(f)
        BY FlushedFrame, ErrorFrame
    <2>3. r = Ends(Goes(guard, <<f>>, usage), "done") BY <2>1, <2>2
    <2>. QED BY <2>0, <2>2, <2>3, EndsWith
<1>. QED BY <1>1, <1>2, <1>3, <1>4, <1>5 DEF Framing, Decoded, Translating

LEMMA ReactMoves ==
    ASSUME RelayInv, way \in Framing, phase = "on", NEW record
    PROVE  Progress(React(record))
<1>. DEFINE e == Event(record)
            r == React(record)
<1>1. answer \in Answers /\ StreamInv(way, client, guard, usage, "on") BY DEF RelayInv
<1>2. Speaks(e) BY <1>1, EventSpeaks
<1>3. GuardShape(guard) /\ (way \in Guarded => usage = "none" /\ ~ guard.terminal) BY <1>1 DEF StreamInv
<1>4. /\ way \in Guarded => r = Guards(e)
      /\ way = "provider chat" => r = Relays(e)
      /\ way = "provider messages" => r = RelaysMessages(e)
      /\ way = "via responses" => r = TranslatesResponses(e)
      /\ way = "via chat" => r = TranslatesChat(e)
    BY DEF React, Guarded
<1>. HIDE DEF e, r
<1>5. way \in Guarded \/ way \in {"provider chat", "provider messages", "via responses", "via chat"}
    BY DEF Framing, Decoded, Translating
<1>6. CASE way \in Guarded BY <1>2, <1>3, <1>4, <1>6, GuardsMove DEF r
<1>7. CASE way = "provider chat" BY <1>3, <1>4, <1>7, RelaysMove DEF r
<1>8. CASE way = "provider messages" BY <1>2, <1>3, <1>4, <1>8, RelaysMessagesMove DEF r
<1>9. CASE way = "via responses" BY <1>2, <1>3, <1>4, <1>9, TranslatesResponsesMove DEF r
<1>10. CASE way = "via chat" BY <1>3, <1>4, <1>10, TranslatesChatMove DEF r
<1>. QED BY <1>5, <1>6, <1>7, <1>8, <1>9, <1>10

(***************************************************************************)
(* One more frame                                                          *)
(***************************************************************************)
LEMMA EndsStep ==
    ASSUME IsSeq(client), EndsInv(way, client, guard, "on"), ~ Ended(way, guard, "on"), NEW f, NEW g, NEW ph,
           Ended(way, g, ph) <=> IsTerminal(f), NEW c, c = client \o <<f>>
    PROVE  EndsInv(way, c, g, ph)
<1>. DEFINE n == Len(client)
<1>1. /\ n \in Nat /\ Len(c) = n + 1 /\ DOMAIN client = 1 .. n /\ DOMAIN c = 1 .. n + 1
      /\ c[n + 1] = f /\ \A k \in 1 .. n : c[k] = client[k]
    BY OneMore
<1>2. n # 0 => client # <<>> BY <1>1
<1>. HIDE DEF n
<1>3. \A k \in 1 .. n : ~ IsTerminal(client[k])
    <2>. SUFFICES ASSUME NEW k \in 1 .. n, IsTerminal(client[k]) PROVE FALSE OBVIOUS
    <2>1. k = n BY <1>1 DEF EndsInv, n
    <2>2. client # <<>> BY <1>1, <1>2
    <2>. QED BY <2>1, <2>2 DEF EndsInv, n
<1>4. \A k \in 1 .. n + 1 : IsTerminal(c[k]) => k = n + 1 BY <1>1, <1>3
<1>5. c # <<>> BY <1>1
<1>. QED BY <1>1, <1>4, <1>5 DEF EndsInv

LEMMA IdsInvStep ==
    ASSUME IsSeq(client), IdsInv(client, guard), NEW f, NEW g, Identified(f, g), NEW c, c = client \o <<f>>
    PROVE  IdsInv(c, g)
<1>. DEFINE n == Len(client)
<1>1. /\ n \in Nat /\ Len(c) = n + 1 /\ DOMAIN client = 1 .. n /\ DOMAIN c = 1 .. n + 1
      /\ c[n + 1] = f /\ \A k \in 1 .. n : c[k] = client[k]
    BY OneMore
<1>. HIDE DEF n
<1>2. ASSUME NEW k \in 1 .. n + 1, c[k].type = "created"
      PROVE  g.created /\ g.id = c[k].id
    <2>1. CASE k = n + 1 BY <1>1, <1>2, <2>1 DEF Identified
    <2>2. CASE k \in 1 .. n
        <3>1. guard.created /\ guard.id = c[k].id BY <1>1, <1>2, <2>2 DEF IdsInv
        <3>. QED BY <3>1 DEF Identified
    <2>. QED BY <1>1, <2>1, <2>2
<1>3. ASSUME NEW k, Announces(c, k)
      PROVE  c[k].i \in DOMAIN g.items /\ g.items[c[k].i] = c[k].id
    <2>0. /\ k \in 1 .. n + 1 /\ c[k].type = "added" /\ c[k].i # NoIndex
          /\ \A m \in k + 1 .. n + 1 : ~ (c[m].type = "added" /\ c[m].i = c[k].i)
        BY <1>1, <1>3 DEF Announces
    <2>1. CASE k = n + 1
        <3>1. g.items = SetItem(guard.items, f.i, f.id) /\ f.i # NoIndex BY <1>1, <2>0, <2>1 DEF Identified
        <3>2. g.items = [j \in DOMAIN guard.items \cup {f.i} |-> IF j = f.i THEN f.id ELSE guard.items[j]]
            BY <3>1 DEF SetItem
        <3>. QED BY <1>1, <2>1, <3>2
    <2>2. CASE k \in 1 .. n
        <3>1. ~ (f.type = "added" /\ f.i = c[k].i) BY <1>1, <2>0, <2>2
        <3>2. \A m \in k + 1 .. n : ~ (client[m].type = "added" /\ client[m].i = client[k].i)
            BY <1>1, <2>0, <2>2
        <3>3. Announces(client, k) BY <1>1, <2>0, <2>2, <3>2 DEF Announces, n
        <3>4. c[k].i \in DOMAIN guard.items /\ guard.items[c[k].i] = c[k].id BY <1>1, <2>2, <3>3 DEF IdsInv
        <3>5. CASE f.type # "added" \/ f.i = NoIndex
            <4>1. g.items = guard.items BY <3>5 DEF Identified, SetItem
            <4>. QED BY <3>4, <4>1
        <3>6. CASE f.type = "added" /\ f.i # NoIndex
            <4>1. g.items = [j \in DOMAIN guard.items \cup {f.i} |-> IF j = f.i THEN f.id ELSE guard.items[j]]
                BY <3>6 DEF Identified, SetItem
            <4>. QED BY <3>1, <3>4, <3>6, <4>1
        <3>. QED BY <3>5, <3>6
    <2>. QED BY <1>1, <2>0, <2>1, <2>2
<1>. QED BY <1>1, <1>2, <1>3 DEF IdsInv

LEMMA IdsKeptStep ==
    ASSUME IsSeq(client), IdsInv(client, guard), IdsKept(client), NEW f,
           f.type \in Terminals => f.id = guard.id,
           f.type \in {"done", "delta"} /\ f.i \in DOMAIN guard.items => f.id = guard.items[f.i],
           NEW c, c = client \o <<f>>
    PROVE  IdsKept(c)
<1>. DEFINE n == Len(client)
<1>1. /\ n \in Nat /\ DOMAIN client = 1 .. n /\ DOMAIN c = 1 .. n + 1
      /\ c[n + 1] = f /\ \A k \in 1 .. n : c[k] = client[k]
    BY OneMore
<1>. DEFINE Same(j, k) == c[k].id = c[j].id
            Item(j, k) == /\ c[j].type = "added" /\ c[j].i # NoIndex
                          /\ c[k].type \in {"done", "delta"} /\ c[k].i = c[j].i
                          /\ \A m \in j + 1 .. k - 1 : ~ (c[m].type = "added" /\ c[m].i = c[j].i)
<1>. HIDE DEF n
<1>2. ASSUME NEW j \in 1 .. n + 1, NEW k \in 1 .. n + 1, j < k
      PROVE  /\ c[j].type = "created" /\ c[k].type \in Terminals => Same(j, k)
             /\ Item(j, k) => Same(j, k)
    <2>0. j \in 1 .. n BY <1>1, <1>2
    <2>1. CASE k = n + 1
        <3>1. c[j].type = "created" => guard.id = c[j].id BY <1>1, <2>0 DEF IdsInv
        <3>2. ASSUME Item(j, k) PROVE Same(j, k)
            <4>1. \A m \in j + 1 .. n : ~ (client[m].type = "added" /\ client[m].i = client[j].i)
                BY <1>1, <2>0, <2>1, <3>2
            <4>2. Announces(client, j) BY <1>1, <2>0, <3>2, <4>1 DEF Announces, n
            <4>3. c[j].i \in DOMAIN guard.items /\ guard.items[c[j].i] = c[j].id BY <1>1, <2>0, <4>2 DEF IdsInv
            <4>. QED BY <1>1, <2>1, <3>2, <4>3
        <3>. QED BY <1>1, <2>1, <3>1, <3>2
    <2>2. CASE k \in 1 .. n
        <3>1. c[j].type = "created" /\ c[k].type \in Terminals => Same(j, k)
            BY <1>1, <1>2, <2>0, <2>2 DEF IdsKept
        <3>2. ASSUME Item(j, k) PROVE Same(j, k)
            <4>1. \A m \in j + 1 .. k - 1 : ~ (client[m].type = "added" /\ client[m].i = client[j].i)
                BY <1>1, <2>0, <2>2, <3>2
            <4>. QED BY <1>1, <1>2, <2>0, <2>2, <3>2, <4>1 DEF IdsKept
        <3>. QED BY <3>1, <3>2
    <2>. QED BY <1>1, <2>1, <2>2
<1>3. \A j, k \in DOMAIN c : j < k =>
        /\ c[j].type = "created" /\ c[k].type \in Terminals => Same(j, k)
        /\ Item(j, k) => Same(j, k)
    <2>. HIDE DEF Item, Same
    <2>. QED BY <1>1, <1>2
<1>. QED BY <1>3, Zenon DEF IdsKept

LEMMA StreamStep ==
    ASSUME way \in Framing, StreamInv(way, client, guard, usage, "on"), NEW r, Progress(r),
           NEW c, c = client \o r.frames
    PROVE  StreamInv(way, c, r.guard, r.usage, r.phase)
<1>1. /\ IsSeq(client) /\ GuardShape(guard)
      /\ way \in Decoded => usage = LastUsage(client)
      /\ way \in Guarded => usage = "none" /\ ~ guard.terminal /\ IdsInv(client, guard) /\ IdsKept(client)
      /\ way # "provider chat" => EndsInv(way, client, guard, "on")
    BY DEF StreamInv
<1>2. r.phase \in {"on", "done"} /\ GuardShape(r.guard) BY DEF Progress
<1>3. CASE Silent(r)
    <2>1. r.frames = <<>> BY <1>3 DEF Silent
    <2>2. c = client BY <1>1, <2>1, OneMore
    <2>3. way # "provider chat" => EndsInv(way, c, r.guard, r.phase)
        BY <1>1, <1>3, <2>2 DEF EndsInv, Silent
    <2>4. way \in Guarded => r.phase = "on" /\ r.guard = guard /\ r.usage = usage
        BY <1>1, <1>2, <1>3 DEF Silent, Ended, Guarded, Decoded
    <2>5. way \in Decoded => r.usage = usage BY <1>3 DEF Silent
    <2>. QED BY <1>1, <1>2, <2>2, <2>3, <2>4, <2>5 DEF StreamInv
<1>4. ASSUME NEW f, Writes(r, f) PROVE StreamInv(way, c, r.guard, r.usage, r.phase)
    <2>1. r.frames = <<f>> BY <1>4 DEF Writes
    <2>2. c = client \o <<f>> BY <2>1
    <2>3. IsSeq(c)
        <3>1. IsSeq(client \o <<f>>) BY <1>1, OneMore
        <3>. QED BY <2>2, <3>1
    <2>4. way \in Decoded => r.usage = LastUsage(c) BY <1>1, <1>4, <2>2, LastUsageOfMore DEF Writes
    <2>5. ASSUME way # "provider chat" PROVE EndsInv(way, c, r.guard, r.phase)
        <3>1. ~ Ended(way, guard, "on") /\ (Ended(way, r.guard, r.phase) <=> IsTerminal(f))
            BY <1>4, <2>5 DEF Writes
        <3>2. EndsInv(way, client, guard, "on") BY <1>1, <2>5
        <3>. QED BY <1>1, <2>2, <3>1, <3>2, EndsStep
    <2>6. ASSUME way \in Guarded PROVE IdsKept(c)
        <3>1. IdsInv(client, guard) /\ IdsKept(client) BY <1>1, <2>6
        <3>2. /\ f.type \in Terminals => f.id = guard.id
              /\ f.type \in {"done", "delta"} /\ f.i \in DOMAIN guard.items => f.id = guard.items[f.i]
            BY <1>4, <2>6 DEF Writes
        <3>. QED BY <1>1, <2>2, <3>1, <3>2, IdsKeptStep
    <2>7. ASSUME way \in Guarded, r.phase # "done"
          PROVE  r.usage = "none" /\ ~ r.guard.terminal /\ IdsInv(c, r.guard)
        <3>1. ~ r.guard.terminal /\ r.usage = "none" /\ Identified(f, r.guard) BY <1>2, <1>4, <2>7 DEF Writes
        <3>. QED BY <1>1, <2>2, <2>7, <3>1, IdsInvStep
    <2>. QED BY <1>2, <2>3, <2>4, <2>5, <2>6, <2>7 DEF StreamInv
<1>. QED BY <1>3, <1>4 DEF Progress

(***************************************************************************)
(* The steps                                                               *)
(***************************************************************************)
\* How a handler that goes on or ends leaves things.
Settles(r) ==
    /\ r.phase \in {"on", "done", "broken", "answered"}
    /\ r.records => r.phase # "on"
    /\ r.phase = "done" => r.records
    /\ way \in Framing /\ r.phase \in {"on", "done"} =>
         StreamInv(way, client \o r.frames, r.guard, r.usage, r.phase)

LEMMA ApplyKeeps ==
    ASSUME RelayInv, phase \in {"prefetch", "on"}, NEW r, Settles(r), Apply(r),
           UNCHANGED <<answer, transport, eof>>, events' = <<>> \/ way \notin {"buffered", "relayed body"}
    PROVE  RelayInv'
<1>1. recorded = <<>> BY DEF RelayInv
<1>2. recorded' = IF r.records THEN <<usage'>> ELSE <<>>
    <2>1. recorded' = (IF r.records THEN Append(recorded, r.usage) ELSE recorded) /\ usage' = r.usage BY DEF Apply
    <2>. QED BY <1>1, <2>1, AppendToNone
<1>3. /\ client' = client \o r.frames /\ guard' = r.guard /\ usage' = r.usage /\ phase' = r.phase
      /\ way' = way
    BY DEF Apply, way
<1>4. /\ phase' \in {"on", "done", "broken", "answered"}
      /\ recorded' = <<>> \/ (recorded' = <<usage'>> /\ phase' \in {"done", "broken", "answered"})
      /\ phase' = "done" => recorded' = <<usage'>>
    BY <1>2, <1>3 DEF Settles
<1>5. way' \in Framing /\ phase' \in {"on", "done"} => StreamInv(way', client', guard', usage', phase')
    BY <1>3 DEF Settles
<1>6. /\ answer' \in Answers /\ eof' \in {"open", "ended", "lost"} /\ (transport' = "websocket" => way' = "responses")
      /\ way' \in {"buffered", "relayed body"} => events' = <<>>
    BY <1>3 DEF RelayInv
<1>. QED BY <1>4, <1>5, <1>6 DEF RelayInv

\* What a step that writes nothing to a client does: its handler stands or goes on, or the client has left.
LEMMA StandingKeeps ==
    ASSUME RelayInv, UNCHANGED <<answer, guard, client, usage, recorded>>, eof' \in {"open", "ended", "lost"},
           transport' = "websocket" => way = "responses",
           events' = events \/ events' = <<>> \/ way \notin {"buffered", "relayed body"},
           \/ phase' = phase
           \/ phase \in {"dial", "prefetch", "on"} /\ phase' = "gone"
    PROVE  RelayInv'
<1>1. way' = way BY DEF way
<1>2. /\ answer' \in Answers /\ (transport' = "websocket" => way' = "responses")
      /\ way' \in {"buffered", "relayed body"} => events' = <<>>
    BY <1>1 DEF RelayInv
<1>3. CASE phase' = phase BY <1>1, <1>2, <1>3 DEF RelayInv
<1>4. CASE phase \in {"dial", "prefetch", "on"} /\ phase' = "gone" BY <1>1, <1>2, <1>4 DEF RelayInv
<1>. QED BY <1>3, <1>4

LEMMA FreshStream ==
    ASSUME NEW w
    PROVE  StreamInv(w, <<>>, Fresh, "none", "on")
<1>1. GuardShape(Fresh) /\ ~ Fresh.terminal BY DEF GuardShape, Fresh
<1>2. IsSeq(<<>>) BY DEF IsSeq
<1>3. EndsInv(w, <<>>, Fresh, "on")
    <2>1. ~ Ended(w, Fresh, "on") BY <1>1 DEF Ended
    <2>2. \A k : k \notin DOMAIN <<>> OBVIOUS
    <2>. QED BY <2>1, <2>2 DEF EndsInv
<1>4. IdsInv(<<>>, Fresh) /\ IdsKept(<<>>) BY DEF IdsInv, IdsKept, Announces
<1>. QED BY <1>1, <1>2, <1>3, <1>4, LastUsageOfNone DEF StreamInv

\* A stream starts, or is answered with an error before it does.
LEMMA StartKeeps ==
    ASSUME RelayInv, phase \in {"dial", "prefetch"}, UNCHANGED <<answer, guard, usage, recorded, eof>>,
           transport' = "websocket" => way = "responses",
           way \in {"buffered", "relayed body"} => events' = <<>>,
           \/ phase' \in {"prefetch", "on"} /\ client' = client
           \/ phase' = "answered"
    PROVE  RelayInv'
<1>1. way' = way BY DEF way
<1>2. client = <<>> /\ usage = "none" /\ guard = Fresh /\ recorded = <<>> BY DEF RelayInv
<1>3. phase' = "on" => StreamInv(way', client', guard', usage', phase') BY <1>2, FreshStream
<1>. QED BY <1>1, <1>2, <1>3 DEF RelayInv

LEMMA TakeKeeps == ASSUME RelayInv, Take PROVE RelayInv'
<1>. DEFINE record == Head(events)
            r == React(record)
<1>1. /\ phase = "on" /\ events # <<>> /\ Apply(r) /\ UNCHANGED <<answer, transport, eof>>
    BY DEF Take, stream
<1>2. way \notin {"buffered", "relayed body"} BY <1>1 DEF RelayInv
<1>3. CASE way \in Framing
    <2>1. Progress(r) BY <1>1, <1>3, ReactMoves
    <2>2. StreamInv(way, client, guard, usage, "on") BY <1>1, <1>3 DEF RelayInv
    <2>. HIDE DEF r
    <2>3. StreamInv(way, client \o r.frames, r.guard, r.usage, r.phase) BY <1>3, <2>1, <2>2, StreamStep
    <2>4. Settles(r) BY <2>1, <2>3 DEF Settles, Progress
    <2>. QED BY <1>1, <1>2, <2>4, ApplyKeeps
<1>4. CASE way = "chat"
    <2>0. way \notin Framing BY <1>4 DEF Framing, Decoded, Translating, Guarded
    <2>1. r = Forwards(record.data) BY <1>4 DEF React, Guarded
    <2>. DEFINE shown == <<Body(record.data)>>
                u == Sniffed(record.data)
    <2>2. r = Goes(guard, shown, u) BY <2>1 DEF Forwards
    <2>. HIDE DEF r, shown, u
    <2>3. Outcome(r, guard, shown, u, FALSE) BY <1>1, <2>2, GoesOn
    <2>4. Settles(r) BY <2>0, <2>3 DEF Settles, Outcome
    <2>. QED BY <1>1, <1>2, <2>4, ApplyKeeps
<1>5. CASE way = "collected"
    <2>. DEFINE e == Event(record)
                u == TerminalUsage(e)
                q == Goes(guard, <<>>, u)
                t == [q EXCEPT !.records = u # "none"]
    <2>0. way \notin Framing BY <1>5 DEF Framing, Decoded, Translating, Guarded
    <2>1. r = Collects(e) BY <1>5 DEF React, Guarded
    <2>2. \/ \E g, shown, v : r = Goes(g, shown, v)
          \/ \E x : r = Leaves([t EXCEPT !.frames = x], "answered")
        BY <2>1 DEF Collects
    <2>3. q = [guard |-> guard, frames |-> <<>>, usage |-> u, phase |-> "on", records |-> FALSE] BY <1>1 DEF Goes
    <2>. HIDE DEF r, q, u
    <2>4. ASSUME NEW g, NEW shown, NEW v, r = Goes(g, shown, v) PROVE Settles(r)
        <3>1. Outcome(r, g, shown, v, FALSE) BY <1>1, <2>4, GoesOn
        <3>. QED BY <2>0, <3>1 DEF Settles, Outcome
    <2>5. ASSUME NEW x, r = Leaves([t EXCEPT !.frames = x], "answered") PROVE Settles(r)
        <3>1. r = [t EXCEPT !.frames = x, !.phase = "answered"] BY <2>5 DEF Leaves
        <3>2. r.phase = "answered" BY <2>3, <3>1
        <3>. QED BY <2>0, <3>2 DEF Settles
    <2>. QED BY <1>1, <1>2, <2>2, <2>4, <2>5, ApplyKeeps
<1>6. way \in Framing \cup {"chat", "collected", "buffered", "relayed body"}
    BY AnswersAssumption DEF RelayInv, way, Framing, Collecting
<1>. QED BY <1>2, <1>3, <1>4, <1>5, <1>6

\* The body is over, or stalls.
LEMMA ClosingKeeps ==
    ASSUME RelayInv, phase \in {"prefetch", "on"}, way \notin {"buffered", "relayed body"},
           NEW how, how \in {"ended", "lost", "stalled"}, how = "stalled" => way # "chat",
           Apply(Closing(how)), UNCHANGED <<answer, transport, eof>>
    PROVE  RelayInv'
<1>. DEFINE r == Closing(how)
<1>1. CASE phase = "prefetch"
    <2>. DEFINE q == Goes(guard, <<ProxyError>>, usage)
    <2>1. r = Leaves(q, "answered") BY <1>1 DEF Closing
    <2>2. r = [q EXCEPT !.phase = "answered"] BY <2>1 DEF Leaves
    <2>3. q = [guard |-> guard, frames |-> <<ProxyError>>, usage |-> usage, phase |-> phase, records |-> FALSE]
        BY DEF Goes
    <2>. HIDE DEF r, q
    <2>4. r.phase = "answered" BY <2>2, <2>3
    <2>5. Settles(r) BY <2>4 DEF Settles
    <2>. QED BY <2>5, ApplyKeeps DEF r
<1>2. CASE phase = "on" /\ way \in Framing
    <2>1. StreamInv(way, client, guard, usage, "on") BY <1>2 DEF RelayInv
    <2>2. GuardShape(guard) /\ (way \in Guarded => ~ guard.terminal) BY <2>1 DEF StreamInv
    <2>. HIDE DEF r
    <2>3. Progress(r) \/ (r.phase = "broken" /\ r.usage = usage /\ ~ r.records) BY <1>2, <2>2, ClosingMoves DEF r
    <2>4. Progress(r) => StreamInv(way, client \o r.frames, r.guard, r.usage, r.phase) BY <1>2, <2>1, StreamStep
    <2>5. Settles(r) BY <2>3, <2>4 DEF Settles, Progress
    <2>. QED BY <2>5, ApplyKeeps DEF r
<1>3. CASE phase = "on" /\ way = "chat"
    <2>0. way \notin Framing BY <1>3 DEF Framing, Decoded, Translating, Guarded
    <2>. DEFINE q == Goes(guard, <<>>, usage)
                ph == IF how = "ended" THEN "done" ELSE "broken"
    <2>1. r = Ends(q, ph) BY <1>3 DEF Closing, Guarded
    <2>2. r = [q EXCEPT !.phase = ph, !.records = TRUE] BY <2>1 DEF Ends
    <2>3. q = [guard |-> guard, frames |-> <<>>, usage |-> usage, phase |-> phase, records |-> FALSE] BY DEF Goes
    <2>. HIDE DEF r, q
    <2>4. r.phase = ph BY <2>2, <2>3
    <2>5. r.records BY <2>2, <2>3
    <2>6. Settles(r) BY <2>0, <2>4, <2>5 DEF Settles
    <2>. QED BY <2>6, ApplyKeeps DEF r
<1>4. CASE phase = "on" /\ way = "collected"
    <2>0. way \notin Framing BY <1>4 DEF Framing, Decoded, Translating, Guarded
    <2>. DEFINE q == Goes(guard, <<ProxyError>>, usage)
    <2>1. r = Leaves(q, "answered") BY <1>4 DEF Closing, Guarded
    <2>2. r = [q EXCEPT !.phase = "answered"] BY <2>1 DEF Leaves
    <2>3. q = [guard |-> guard, frames |-> <<ProxyError>>, usage |-> usage, phase |-> phase, records |-> FALSE]
        BY DEF Goes
    <2>. HIDE DEF r, q
    <2>4. r.phase = "answered" BY <2>2, <2>3
    <2>5. Settles(r) BY <2>4 DEF Settles
    <2>. QED BY <2>5, ApplyKeeps DEF r
<1>5. way \in Framing \cup {"chat", "collected", "buffered", "relayed body"}
    BY AnswersAssumption DEF RelayInv, way, Framing, Collecting
<1>. QED BY <1>1, <1>2, <1>3, <1>4, <1>5

LEMMA AnswerKeeps == ASSUME RelayInv, Answer PROVE RelayInv'
<1>1. PICK q, valid : /\ Apply([q EXCEPT !.phase = "answered", !.records = valid])
                      /\ \E shown, u : q = Goes(guard, shown, u)
    BY DEF Answer
<1>. DEFINE r == [q EXCEPT !.phase = "answered", !.records = valid]
<1>2. PICK shown, u : q = Goes(guard, shown, u) BY <1>1
<1>3. q = [guard |-> guard, frames |-> shown, usage |-> u, phase |-> phase, records |-> FALSE] BY <1>2 DEF Goes
<1>4. r.phase = "answered" BY <1>3
<1>5. phase = "on" /\ UNCHANGED <<answer, transport, eof, events>> /\ way \in {"buffered", "relayed body"}
    BY DEF Answer, stream
<1>6. events' = <<>> BY <1>5 DEF RelayInv
<1>. HIDE DEF r
<1>7. Settles(r) BY <1>4 DEF Settles
<1>8. Apply(r) BY <1>1 DEF r
<1>. QED BY <1>5, <1>6, <1>7, <1>8, ApplyKeeps

LEMMA RelayStep == ASSUME RelayInv, [Next]_vars PROVE RelayInv'
<1>1. CASE Dial
    <2>1. /\ phase = "dial" /\ UNCHANGED <<answer, guard, usage, recorded, eof, events>>
          /\ transport' = "websocket" => way = "responses"
          /\ \/ phase' \in {"prefetch", "on"} /\ client' = client
             \/ phase' = "answered"
        BY <1>1 DEF Dial
    <2>2. way \in {"buffered", "relayed body"} => events' = <<>> BY <2>1 DEF RelayInv
    <2>. QED BY <2>1, <2>2, StartKeeps
<1>2. CASE Receive
    <2>1. UNCHANGED <<answer, transport, guard, client, usage, recorded, eof, phase>> BY <1>2 DEF Receive, stream
    <2>2. way \in {"buffered", "relayed body"} => events' = <<>>
        <3>1. SUFFICES ASSUME way \in {"buffered", "relayed body"} PROVE events' = <<>> OBVIOUS
        <3>2. transport # "websocket" /\ way # "chat" BY <3>1 DEF RelayInv
        <3>. QED BY <1>2, <3>1, <3>2 DEF Receive
    <2>. QED BY <2>1, <2>2, StandingKeeps DEF RelayInv
<1>3. CASE Take BY <1>3, TakeKeeps
<1>4. CASE Peek
    <2>. DEFINE e == Event(Head(events))
    <2>1. /\ phase = "prefetch" /\ UNCHANGED <<answer, transport, guard, usage, recorded, eof>> /\ events # <<>>
        BY <1>4 DEF Peek, stream
    <2>2. \/ phase' \in {"prefetch", "on"} /\ client' = client
          \/ phase' = "answered"
        <3>1. \/ UNCHANGED <<phase, client>>
              \/ phase' = "answered"
              \/ phase' = "on" /\ UNCHANGED client
            BY <1>4 DEF Peek
        <3>. QED BY <2>1, <3>1
    <2>3. way \notin {"buffered", "relayed body"} BY <2>1 DEF RelayInv
    <2>. QED BY <2>1, <2>2, <2>3, StartKeeps DEF RelayInv
<1>5. CASE Over
    <2>. DEFINE how == IF decoder.overflowed THEN "lost" ELSE eof
    <2>1. /\ phase \in {"prefetch", "on"} /\ way \notin {"buffered", "relayed body"}
          /\ Apply(Closing(how)) /\ UNCHANGED <<answer, transport, eof>>
          /\ eof # "open" \/ decoder.overflowed
        BY <1>5 DEF Over, Open, stream
    <2>2. how \in {"ended", "lost"} BY <2>1 DEF RelayInv
    <2>. HIDE DEF how
    <2>3. how \in {"ended", "lost", "stalled"} /\ how # "stalled" BY <2>2
    <2>. QED BY <2>1, <2>3, ClosingKeeps
<1>6. CASE Answer BY <1>6, AnswerKeeps
<1>7. CASE Tick \/ Heartbeat
    <2>1. UNCHANGED <<answer, transport, guard, client, usage, recorded, eof, phase, events>>
        BY <1>7 DEF Tick, Heartbeat, stream
    <2>. QED BY <2>1, StandingKeeps DEF RelayInv
<1>8. CASE Stalled
    <2>. DEFINE how == "stalled"
    <2>1. /\ phase \in {"prefetch", "on"} /\ way \notin {"chat", "buffered", "relayed body"}
          /\ Apply(Closing(how)) /\ UNCHANGED <<answer, transport, eof>>
        BY <1>8 DEF Stalled, Waits, StallDue, Paced, Open, stream
    <2>2. how \in {"ended", "lost", "stalled"} OBVIOUS
    <2>. HIDE DEF how
    <2>. QED BY <2>1, <2>2, ClosingKeeps
<1>9. CASE Elapse
    <2>1. /\ phase = "prefetch" /\ phase' = "on"
          /\ UNCHANGED <<answer, transport, guard, client, usage, recorded, eof, events>>
        BY <1>9 DEF Elapse, WindowDue, stream
    <2>. QED BY <2>1, StartKeeps DEF RelayInv
<1>10. CASE HangUp
    <2>1. /\ phase \in {"prefetch", "on"} /\ phase' = "gone" /\ events' = <<>>
          /\ UNCHANGED <<answer, transport, guard, client, usage, recorded, eof>>
        BY <1>10 DEF HangUp, Open, stream
    <2>. QED BY <2>1, StandingKeeps DEF RelayInv
<1>11. CASE TimeOut \/ \E how \in {"ended", "lost"} : Cease(how)
    <2>1. PICK how \in {"ended", "lost"} : Cease(how) BY <1>11 DEF TimeOut
    <2>2. UNCHANGED <<answer, transport, guard, client, usage, recorded, phase>> /\ eof' = how
        BY <2>1 DEF Cease, stream
    <2>3. events' = events \/ way \notin {"buffered", "relayed body"} BY <2>1 DEF Cease
    <2>. QED BY <2>2, <2>3, StandingKeeps DEF RelayInv
<1>12. CASE UNCHANGED vars
    <2>1. UNCHANGED <<answer, transport, guard, client, usage, recorded, eof, phase, events>>
        BY <1>12 DEF vars, stream
    <2>. QED BY <2>1, StandingKeeps DEF RelayInv
<1>. QED BY <1>1, <1>2, <1>3, <1>4, <1>5, <1>6, <1>7, <1>8, <1>9, <1>10, <1>11, <1>12 DEF Next, Handling, Timers

LEMMA RelayInvInit == Init => RelayInv
<1>. SUFFICES ASSUME Init PROVE RelayInv OBVIOUS
<1>. QED BY DEF Init, RelayInv

LEMMA RelayInvAlways == Spec => []RelayInv
<1>. QED BY RelayInvInit, RelayStep, PTL DEF Spec

(***************************************************************************)
(* Time                                                                    *)
(***************************************************************************)
\* The event that a handler takes next is a mark of activity or one that it writes on, not one that it skips.
NothingSkipped == events # <<>> /\ Head(events) # Marker => Event(Head(events)).type # "empty"

\* While a stream runs, its client has not waited longer than the pacer has.
PaceInv ==
    /\ idle \in Nat /\ silence \in Nat
    /\ way \in Decoded =>
         /\ ~ guard.failed /\ silence <= Beat
         /\ phase = "dial" => idle = 0 /\ silence = 0
         /\ phase = "on" => silence <= idle

\* The guard of a Responses stream writes on every event that says something, or ends the stream.
LEMMA GuardsAnswer ==
    ASSUME phase = "on", GuardShape(guard), NEW e, NEW r, r = Guards(e)
    PROVE  /\ r.guard.failed <=> guard.failed
           /\ e.type # "empty" => r.frames # <<>> \/ r.phase = "done"
<1>. DEFINE p == Process(guard, e)
            u == TerminalUsage(e)
            q == Goes(p.guard, <<p.frame>>, u)
<1>1. CASE e.type = "empty"
    <2>1. p.verdict = "ignored" BY <1>1 DEF Process, Ignored
    <2>2. r = Goes(guard, <<>>, usage) BY <2>1 DEF Guards
    <2>3. r.guard = guard BY <2>2 DEF Goes
    <2>. QED BY <1>1, <2>3
<1>2. CASE e.type # "empty" /\ Malformed(guard, e)
    <2>1. p.verdict = "refused" BY <1>2 DEF Process, Refused
    <2>2. r = Ends(Goes(guard, FailFrames(guard), usage), "done") BY <2>1 DEF Guards
    <2>3. Outcome(r, guard, FailFrames(guard), usage, TRUE) BY <2>2, GoesOut
    <2>. QED BY <2>3 DEF Outcome
<1>3. CASE e.type # "empty" /\ ~ Malformed(guard, e)
    <2>. DEFINE over == p.guard.terminal
                shown == <<p.frame>>
    <2>a. \E g, f : p = Passes(g, f) /\ (g.failed <=> guard.failed)
        <3>. DEFINE f == Synchronized(guard, e)
                    t == [guard EXCEPT !.terminal = TRUE]
                    c == [guard EXCEPT !.created = TRUE, !.id = e.id]
                    x == SetItem(guard.items, e.i, f.id)
                    i == [guard EXCEPT !.items = x]
        <3>1. /\ e.type = "created" => p = Passes(c, e)
              /\ e.type \in Terminals => p = Passes(t, [e EXCEPT !.id = guard.id])
              /\ e.type = "error" => p = Passes(t, e)
              /\ e.type = "added" => p = Passes([guard EXCEPT !.items = SetItem(@, e.i, f.id)], f)
              /\ e.type \notin {"created", "error", "added"} \cup Terminals => p = Passes(guard, f)
            BY <1>3 DEF Process, Terminals
        <3>2. [guard EXCEPT !.items = SetItem(@, e.i, f.id)] = i OBVIOUS
        <3>3. c.failed = guard.failed /\ t.failed = guard.failed /\ i.failed = guard.failed
            <4>. HIDE DEF x
            <4>. QED BY DEF GuardShape
        <3>. HIDE DEF p, f, t, c, i
        <3>. QED BY <3>1, <3>2, <3>3
    <2>1. p.verdict = "passes" /\ (p.guard.failed <=> guard.failed) BY <2>a DEF Passes
    <2>3. r = IF over THEN Ends(Goes(p.guard, shown, u), "done") ELSE Goes(p.guard, shown, u)
        BY <2>1 DEF Guards
    <2>. HIDE DEF p, u, over, shown
    <2>4. Outcome(r, p.guard, shown, u, over) BY <2>3, GoesOnOrOut
    <2>5. shown # <<>> BY DEF shown
    <2>. QED BY <2>1, <2>4, <2>5 DEF Outcome
<1>. QED BY <1>1, <1>2, <1>3

\* So do the handlers of all decoded streams.
LEMMA DecodedAnswer ==
    ASSUME way \in Decoded, phase = "on", GuardShape(guard), NEW record, NEW r, r = React(record)
    PROVE  /\ r.guard.failed <=> guard.failed
           /\ Event(record).type # "empty" => r.frames # <<>> \/ r.phase = "done"
<1>. DEFINE e == Event(record)
            u == IF e.usage # "none" THEN e.usage ELSE usage
            shown == <<e>>
<1>0. shown # <<>> OBVIOUS
<1>1. CASE way \in Guarded
    <2>1. r = Guards(e) BY <1>1 DEF React, Guarded
    <2>. QED BY <2>1, GuardsAnswer
<1>2. CASE way = "provider chat"
    <2>. DEFINE last == e.type = "[DONE]"
    <2>1. r = Relays(e) BY <1>2 DEF React, Guarded
    <2>2. e.type = "empty" => r = Goes(guard, <<>>, usage) BY <2>1 DEF Relays
    <2>3. e.type # "empty" =>
            r = IF last THEN Ends(Goes(guard, shown, u), "done") ELSE Goes(guard, shown, u)
        BY <2>1 DEF Relays
    <2>. HIDE DEF e, u, shown, last
    <2>4. e.type = "empty" => Outcome(r, guard, <<>>, usage, FALSE) BY <2>2, GoesOn
    <2>5. e.type # "empty" => Outcome(r, guard, shown, u, last) BY <2>3, GoesOnOrOut
    <2>6. (r.guard.failed <=> guard.failed) /\ (e.type # "empty" => r.frames # <<>>)
        BY <1>0, <2>4, <2>5 DEF Outcome
    <2>. QED BY <2>6 DEF e
<1>3. CASE way = "provider messages"
    <2>. DEFINE last == e.type \in {"message_stop", "error"}
                fault == <<ProxyError>>
    <2>0. fault # <<>> OBVIOUS
    <2>1. r = RelaysMessages(e) BY <1>3 DEF React, Guarded
    <2>2. e.type = "empty" => r = Goes(guard, <<>>, usage) BY <2>1 DEF RelaysMessages
    <2>3. e.type \in {"[DONE]", "malformed"} => r = Ends(Goes(guard, fault, usage), "done")
        BY <2>1 DEF RelaysMessages
    <2>4. e.type \notin {"empty", "[DONE]", "malformed"} =>
            r = IF last THEN Ends(Goes(guard, shown, u), "done") ELSE Goes(guard, shown, u)
        BY <2>1 DEF RelaysMessages
    <2>. HIDE DEF e, u, shown, last, fault
    <2>5. e.type = "empty" => Outcome(r, guard, <<>>, usage, FALSE) BY <2>2, GoesOn
    <2>6. e.type \in {"[DONE]", "malformed"} => Outcome(r, guard, fault, usage, TRUE) BY <2>3, GoesOut
    <2>7. e.type \notin {"empty", "[DONE]", "malformed"} => Outcome(r, guard, shown, u, last)
        BY <2>4, GoesOnOrOut
    <2>8. (r.guard.failed <=> guard.failed) /\ (e.type # "empty" => r.frames # <<>>)
        BY <1>0, <2>0, <2>5, <2>6, <2>7 DEF Outcome
    <2>. QED BY <2>8 DEF e
<1>. QED BY <1>1, <1>2, <1>3 DEF Decoded

\* An event that is taken is written on, and the heartbeat starts anew; a mark of activity changes neither wait.
LEMMA PaceTake ==
    ASSUME RelayInv, PaceInv, NothingSkipped, Take, way \in Decoded
    PROVE  ~ guard'.failed /\ silence' <= Beat /\ (phase' = "on" => silence' <= idle')
<1>. DEFINE record == Head(events)
            r == React(record)
<1>1. /\ phase = "on" /\ guard' = r.guard /\ phase' = r.phase /\ idle' = IdleAfter(record)
      /\ silence' = Silence(r.frames # <<>> \/ r.phase = "answered") /\ events # <<>>
    BY DEF Take, Apply
<1>2. GuardShape(guard) BY <1>1 DEF RelayInv, StreamInv, Framing
<1>3. /\ r.guard.failed <=> guard.failed
      /\ Event(record).type # "empty" => r.frames # <<>> \/ r.phase = "done"
    BY <1>1, <1>2, DecodedAnswer
<1>4. record # Marker => Event(record).type # "empty" BY <1>1 DEF NothingSkipped
<1>5. Beat \in Nat BY Windows
<1>. HIDE DEF r, record
<1>6. silence' = 0 \/ silence' = silence BY <1>1 DEF Silence
<1>7. CASE record = Marker
    <2>1. idle' = idle BY <1>1, <1>7 DEF IdleAfter
    <2>. QED BY <1>1, <1>3, <1>5, <1>6, <2>1 DEF PaceInv
<1>8. CASE record # Marker
    <2>1. idle' = 0 BY <1>1, <1>8 DEF IdleAfter
    <2>2. r.frames # <<>> => silence' = 0 BY <1>1 DEF Silence
    <2>. QED BY <1>1, <1>3, <1>4, <1>5, <1>6, <1>8, <2>1, <2>2 DEF PaceInv
<1>. QED BY <1>7, <1>8

\* A stream that is only decoded is closed without a failed translation.
LEMMA ClosingFailsNot ==
    ASSUME way \in Decoded, NEW how \in {"ended", "lost", "stalled"}
    PROVE  Closing(how).guard = guard
<1>. DEFINE r(frames) == Goes(guard, frames, usage)
<1>1. \A f, ph : Ends(r(f), ph).guard = guard /\ Leaves(r(f), ph).guard = guard BY DEF Ends, Leaves, Goes
<1>. HIDE DEF r
<1>2. \E f, ph : Closing(how) \in {Ends(r(f), ph), Leaves(r(f), ph)} BY DEF Closing, Decoded, Guarded, r
<1>. QED BY <1>1, <1>2

\* Ticks stop when a heartbeat is due, and the heartbeat of a decoded stream is written.
LEMMA PaceStep ==
    ASSUME RelayInv, PaceInv, NothingSkipped, [Next]_vars
    PROVE  PaceInv'
<1>0. Beat \in Nat /\ 0 < Beat BY Windows
<1>1. way' = way BY DEF Next, Handling, Timers, Dial, Receive, Take, Peek, Over, Answer, Tick, Heartbeat, Stalled,
                       Elapse, TimeOut, HangUp, Cease, vars, stream, way
<1>2. idle' \in Nat /\ silence' \in Nat
    <2>1. idle' \in {0, idle, idle + 1} /\ silence' \in {0, silence, silence + 1}
        <3>1. CASE Dial \/ Receive \/ TimeOut \/ (\E how \in {"ended", "lost"} : Cease(how)) \/ UNCHANGED vars
            BY <3>1 DEF Dial, Receive, TimeOut, Cease, vars, clock
        <3>2. CASE Take BY <3>2 DEF Take, IdleAfter, Silence
        <3>3. CASE Peek
            <4>1. idle' = IdleAfter(Head(events)) /\ silence' \in {0, silence} BY <3>3 DEF Peek
            <4>. QED BY <4>1 DEF IdleAfter
        <3>4. CASE Over \/ Answer \/ Stalled \/ Elapse \/ HangUp BY <3>4 DEF Over, Answer, Stalled, Elapse, HangUp
        <3>5. CASE Tick \/ Heartbeat BY <3>5 DEF Tick, Heartbeat, Silence
        <3>. QED BY <3>1, <3>2, <3>3, <3>4, <3>5 DEF Next, Handling, Timers
    <2>2. idle \in Nat /\ silence \in Nat BY DEF PaceInv
    <2>. QED BY <2>1, <2>2
<1>. SUFFICES ASSUME way \in Decoded
              PROVE  /\ ~ guard'.failed /\ silence' <= Beat
                     /\ phase' = "dial" => idle' = 0 /\ silence' = 0
                     /\ phase' = "on" => silence' <= idle'
    BY <1>1, <1>2 DEF PaceInv
<1>3. CASE Dial
    <2>1. UNCHANGED <<guard, idle, silence>> /\ phase = "dial" BY <1>3 DEF Dial, clock
    <2>. QED BY <1>0, <2>1 DEF PaceInv
<1>4. CASE Receive \/ TimeOut \/ \E how \in {"ended", "lost"} : Cease(how)
    <2>1. UNCHANGED <<guard, idle, silence, phase>> BY <1>4 DEF Receive, TimeOut, Cease, clock
    <2>. QED BY <2>1 DEF PaceInv
<1>5. CASE Take
    <2>1. phase' # "dial"
        <3>. DEFINE r == React(Head(events))
        <3>1. phase = "on" /\ Apply(r) BY <1>5 DEF Take
        <3>2. GuardShape(guard) /\ Progress(r) BY <1>5, <3>1, ReactMoves DEF RelayInv, StreamInv, Framing
        <3>. HIDE DEF r
        <3>. QED BY <3>1, <3>2 DEF Apply, Progress
    <2>. QED BY <1>5, <2>1, PaceTake
<1>6. CASE Peek
    <2>1. /\ phase = "prefetch" /\ UNCHANGED guard
          /\ \/ phase' = "prefetch" /\ silence' = silence
             \/ phase' \in {"answered", "on"} /\ silence' = 0
        BY <1>6 DEF Peek
    <2>. QED BY <1>0, <1>2, <2>1 DEF PaceInv
<1>7. CASE Over \/ Stalled
    <2>1. PICK how \in {"ended", "lost", "stalled"} : Apply(Closing(how))
        BY <1>7 DEF Over, Stalled, RelayInv
    <2>2. guard' = guard BY <2>1, ClosingFailsNot DEF Apply
    <2>3. silence' = 0 /\ idle' = idle /\ phase \in {"prefetch", "on"} BY <1>7 DEF Over, Stalled, Waits, Open
    <2>4. phase' # "dial"
        <3>1. RelayInv' BY RelayStep
        <3>2. CASE phase = "prefetch"
            <4>1. Closing(how).phase = "answered" BY <3>2 DEF Closing, Leaves, Goes
            <4>. QED BY <2>1, <4>1 DEF Apply
        <3>3. CASE phase = "on"
            <4>1. GuardShape(guard) /\ (way \in Guarded => ~ guard.terminal)
                BY <3>3 DEF RelayInv, StreamInv, Framing
            <4>. DEFINE r == Closing(how)
            <4>2. how = "stalled" => way # "chat" BY DEF Decoded, Guarded
            <4>3. Progress(r) \/ (r.phase = "broken" /\ r.usage = usage /\ ~ r.records)
                BY <3>3, <4>1, <4>2, ClosingMoves DEF Framing
            <4>. HIDE DEF r
            <4>4. phase' = r.phase BY <2>1 DEF Apply, r
            <4>. QED BY <4>3, <4>4 DEF Progress
        <3>. QED BY <2>3, <3>2, <3>3
    <2>. QED BY <1>0, <2>2, <2>3, <2>4 DEF PaceInv
<1>8. CASE Answer BY <1>8 DEF Answer, Decoded, Guarded
<1>9. CASE Tick
    <2>1. /\ phase \in {"prefetch", "on"} /\ UNCHANGED <<guard, phase>> /\ ~ (idle >= Beat)
          /\ ~ (phase = "prefetch" /\ silence >= Beat) /\ idle' = idle + 1
          /\ silence' = IF silence > Beat THEN silence ELSE silence + 1
        BY <1>9 DEF Tick, Waits, Open, BeatDue, WindowDue, Paced, Decoded, Guarded
    <2>. QED BY <1>0, <2>1 DEF PaceInv
<1>10. CASE Heartbeat
    <2>1. /\ phase \in {"prefetch", "on"} /\ UNCHANGED <<guard, phase>> /\ idle' = 0
          /\ silence' = Silence(~ Mute)
        BY <1>10 DEF Heartbeat, Waits, Open
    <2>2. phase = "on" => ~ Mute BY DEF Mute, PaceInv, Decoded, Guarded
    <2>3. silence' \in {0, silence} /\ (phase = "on" => silence' = 0) BY <2>1, <2>2 DEF Silence
    <2>. QED BY <1>0, <2>1, <2>3 DEF PaceInv
<1>11. CASE Elapse
    <2>1. phase' = "on" /\ silence' = 0 /\ UNCHANGED <<guard, idle>> BY <1>11 DEF Elapse
    <2>. QED BY <1>0, <2>1 DEF PaceInv
<1>12. CASE HangUp
    <2>1. phase' = "gone" /\ silence' = 0 /\ UNCHANGED guard BY <1>12 DEF HangUp
    <2>. QED BY <1>0, <2>1 DEF PaceInv
<1>13. CASE UNCHANGED vars
    <2>1. UNCHANGED <<guard, idle, silence, phase>> BY <1>13 DEF vars, clock
    <2>. QED BY <2>1 DEF PaceInv
<1>. QED BY <1>3, <1>4, <1>5, <1>6, <1>7, <1>8, <1>9, <1>10, <1>11, <1>12, <1>13 DEF Next, Handling, Timers

LEMMA PaceInvInit == Init => PaceInv
<1>. SUFFICES ASSUME Init PROVE PaceInv OBVIOUS
<1>1. idle = 0 /\ silence = 0 /\ phase = "dial" /\ guard = Fresh BY DEF Init
<1>2. 0 <= Beat BY Windows
<1>. QED BY <1>1, <1>2 DEF PaceInv, Fresh

(***************************************************************************)
(* The theorems                                                            *)
(***************************************************************************)
\* For every answer, cut into chunks and ended in every way, and every order of the timers: a stream to a Responses or
\* Messages client has one terminal event, the last.
THEOREM OneEndAlways == Spec => []OneEnd
<1>1. ASSUME RelayInv PROVE OneEnd
    <2>. SUFFICES ASSUME way \in Framing \ {"provider chat"}, phase \in {"on", "done"}
                  PROVE  /\ \A k \in DOMAIN client : IsTerminal(client[k]) => k = Len(client)
                         /\ phase = "done" => client # <<>> /\ IsTerminal(Last(client))
        BY DEF OneEnd, Framing
    <2>1. EndsInv(way, client, guard, phase) BY <1>1 DEF RelayInv, StreamInv
    <2>. QED BY <2>1 DEF EndsInv, Ended, Last
<1>. QED BY <1>1, RelayInvAlways, PTL

\* The same of the ids of a Responses stream: whatever ids its upstream uses, a client sees those announced.
THEOREM IdsStayAlways == Spec => []IdsStay
<1>1. ASSUME RelayInv PROVE IdsStay
    <2>. SUFFICES ASSUME way \in Guarded, phase \in {"on", "done"} PROVE IdsKept(client)
        BY Zenon DEF IdsStay, IdsKept
    <2>1. way \in Framing BY DEF Framing, Decoded
    <2>. QED BY <1>1, <2>1 DEF RelayInv, StreamInv
<1>. QED BY <1>1, RelayInvAlways, PTL

\* And of the tokens recorded: once, at the end, and as the client was told.
THEOREM RecordedAsSentAlways == Spec => []RecordedAsSent
<1>1. ASSUME RelayInv PROVE RecordedAsSent
    <2>1. Len(<<>>) = 0 /\ \A x : Len(<<x>>) = 1 /\ <<x>>[1] = x OBVIOUS
    <2>2. /\ Len(recorded) <= 1
          /\ phase \in {"dial", "prefetch", "on", "gone"} => recorded = <<>>
          /\ phase = "done" => Len(recorded) = 1 /\ recorded[1] = usage
        <3>1. /\ recorded = <<>> \/ recorded = <<usage>>
              /\ phase \in {"dial", "prefetch", "on", "gone"} => recorded = <<>>
              /\ phase = "done" => recorded = <<usage>>
            BY <1>1 DEF RelayInv
        <3>. QED BY <2>1, <3>1
    <2>3. way \in Decoded /\ phase = "done" => usage = LastUsage(client) BY <1>1 DEF RelayInv, StreamInv, Framing
    <2>. QED BY <2>2, <2>3 DEF RecordedAsSent
<1>. QED BY <1>1, RelayInvAlways, PTL

\* Whatever an upstream sends, and wherever it stops: the client's stream has one end and steady ids, and is recorded
\* as it was sent (stream_responses_sse, stream_provider_response_events and the other loops).
THEOREM StreamSoundAlways == Spec => []StreamSound
<1>. QED BY OneEndAlways, IdsStayAlways, RecordedAsSentAlways, PTL DEF StreamSound

\* As long as a handler is given no event that it skips, whatever the upstream sends, in whatever chunks, comments alone
\* included, a client of a decoded stream hears something in every heartbeat interval.
THEOREM NeverSilentAlways == Spec /\ []NothingSkipped => []NeverSilent
<1>1. ASSUME PaceInv PROVE NeverSilent
    <2>. SUFFICES ASSUME way \in Decoded PROVE silence <= Beat BY DEF NeverSilent
    <2>. QED BY <1>1 DEF PaceInv
<1>. QED BY <1>1, PaceInvInit, PaceStep, RelayInvAlways, PTL DEF Spec
=================================================================================

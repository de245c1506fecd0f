----------------------------- MODULE ResponsesGuard -----------------------------
(***************************************************************************)
(* routes/responses/stream_guard.rs and stream_id_sync.rs: what a Responses *)
(* stream must look like for its client, and the ids it is given.         *)
(*                                                                         *)
(* An event is [type, name, id, i, text, usage]: its JSON type, whether    *)
(* the SSE name agrees, the id of its response or item, the output index   *)
(* (NoIndex when it has none), a delta or item, and its usage.             *)
(***************************************************************************)
EXTENDS Integers, Sequences, FiniteSets

NoIndex == -1
Terminals == {"completed", "failed", "incomplete"}
Made(i) == "made"   \* oi_{index}_{random}

\* The ids given to output items, by their index.
HasItem(g, i) == i \in DOMAIN g.items
ItemId(g, i) == g.items[i]
SetItem(items, i, id) ==
  IF i = NoIndex THEN items ELSE [j \in DOMAIN items \cup {i} |-> IF j = i THEN id ELSE items[j]]

\* fix_stream_ids: an item keeps the id it was added with, or is given one.
Synchronized(g, e) ==
  CASE e.type = "added" -> [e EXCEPT !.id = IF e.id = "none" THEN Made(e.i) ELSE e.id]
    [] e.type \in {"done", "delta"} /\ HasItem(g, e.i) -> [e EXCEPT !.id = ItemId(g, e.i)]
    [] OTHER -> e

Ignored == [verdict |-> "ignored"]
Refused == [verdict |-> "refused"]
Passes(g, e) == [verdict |-> "passes", guard |-> g, frame |-> e]

Malformed(g, e) ==
  \/ e.type \in {"[DONE]", "malformed"} \/ g.terminal \/ ~e.name
  \/ e.type = "created" /\ (g.created \/ e.id = "none")
  \/ e.type \in Terminals /\ (~g.created \/ e.id = "none")
  \/ e.type \notin {"created", "error", "meta"} /\ ~g.created

\* A mutant of Process: the terminal event keeps the id of its own snapshot.
ProcessAsTold(g, e) ==
  IF e.type = "empty" THEN Ignored
  ELSE IF Malformed(g, e) THEN Refused
  ELSE Passes([g EXCEPT !.created = @ \/ e.type = "created", !.terminal = e.type \in Terminals \cup {"error"}], e)

\* ResponsesStreamGuard::process.
Process(g, e) ==
  LET f == Synchronized(g, e) IN
  IF e.type = "empty" THEN Ignored
  ELSE IF Malformed(g, e) THEN Refused
  ELSE
  CASE e.type = "created"                -> Passes([g EXCEPT !.created = TRUE, !.id = e.id], e)
    [] e.type \in Terminals              -> Passes([g EXCEPT !.terminal = TRUE], [e EXCEPT !.id = g.id])
    [] e.type = "error"                  -> Passes([g EXCEPT !.terminal = TRUE], e)
    [] e.type = "added"                  -> Passes([g EXCEPT !.items = SetItem(@, e.i, f.id)], f)
    [] OTHER                             -> Passes(g, f)

\* ResponsesStreamGuard::fail: one terminal event of the proxy's own, unless there was one.
FailFrames(g) ==
  IF g.terminal THEN <<>>
  ELSE <<[type |-> IF g.created THEN "failed" ELSE "error", name |-> TRUE, id |-> g.id, i |-> NoIndex,
          text |-> "proxy", usage |-> "none"]>>
=================================================================================

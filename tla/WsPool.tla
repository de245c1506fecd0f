------------------------------- MODULE WsPool -------------------------------
(***************************************************************************)
(* The pool of upstream WebSockets for the Responses API:                  *)
(* src/src/services/responses_websocket.rs.                                *)
(*                                                                         *)
(* Pool keys do not interact, so one key is modelled: `pool` is its entry  *)
(* of WEBSOCKET_POOL and `active` its count in WEBSOCKET_ACTIVE_REQUESTS.  *)
(* Both maps have a mutex of their own, and every critical section of the  *)
(* code is one action here: what two sections of a call leave open, other  *)
(* calls may use.  A request opens at most one socket, which is therefore  *)
(* named after the request; the name also stands for the entry id.         *)
(*                                                                         *)
(* The tokio mutex around a socket is fair: `queue` holds the parties that *)
(* asked for it, its owner first.  Parties are the requests and the idle   *)
(* watcher that a request's release spawns.                                *)
(*                                                                         *)
(* The server is the environment: it answers each request frame with a     *)
(* script of frames in order, may close the socket at any time, and may    *)
(* send one frame after the terminal one.  Ping and pong frames carry no   *)
(* application data and appear only in what they let the code do.          *)
(***************************************************************************)
EXTENDS Naturals, Sequences, FiniteSets

CONSTANTS Requests,   \* the calls of create_pooled_web_socket_stream, once each
          Answers,    \* what the server may do with a request frame
          MayCancel,  \* bound: the requests whose client may go away
          MayClose,   \* bound: the sockets that the peer may close
          None        \* no socket, no request

ASSUME WsPoolAssumption ==
    /\ IsFiniteSet(Requests) /\ None \notin Requests
    /\ Answers \subseteq {"full", "error", "late"}
    /\ MayCancel \subseteq Requests /\ MayClose \subseteq Requests

VARIABLES
    pool,       \* the pooled entry: socket, request_count, armed watcher
    active,     \* active_request_count(pool_key)
    pc,         \* where each request stands
    sock,       \* handle.conn
    pooled,     \* handle.pooled
    reused,     \* handle.reused
    reusable,   \* handle.reusable
    created,    \* lifecycle.saw_created
    outcome,    \* how the call ended, or that it acquires again
    sends,      \* how often the request frame may have reached a server
    got,        \* the requests whose frames were yielded to each client
    watcher,    \* the idle watcher that each request's release spawned
    queue,      \* the lock of each socket
    todo,       \* the frames the server still has to send on each socket
    inbox,      \* the frames sent and not yet read
    closed,     \* the sockets closed by the peer
    tainted     \* sockets acquired while another request still used them

poolVars == <<pool, active>>
handleVars == <<sock, pooled, reused, reusable>>
streamVars == <<created, got>>
wireVars == <<todo, inbox, closed>>
vars == <<pool, active, pc, sock, pooled, reused, reusable, created, outcome,
          sends, got, watcher, queue, todo, inbox, closed, tainted>>

Frames == [of : Requests, kind : {"created", "completed", "error", "late"}]

\* What the server may answer to the request frame of r.
Scripts(r) ==
    LET frame(kind) == [of |-> r, kind |-> kind]
        script == [full  |-> <<frame("created"), frame("completed")>>,
                   error |-> <<frame("error")>>,
                   late  |-> <<frame("created"), frame("completed"), frame("late")>>]
    IN  {script[answer] : answer \in Answers}

Stages == {"new", "acquiring", "quiet", "busy", "reusing", "cold", "connecting",
           "waiting", "probing", "sending", "erring", "between", "polling",
           "reading", "closing", "dropping", "releasing", "ended", "leaked"}

\* The request holds a RequestHandle on its socket.
Holding(r) ==
    pc[r] \in {"reusing", "waiting", "probing", "sending", "erring", "between",
               "polling", "reading", "closing", "dropping", "releasing"}

\* The request is counted in WEBSOCKET_ACTIVE_REQUESTS.
Counted(r) ==
    pc[r] \in {"connecting", "waiting", "probing", "sending", "erring",
               "between", "polling", "reading", "closing", "dropping"}

NoEntry == [sock |-> None, count |-> 0, watch |-> None]

Request(r) == <<"request", r>>
Watcher(r) == <<"watcher", r>>
Parties == {"request", "watcher"} \X Requests

TypeOK ==
    /\ pool \in [sock : Requests \cup {None}, count : Nat, watch : Requests \cup {None}]
    /\ active \in Nat
    /\ pc \in [Requests -> Stages]
    /\ sock \in [Requests -> Requests \cup {None}]
    /\ pooled \in [Requests -> BOOLEAN]
    /\ reused \in [Requests -> BOOLEAN]
    /\ reusable \in [Requests -> BOOLEAN]
    /\ created \in [Requests -> BOOLEAN]
    /\ outcome \in [Requests -> {"open", "retry", "fallback", "failed", "finished", "gone"}]
    /\ sends \in [Requests -> Nat]
    /\ got \in [Requests -> SUBSET Requests]
    /\ watcher \in [Requests -> {"none", "spawned", "locking", "evicting", "done"}]
    /\ queue \in [Requests -> Seq(Parties)]
    /\ todo \in [Requests -> Seq(Frames)]
    /\ inbox \in [Requests -> Seq(Frames)]
    /\ closed \in SUBSET Requests
    /\ tainted \in SUBSET Requests

Init ==
    /\ pool = NoEntry
    /\ active = 0
    /\ pc = [r \in Requests |-> "new"]
    /\ sock = [r \in Requests |-> None]
    /\ pooled = [r \in Requests |-> FALSE]
    /\ reused = [r \in Requests |-> FALSE]
    /\ reusable = [r \in Requests |-> FALSE]
    /\ created = [r \in Requests |-> FALSE]
    /\ outcome = [r \in Requests |-> "open"]
    /\ sends = [r \in Requests |-> 0]
    /\ got = [r \in Requests |-> {}]
    /\ watcher = [r \in Requests |-> "none"]
    /\ queue = [s \in Requests |-> <<>>]
    /\ todo = [s \in Requests |-> <<>>]
    /\ inbox = [s \in Requests |-> <<>>]
    /\ closed = {}
    /\ tainted = {}

Goto(r, stage) == pc' = [pc EXCEPT ![r] = stage]

----------------------------------------------------------------------------
(* The lock of a socket.                                                   *)

Owns(party, s) == queue[s] # <<>> /\ Head(queue[s]) = party

Enqueue(party, s) == queue' = [queue EXCEPT ![s] = Append(@, party)]

\* A queue without the place that a party has in it: it queues once at most.
Without(party, q) ==
    LET places == {i \in 1..Len(q) : q[i] = party}
        place == CHOOSE i \in places : TRUE
    IN  IF places = {} THEN q ELSE SubSeq(q, 1, place - 1) \o SubSeq(q, place + 1, Len(q))

\* Drop of the guard, or of a lock future that still waits.
Leave(party, s) == queue' = [queue EXCEPT ![s] = Without(party, @)]

(* remove_pooled_entry: only the entry that carries this id.               *)
\* Mutant of RemovePooledEntry: the id is not compared.
RemoveAnyEntry(s) == pool' = IF s = None THEN pool ELSE NoEntry

RemovePooledEntry(s) == pool' = IF pool.sock = s THEN NoEntry ELSE pool

----------------------------------------------------------------------------
(* acquire                                                                 *)

Start(r) ==
    /\ pc[r] = "new"
    /\ Goto(r, "acquiring")
    /\ UNCHANGED <<poolVars, handleVars, streamVars, wireVars, tainted, outcome, sends, watcher, queue>>

CheckActive(r) ==
    /\ pc[r] = "acquiring"
    /\ Goto(r, IF active > 0 THEN "busy" ELSE "quiet")
    /\ UNCHANGED <<poolVars, handleVars, streamVars, wireVars, tainted, outcome, sends, watcher, queue>>

\* The count read above may have dropped to 0 since: it is only incremented.
CountUnpooled(r) ==
    /\ pc[r] = "busy"
    /\ active' = active + 1
    /\ pooled' = [pooled EXCEPT ![r] = FALSE]
    /\ reused' = [reused EXCEPT ![r] = FALSE]
    /\ Goto(r, "connecting")
    /\ UNCHANGED <<pool, sock, reusable, streamVars, wireVars, tainted, outcome, sends, watcher, queue>>

\* Taking the entry drops its idle_cancel sender: the watcher is cancelled.
TakeEntry(r) ==
    /\ pc[r] = "quiet"
    /\ pool.sock # None
    /\ pool' = [pool EXCEPT !.count = @ + 1, !.watch = None]
    /\ sock' = [sock EXCEPT ![r] = pool.sock]
    /\ pooled' = [pooled EXCEPT ![r] = TRUE]
    /\ reused' = [reused EXCEPT ![r] = TRUE]
    /\ tainted' = IF \E c \in Requests \ {r} : /\ Holding(c) /\ sock[c] = pool.sock
                                               /\ ~reusable[c]
                    THEN tainted \cup {pool.sock}
                    ELSE tainted
    /\ Goto(r, "reusing")
    /\ UNCHANGED <<active, reusable, streamVars, wireVars, outcome, sends, watcher, queue>>

FindNoEntry(r) ==
    /\ pc[r] = "quiet"
    /\ pool.sock = None
    /\ pooled' = [pooled EXCEPT ![r] = TRUE]
    /\ reused' = [reused EXCEPT ![r] = FALSE]
    /\ Goto(r, "cold")
    /\ UNCHANGED <<poolVars, sock, reusable, streamVars, wireVars, tainted, outcome, sends, watcher, queue>>

\* The increment that both pooled decisions make after the pool's mutex; a
\* reused socket is then waited for.
CountPooled(r) ==
    /\ pc[r] \in {"reusing", "cold"}
    /\ active' = active + 1
    /\ IF pc[r] = "cold"
         THEN Goto(r, "connecting") /\ UNCHANGED queue
         ELSE Goto(r, "waiting") /\ Enqueue(Request(r), sock[r])
    /\ UNCHANGED <<pool, handleVars, streamVars, wireVars, tainted, outcome, sends, watcher>>

\* open_web_socket succeeds; a pooled socket replaces whatever entry is there.
Connect(r) ==
    /\ pc[r] = "connecting"
    /\ sock' = [sock EXCEPT ![r] = r]
    /\ pool' = IF pooled[r] THEN [sock |-> r, count |-> 1, watch |-> None] ELSE pool
    /\ Enqueue(Request(r), r)
    /\ Goto(r, "waiting")
    /\ UNCHANGED <<active, pooled, reused, reusable, streamVars, wireVars, tainted, outcome, sends, watcher>>

Decremented == IF active <= 1 THEN 0 ELSE active - 1

\* The handshake fails or times out: Err, and the caller falls back to HTTP.
ConnectFails(r) ==
    /\ pc[r] = "connecting"
    /\ active' = Decremented
    /\ outcome' = [outcome EXCEPT ![r] = "fallback"]
    /\ Goto(r, "ended")
    /\ UNCHANGED <<pool, handleVars, streamVars, wireVars, tainted, sends, watcher, queue>>

\* The client goes away during the handshake: no handle exists yet whose drop
\* would give the count back.
CancelConnecting(r) ==
    /\ r \in MayCancel
    /\ pc[r] = "connecting"
    /\ outcome' = [outcome EXCEPT ![r] = "gone"]
    /\ Goto(r, "leaked")
    /\ UNCHANGED <<poolVars, handleVars, streamVars, wireVars, tainted, sends, watcher, queue>>

----------------------------------------------------------------------------
(* create_pooled_web_socket_stream_inner, up to the returned stream.       *)

Locked(r) ==
    /\ pc[r] = "waiting"
    /\ Owns(Request(r), sock[r])
    /\ Goto(r, "probing")
    /\ UNCHANGED <<poolVars, handleVars, streamVars, wireVars, tainted, outcome, sends, watcher, queue>>

\* preflight_web_socket: the pong arrives and no application frame before it.
ProbeSucceeds(r) ==
    /\ pc[r] = "probing"
    /\ sock[r] \notin closed
    /\ inbox[sock[r]] = <<>>
    /\ Goto(r, "sending")
    /\ UNCHANGED <<poolVars, handleVars, streamVars, wireVars, tainted, outcome, sends, watcher, queue>>

\* A stale frame (which is consumed), a closed socket or the timeout.  A reused
\* socket is given up for another acquire, a fresh one for HTTP.
ProbeFails(r) ==
    LET s == sock[r] IN
    /\ pc[r] = "probing"
    /\ \/ UNCHANGED inbox
       \/ /\ inbox[s] # <<>>
          /\ inbox' = [inbox EXCEPT ![s] = Tail(@)]
    /\ IF pooled[r] THEN RemovePooledEntry(s) ELSE UNCHANGED pool
    /\ outcome' = [outcome EXCEPT ![r] = IF reused[r] THEN "retry" ELSE "fallback"]
    /\ Goto(r, "closing")
    /\ UNCHANGED <<active, handleVars, streamVars, todo, closed, tainted, sends, watcher, queue>>

\* The frame goes out: the server will answer it with one of its scripts.
Deliver(r) ==
    /\ sends' = [sends EXCEPT ![r] = @ + 1]
    /\ \E script \in Scripts(r) : todo' = [todo EXCEPT ![sock[r]] = @ \o script]

\* The guard is dropped at the end of the constructor's loop.
SendSucceeds(r) ==
    /\ pc[r] = "sending"
    /\ sock[r] \notin closed
    /\ Deliver(r)
    /\ Leave(Request(r), sock[r])
    /\ Goto(r, "between")
    /\ UNCHANGED <<poolVars, handleVars, streamVars, inbox, closed, tainted, outcome, watcher>>

\* The send fails or times out; the frame may have reached the server.  The
\* error becomes the first item of an Ok stream.
SendFails(r) ==
    /\ pc[r] = "sending"
    /\ \/ sock[r] \notin closed /\ Deliver(r)
       \/ UNCHANGED <<sends, todo>>
    /\ Leave(Request(r), sock[r])
    /\ Goto(r, "erring")
    /\ UNCHANGED <<poolVars, handleVars, streamVars, inbox, closed, tainted, outcome, watcher>>

SurfaceSendError(r) ==
    /\ pc[r] = "erring"
    /\ IF pooled[r] THEN RemovePooledEntry(sock[r]) ELSE UNCHANGED pool
    /\ outcome' = [outcome EXCEPT ![r] = "failed"]
    /\ Goto(r, "dropping")
    /\ UNCHANGED <<active, handleVars, streamVars, wireVars, tainted, sends, watcher, queue>>

----------------------------------------------------------------------------
(* The returned stream.                                                    *)

FirstPoll(r) ==
    /\ pc[r] = "between"
    /\ Enqueue(Request(r), sock[r])
    /\ Goto(r, "polling")
    /\ UNCHANGED <<poolVars, handleVars, streamVars, wireVars, tainted, outcome, sends, watcher>>

StreamLocked(r) ==
    /\ pc[r] = "polling"
    /\ Owns(Request(r), sock[r])
    /\ Goto(r, "reading")
    /\ UNCHANGED <<poolVars, handleVars, streamVars, wireVars, tainted, outcome, sends, watcher, queue>>

\* ResponsesStreamGuard::process, as far as the order of frames goes.  The ids
\* of the created and the terminal frame may differ, so they say nothing.
Accepts(r, frame) ==
    CASE frame.kind = "created" -> ~created[r]
      [] frame.kind = "error"   -> TRUE
      [] OTHER                  -> created[r]

Terminal(frame) == frame.kind \in {"completed", "error"}

\* The terminal frame makes the connection reusable before it is yielded.
ReadFrame(r) ==
    LET s == sock[r]
        frame == Head(inbox[s])
    IN  /\ pc[r] = "reading"
        /\ inbox[s] # <<>>
        /\ Accepts(r, frame)
        /\ inbox' = [inbox EXCEPT ![s] = Tail(@)]
        /\ created' = [created EXCEPT ![r] = @ \/ frame.kind = "created"]
        /\ got' = [got EXCEPT ![r] = @ \cup {frame.of}]
        /\ IF Terminal(frame)
             THEN /\ reusable' = [reusable EXCEPT ![r] = TRUE]
                  /\ outcome' = [outcome EXCEPT ![r] = "finished"]
                  /\ Goto(r, "closing")
             ELSE UNCHANGED <<reusable, outcome, pc>>
        /\ UNCHANGED <<poolVars, sock, pooled, reused, todo, closed, tainted, sends, watcher, queue>>

\* An invalid frame, the end of the socket, or no frame within read_timeout.
ReadFails(r) ==
    LET s == sock[r] IN
    /\ pc[r] = "reading"
    /\ \/ /\ inbox[s] # <<>>
          /\ ~Accepts(r, Head(inbox[s]))
          /\ inbox' = [inbox EXCEPT ![s] = Tail(@)]
       \/ inbox[s] = <<>> /\ UNCHANGED inbox
    /\ IF pooled[r] THEN RemovePooledEntry(s) ELSE UNCHANGED pool
    /\ outcome' = [outcome EXCEPT ![r] = "failed"]
    /\ Goto(r, "closing")
    /\ UNCHANGED <<active, handleVars, streamVars, todo, closed, tainted, sends, watcher, queue>>

\* The client goes away at an await point of the constructor or the stream, or
\* never polls the stream.  A frame being sent may still have gone out.
Cancel(r) ==
    /\ r \in MayCancel
    /\ pc[r] \in {"waiting", "probing", "sending", "between", "polling", "reading"}
    /\ \/ UNCHANGED <<sends, todo>>
       \/ pc[r] = "sending" /\ sock[r] \notin closed /\ Deliver(r)
    /\ outcome' = [outcome EXCEPT ![r] = "gone"]
    /\ Goto(r, "closing")
    /\ UNCHANGED <<poolVars, handleVars, streamVars, inbox, closed, tainted, watcher, queue>>

----------------------------------------------------------------------------
(* The end of a call: the socket's guard is dropped, then the handle.      *)

\* Mutant of Unlock: the guard outlives the stream.
UnlockForgotten(r) ==
    /\ pc[r] = "closing"
    /\ Goto(r, "dropping")
    /\ UNCHANGED <<poolVars, handleVars, streamVars, wireVars, tainted, outcome, sends, watcher, queue>>

Unlock(r) ==
    /\ pc[r] = "closing"
    /\ Leave(Request(r), sock[r])
    /\ Goto(r, "dropping")
    /\ UNCHANGED <<poolVars, handleVars, streamVars, wireVars, tainted, outcome, sends, watcher>>

\* RequestHandle::drop gives the count back first ...
DropCount(r) ==
    /\ pc[r] = "dropping"
    /\ active' = Decremented
    /\ Goto(r, "releasing")
    /\ UNCHANGED <<pool, handleVars, streamVars, wireVars, tainted, outcome, sends, watcher, queue>>

\* Mutant of Settle: how the stream ended does not matter.
SettleAnyhow(r) ==
    IF pool.sock # sock[r]
      THEN UNCHANGED <<pool, watcher>>
      ELSE IF pool.count > 1
        THEN pool' = [pool EXCEPT !.count = @ - 1] /\ UNCHANGED watcher
        ELSE /\ pool' = [pool EXCEPT !.count = @ - 1, !.watch = r]
             /\ watcher' = [watcher EXCEPT ![r] = "spawned"]

\* ... and then settles the entry: it is removed unless the stream ended well,
\* and the last request on it arms the idle watcher.
Settle(r) ==
    IF ~reusable[r]
      THEN RemovePooledEntry(sock[r]) /\ UNCHANGED watcher
      ELSE IF pool.sock # sock[r]
        THEN UNCHANGED <<pool, watcher>>
        ELSE IF pool.count > 1
          THEN pool' = [pool EXCEPT !.count = @ - 1] /\ UNCHANGED watcher
          ELSE /\ pool' = [pool EXCEPT !.count = @ - 1, !.watch = r]
               /\ watcher' = [watcher EXCEPT ![r] = "spawned"]

DropEntry(r) ==
    /\ pc[r] = "releasing"
    /\ IF pooled[r] THEN Settle(r) ELSE UNCHANGED <<pool, watcher>>
    /\ IF outcome[r] = "retry"
         THEN Goto(r, "acquiring") /\ outcome' = [outcome EXCEPT ![r] = "open"]
         ELSE Goto(r, "ended") /\ UNCHANGED outcome
    /\ UNCHANGED <<active, handleVars, streamVars, wireVars, tainted, sends, queue>>

----------------------------------------------------------------------------
(* watch_idle_connection, spawned by the release of r.                     *)

\* The sender is gone: another request took the entry, or it was removed.
Cancelled(r) == pool.sock # sock[r] \/ pool.watch # r

WatchStart(r) ==
    /\ watcher[r] = "spawned"
    /\ Enqueue(Watcher(r), sock[r])
    /\ watcher' = [watcher EXCEPT ![r] = "locking"]
    /\ UNCHANGED <<poolVars, pc, handleVars, streamVars, wireVars, tainted, outcome, sends>>

Watching(r) == watcher[r] = "locking" /\ Owns(Watcher(r), sock[r])

WatchCancelled(r) ==
    /\ Watching(r)
    /\ Cancelled(r)
    /\ Leave(Watcher(r), sock[r])
    /\ watcher' = [watcher EXCEPT ![r] = "done"]
    /\ UNCHANGED <<poolVars, pc, handleVars, streamVars, wireVars, tainted, outcome, sends>>

\* The arms of the select are polled in any order, so a watcher that has been
\* cancelled may still take one of these.
WatchIdle(r) ==
    /\ Watching(r)
    /\ Leave(Watcher(r), sock[r])
    /\ watcher' = [watcher EXCEPT ![r] = "evicting"]
    /\ UNCHANGED <<poolVars, pc, handleVars, streamVars, wireVars, tainted, outcome, sends>>

WatchRead(r) ==
    LET s == sock[r] IN
    /\ Watching(r)
    /\ \/ /\ inbox[s] # <<>>
          /\ inbox' = [inbox EXCEPT ![s] = Tail(@)]
       \/ inbox[s] = <<>> /\ s \in closed /\ UNCHANGED inbox
    /\ Leave(Watcher(r), s)
    /\ watcher' = [watcher EXCEPT ![r] = "evicting"]
    /\ UNCHANGED <<poolVars, pc, handleVars, streamVars, todo, closed, tainted, outcome, sends>>

\* After a ping or a pong the guard is dropped and the mutex asked for again.
WatchPing(r) ==
    LET s == sock[r] IN
    /\ Watching(r)
    /\ Len(queue[s]) > 1
    /\ queue' = [queue EXCEPT ![s] = Append(Tail(@), Watcher(r))]
    /\ UNCHANGED <<poolVars, pc, handleVars, streamVars, wireVars, tainted, outcome, sends, watcher>>

WatchEvict(r) ==
    /\ watcher[r] = "evicting"
    /\ RemovePooledEntry(sock[r])
    /\ watcher' = [watcher EXCEPT ![r] = "done"]
    /\ UNCHANGED <<active, pc, handleVars, streamVars, wireVars, tainted, outcome, sends, queue>>

----------------------------------------------------------------------------
(* The server.                                                             *)

\* Somebody still holds an Arc of the connection.
Open(s) ==
    /\ s \notin closed
    /\ \/ pool.sock = s
       \/ \E r \in Requests : /\ sock[r] = s
                              /\ Holding(r) \/ watcher[r] \in {"spawned", "locking"}

ServerSends(s) ==
    /\ Open(s)
    /\ todo[s] # <<>>
    /\ inbox' = [inbox EXCEPT ![s] = Append(@, Head(todo[s]))]
    /\ todo' = [todo EXCEPT ![s] = Tail(@)]
    /\ UNCHANGED <<poolVars, pc, handleVars, streamVars, closed, tainted, outcome, sends, watcher, queue>>

ServerCloses(s) ==
    /\ s \in MayClose
    /\ Open(s)
    /\ closed' = closed \cup {s}
    /\ todo' = [todo EXCEPT ![s] = <<>>]
    /\ UNCHANGED <<poolVars, pc, handleVars, streamVars, inbox, tainted, outcome, sends, watcher, queue>>

----------------------------------------------------------------------------
\* What a call does by itself once it has begun, timeouts included.
RequestStep(r) ==
    \/ CheckActive(r) \/ CountUnpooled(r) \/ TakeEntry(r) \/ FindNoEntry(r)
    \/ CountPooled(r) \/ Connect(r) \/ ConnectFails(r)
    \/ Locked(r) \/ ProbeSucceeds(r) \/ ProbeFails(r)
    \/ SendSucceeds(r) \/ SendFails(r) \/ SurfaceSendError(r)
    \/ FirstPoll(r) \/ StreamLocked(r) \/ ReadFrame(r) \/ ReadFails(r)
    \/ Unlock(r) \/ DropCount(r) \/ DropEntry(r)

WatchStep(r) ==
    \/ WatchStart(r) \/ WatchCancelled(r) \/ WatchIdle(r) \/ WatchRead(r) \/ WatchEvict(r)

Next ==
    \E r \in Requests :
        \/ Start(r) \/ RequestStep(r) \/ CancelConnecting(r) \/ Cancel(r)
        \/ WatchStep(r) \/ WatchPing(r)
        \/ ServerSends(r) \/ ServerCloses(r)

Spec == Init /\ [][Next]_vars

\* Every await of a call is bounded by a timeout and its client keeps polling
\* it.  A watcher's timer has one deadline for all turns of its loop, so pings
\* cannot put the other arms off for ever: strong fairness.  Clients and the
\* server owe nothing.
FairSpec ==
    /\ Spec
    /\ \A r \in Requests : WF_vars(RequestStep(r)) /\ SF_vars(WatchStep(r))

----------------------------------------------------------------------------
(* Properties                                                              *)

\* The active count is the number of calls between their increment and their
\* drop, plus one for each handshake whose client went away: no other path,
\* neither a retry nor an error, gains or loses a count.
ActiveCounted ==
    active = Cardinality({r \in Requests : Counted(r) \/ pc[r] = "leaked"})

\* request_count of the entry is the number of handles on its socket, so the
\* entry is idle exactly when nobody uses it.
EntryCounted ==
    pool.sock # None =>
        pool.count = Cardinality({r \in Requests : Holding(r) /\ sock[r] = pool.sock})

\* An idle entry is watched by a task that will close it: it cannot outlive the
\* idle window unnoticed, nor be closed while somebody uses it by the task of
\* an earlier release.
IdleWatched ==
    pool.sock # None =>
        IF pool.count = 0
          THEN /\ pool.watch # None
               /\ sock[pool.watch] = pool.sock
               /\ watcher[pool.watch] \in {"spawned", "locking", "evicting"}
          ELSE pool.watch = None

\* The counters and the entry that the two maps keep agree with who uses what.
PoolConsistent == TypeOK /\ ActiveCounted /\ EntryCounted /\ IdleWatched

\* A connection handed from one request to the next never carries frames of
\* the earlier one into the later stream, unless the hand-over happened while
\* the earlier request still used it.
OwnFrames ==
    \A r \in Requests : sock[r] \notin tainted => got[r] \subseteq {r}

\* The upstream executes a call at most once: whatever is reopened or falls
\* back to HTTP was not sent before ("Every returned Err is therefore known to
\* precede the application request frame", responses_websocket.rs:609-613).
AtMostOnce ==
    \A r \in Requests : sends[r] + (IF outcome[r] = "fallback" THEN 1 ELSE 0) <= 1

\* What a caller gets is the one answer to its one request.
OwnAnswer == OwnFrames /\ AtMostOnce

\* The pool and the calls that share it stay sound.
PoolSound == PoolConsistent /\ OwnAnswer

\* The entry is only ever removed by a party that used its socket, or replaced
\* by a new connection: a stale id evicts nothing.
EvictsOwnEntry ==
    [][pool.sock # None /\ pool'.sock = None =>
          \E r \in Requests : /\ sock[r] = pool.sock
                              /\ <<pc[r], watcher[r]>>' # <<pc[r], watcher[r]>>]_vars

\* Every call ends, whatever the server and the other calls do, and a client
\* that stays never waits on a lock for ever; and an idle pooled connection is
\* closed or used again.
CallsAndIdleEnd ==
    /\ \A r \in Requests : pc[r] = "acquiring" ~> pc[r] \in {"ended", "leaked"}
    /\ \A s \in Requests :
           pool.sock = s /\ pool.count = 0 ~> pool.sock # s \/ pool.count > 0
============================================================================

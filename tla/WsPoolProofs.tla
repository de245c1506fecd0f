---------------------------- MODULE WsPoolProofs ----------------------------
(***************************************************************************)
(* Proofs about the WebSocket pool, for all requests, answers, peers that  *)
(* close and clients that go away.  The counts are right because a handle  *)
(* is counted exactly while it lives; frames are a call's own because a    *)
(* socket that was not handed over too early has one user, and only late   *)
(* frames outlive the call they belong to.                                 *)
(***************************************************************************)
EXTENDS WsPool, FiniteSetTheorems, SequenceTheorems, TLAPS

(***************************************************************************)
(* The inductive invariant, in parts.                                      *)
(***************************************************************************)

\* Where a call stands when it has no socket, when it has sent nothing, and when
\* it has read nothing.
Acquiring == {"new", "acquiring", "quiet", "busy", "cold", "connecting"}
Unsent == Acquiring \cup {"reusing", "waiting", "probing", "sending"}
Unread == Unsent \cup {"erring", "between", "polling"}
Ending == {"closing", "dropping", "releasing"}

\* The course of a call: it is sent once, and sent nowhere before it is tried
\* again or left to HTTP; only a call that ended well leaves its socket reusable.
Course ==
    \A r \in Requests :
        /\ sends[r] <= 1 /\ (pc[r] \in Unsent => sends[r] = 0)
        /\ outcome[r] \in {"retry", "fallback"} => sends[r] = 0
        /\ outcome[r] # "open" => pc[r] \in Ending \cup {"ended", "leaked"}
        /\ outcome[r] = "retry" => reused[r] /\ pc[r] \in Ending /\ got[r] = {} /\ ~created[r]
        /\ pc[r] \in Unread => got[r] = {} /\ ~created[r]
        /\ reusable[r] => outcome[r] = "finished" /\ pc[r] \in Ending \cup {"ended"}
        /\ watcher[r] # "none" => pc[r] = "ended"

\* Whose socket it is: a call that has not connected has none of its own, nor has
\* one that uses another's.
Unopened(r) == pc[r] \in Acquiring \/ (Holding(r) /\ reused[r])
SocketsOfCalls ==
    \A r \in Requests :
        /\ Unopened(r) => /\ pool.sock # r /\ \A q \in Requests : sock[q] # r
                          /\ inbox[r] = <<>> /\ todo[r] = <<>>
        /\ Holding(r) => sock[r] # None /\ (~reused[r] => sock[r] = r) /\ (~pooled[r] => ~reused[r])
        /\ pc[r] \in {"cold", "connecting"} => ~reused[r]
        /\ pool.sock = r => pooled[r]

\* What is on a socket, read or not.
Wire(s) == inbox[s] \o todo[s]
AllLate(s) == \A i \in 1..Len(Wire(s)) : Wire(s)[i].kind = "late"

\* What the user of a socket may find there: late frames of others, until it has
\* read a frame of its own, and nothing but late frames after a terminal one.
OwnOrLate(r, s) ==
    \A i \in 1..Len(Wire(s)) :
        /\ Wire(s)[i].of # r => Wire(s)[i].kind = "late" /\ ~created[r]
        /\ \A j \in 1..Len(Wire(s)) : i < j =>
               /\ Wire(s)[i].kind # "late" => Wire(s)[j].of = r
               /\ Terminal(Wire(s)[i]) => Wire(s)[j].kind = "late"

\* A socket that was never handed over too early has one user at most, and
\* between two users only late frames.
Uses(r, s) == Holding(r) /\ sock[r] = s /\ ~reusable[r]
HandedOver ==
    \A s \in Requests \ tainted :
        /\ \A q, r \in Requests : Uses(q, s) /\ Uses(r, s) => q = r
        /\ pool.sock = s /\ (\A r \in Requests : ~Uses(r, s)) => AllLate(s)
        /\ \A r \in Requests : Uses(r, s) => OwnOrLate(r, s) /\ (pc[r] \in Unsent => AllLate(s))

IInv == PoolConsistent /\ OwnFrames /\ Course /\ SocketsOfCalls /\ HandedOver

----------------------------------------------------------------------------
(* The types of what the actions build.                                    *)

LEMMA WithoutType ==
    ASSUME NEW party \in Parties, NEW q \in Seq(Parties)
    PROVE  Without(party, q) \in Seq(Parties)
<1>. DEFINE places == {i \in 1..Len(q) : q[i] = party}
            place == CHOOSE i \in places : TRUE
<1>1. CASE places = {} BY <1>1 DEF Without
<1>2. CASE places # {}
    <2>1. place \in 1..Len(q) BY <1>2
    <2>2. \A i \in 1..Len(q) : q[i] \in Parties OBVIOUS
    <2>. HIDE DEF place
    <2>3. /\ SubSeq(q, 1, place - 1) \in Seq(Parties)
          /\ SubSeq(q, place + 1, Len(q)) \in Seq(Parties)
        BY <2>1, <2>2, SubSeqProperties
    <2>4. SubSeq(q, 1, place - 1) \o SubSeq(q, place + 1, Len(q)) \in Seq(Parties) BY <2>3
    <2>5. Without(party, q) = SubSeq(q, 1, place - 1) \o SubSeq(q, place + 1, Len(q))
        BY <1>2 DEF Without, place
    <2>. QED BY <2>4, <2>5
<1>. QED BY <1>1, <1>2

\* The server answers r with frames for r, and only late ones after the last.
LEMMA ScriptsOf ==
    ASSUME NEW r \in Requests, NEW script \in Scripts(r)
    PROVE  /\ script \in Seq(Frames)
           /\ \A i \in 1..Len(script) :
                /\ script[i].of = r
                /\ \A j \in 1..Len(script) : i < j /\ Terminal(script[i]) => script[j].kind = "late"
<1>. DEFINE frame(kind) == [of |-> r, kind |-> kind]
<1>1. \/ script = <<frame("created"), frame("completed")>>
      \/ script = <<frame("error")>>
      \/ script = <<frame("created"), frame("completed"), frame("late")>>
    BY WsPoolAssumption DEF Scripts
<1>2. /\ frame("created") \in Frames /\ frame("completed") \in Frames
      /\ frame("error") \in Frames /\ frame("late") \in Frames
    BY DEF Frames
<1>. HIDE DEF frame
<1>3. \A kind : frame(kind).of = r /\ frame(kind).kind = kind BY DEF frame
<1>4. CASE script = <<frame("created"), frame("completed")>> BY <1>2, <1>3, <1>4 DEF Terminal
<1>5. CASE script = <<frame("error")>> BY <1>2, <1>3, <1>5 DEF Terminal
<1>6. CASE script = <<frame("created"), frame("completed"), frame("late")>> BY <1>2, <1>3, <1>6 DEF Terminal
<1>. QED BY <1>1, <1>4, <1>5, <1>6

LEMMA QueueTypes ==
    ASSUME NEW f \in [Requests -> Seq(Parties)], NEW s, NEW party \in Parties
    PROVE  /\ [f EXCEPT ![s] = Append(@, party)] \in [Requests -> Seq(Parties)]
           /\ [f EXCEPT ![s] = Without(party, @)] \in [Requests -> Seq(Parties)]
           /\ s \in Requests /\ f[s] # <<>> =>
                  [f EXCEPT ![s] = Append(Tail(@), party)] \in [Requests -> Seq(Parties)]
<1>1. \A q \in Requests : f[q] \in Seq(Parties) /\ Without(party, f[q]) \in Seq(Parties) BY WithoutType
<1>2. \A q \in Requests : Append(f[q], party) \in Seq(Parties) OBVIOUS
<1>3. \A q \in Requests : f[q] # <<>> => Append(Tail(f[q]), party) \in Seq(Parties) OBVIOUS
<1>. QED BY <1>1, <1>2, <1>3

LEMMA FrameTypes ==
    ASSUME NEW f \in [Requests -> Seq(Frames)], NEW s \in Requests
    PROVE  /\ f[s] # <<>> => /\ Head(f[s]) \in Frames
                             /\ [f EXCEPT ![s] = Tail(@)] \in [Requests -> Seq(Frames)]
           /\ \A script \in Seq(Frames) : [f EXCEPT ![s] = @ \o script] \in [Requests -> Seq(Frames)]
           /\ \A frame \in Frames : [f EXCEPT ![s] = Append(@, frame)] \in [Requests -> Seq(Frames)]
OBVIOUS

LEMMA SocketHeld ==
    ASSUME TypeOK, SocketsOfCalls, NEW r \in Requests, Holding(r)
    PROVE  sock[r] \in Requests
BY DEF TypeOK, SocketsOfCalls

LEMMA Apart == \A r \in Requests : r # None
BY WsPoolAssumption

LEMMA PartiesOf == \A r \in Requests : Request(r) \in Parties /\ Watcher(r) \in Parties
BY DEF Request, Watcher, Parties

LEMMA InvInit == Init => IInv
<1>. SUFFICES ASSUME Init PROVE IInv OBVIOUS
<1>. USE Apart DEF Init, NoEntry
<1>1. TypeOK BY DEF TypeOK, Stages
<1>2. ActiveCounted
    <2>1. {r \in Requests : Counted(r) \/ pc[r] = "leaked"} = {} BY DEF Counted
    <2>. QED BY <2>1, FS_EmptySet DEF ActiveCounted
<1>3. EntryCounted /\ IdleWatched BY DEF EntryCounted, IdleWatched
<1>4. OwnFrames BY DEF OwnFrames
<1>5. Course BY DEF Course, Unsent, Unread, Acquiring, Ending
<1>6. SocketsOfCalls BY DEF SocketsOfCalls, Unopened, Holding, Acquiring
<1>7. HandedOver BY DEF HandedOver, Uses, Holding, AllLate
<1>. QED BY <1>1, <1>2, <1>3, <1>4, <1>5, <1>6, <1>7 DEF IInv, PoolConsistent

LEMMA DeliverTypes ==
    ASSUME TypeOK, SocketsOfCalls, NEW r \in Requests, Holding(r), Deliver(r)
    PROVE  sends' \in [Requests -> Nat] /\ todo' \in [Requests -> Seq(Frames)]
<1>0. sends \in [Requests -> Nat] BY DEF TypeOK
<1>1. sends' \in [Requests -> Nat] BY <1>0 DEF Deliver
<1>2. PICK script \in Scripts(r) : todo' = [todo EXCEPT ![sock[r]] = @ \o script] BY DEF Deliver
<1>3. script \in Seq(Frames) BY ScriptsOf
<1>. QED BY <1>1, <1>2, <1>3, SocketHeld, FrameTypes DEF TypeOK

PoolType == [sock : Requests \cup {None}, count : Nat, watch : Requests \cup {None}]

LEMMA PoolTypes ==
    ASSUME TypeOK
    PROVE  /\ NoEntry \in PoolType
           /\ \A n \in Nat, w \in Requests \cup {None} : [pool EXCEPT !.count = n, !.watch = w] \in PoolType
           /\ \A n \in Nat : [pool EXCEPT !.count = n] \in PoolType
BY DEF TypeOK, PoolType, NoEntry

LEMMA RemovedTypes ==
    ASSUME TypeOK, NEW s, RemovePooledEntry(s)
    PROVE  pool' \in PoolType
<1>1. pool \in PoolType BY DEF TypeOK, PoolType
<1>. QED BY <1>1, PoolTypes DEF RemovePooledEntry

LEMMA SettleTypes ==
    ASSUME TypeOK, NEW r \in Requests, pool.sock = sock[r] => pool.count > 0, Settle(r)
    PROVE  /\ pool' \in PoolType
           /\ watcher' \in [Requests -> {"none", "spawned", "locking", "evicting", "done"}]
<1>1. pool \in PoolType /\ pool.count \in Nat BY DEF TypeOK, PoolType
<1>2. pool.count > 0 => pool.count - 1 \in Nat BY <1>1
<1>3. CASE RemovePooledEntry(sock[r]) /\ UNCHANGED watcher BY <1>3, RemovedTypes DEF TypeOK
<1>4. CASE UNCHANGED <<pool, watcher>> BY <1>1, <1>4 DEF TypeOK
<1>5. CASE pool.sock = sock[r] /\ pool' = [pool EXCEPT !.count = @ - 1] /\ UNCHANGED watcher
    BY <1>1, <1>2, <1>5, PoolTypes DEF TypeOK
<1>6. CASE /\ pool.sock = sock[r] /\ pool' = [pool EXCEPT !.count = @ - 1, !.watch = r]
           /\ watcher' = [watcher EXCEPT ![r] = "spawned"]
    BY <1>1, <1>2, <1>6, PoolTypes DEF TypeOK
<1>. QED BY <1>3, <1>4, <1>5, <1>6 DEF Settle

LEMMA TailTypes ==
    ASSUME TypeOK, NEW s \in Requests, inbox[s] # <<>>, inbox' = [inbox EXCEPT ![s] = Tail(@)]
    PROVE  inbox' \in [Requests -> Seq(Frames)]
BY FrameTypes DEF TypeOK

\* The handles on the pooled socket.
Handles(s) == {r \in Requests : Holding(r) /\ sock[r] = s}

LEMMA CountPositive ==
    ASSUME TypeOK, EntryCounted, SocketsOfCalls, NEW r \in Requests, Holding(r), pool.sock = sock[r]
    PROVE  pool.count > 0
<1>1. IsFiniteSet(Handles(pool.sock)) BY WsPoolAssumption, FS_Subset DEF Handles
<1>2. r \in Handles(pool.sock) BY DEF Handles
<1>3. Cardinality(Handles(pool.sock)) \in Nat /\ Cardinality(Handles(pool.sock)) # 0
    BY <1>1, <1>2, FS_CardinalityType, FS_EmptySet
<1>4. pool.count = Cardinality(Handles(pool.sock))
    BY SocketHeld, Apart DEF EntryCounted, Handles
<1>. QED BY <1>3, <1>4

LEMMA TypeStep == TypeOK /\ EntryCounted /\ SocketsOfCalls /\ [Next]_vars => TypeOK'
<1>. SUFFICES ASSUME TypeOK, EntryCounted, SocketsOfCalls, [Next]_vars PROVE TypeOK' OBVIOUS
<1>. USE Apart
     DEF TypeOK, Goto, Enqueue, Leave, Stages, Decremented,
         poolVars, handleVars, streamVars, wireVars
<1>1. ASSUME NEW r \in Requests, Start(r) PROVE TypeOK' BY <1>1 DEF Start
<1>2. ASSUME NEW r \in Requests, CancelConnecting(r) PROVE TypeOK' BY <1>2 DEF CancelConnecting
<1>3. ASSUME NEW r \in Requests, Cancel(r) PROVE TypeOK'
    <2>1. Holding(r) BY <1>3 DEF Cancel, Holding
    <2>2. CASE Deliver(r)
        <3>1. sends' \in [Requests -> Nat] /\ todo' \in [Requests -> Seq(Frames)] BY <2>1, <2>2, DeliverTypes
        <3>. QED BY <3>1, <1>3 DEF Cancel
    <2>3. CASE UNCHANGED <<sends, todo>> BY <2>3, <1>3 DEF Cancel
    <2>. QED BY <2>2, <2>3, <1>3 DEF Cancel
<1>4. ASSUME NEW r \in Requests, WatchPing(r) PROVE TypeOK'
    <2>1. queue[sock[r]] # <<>> BY <1>4, PartiesOf, QueueTypes DEF WatchPing, Watching, Owns
    <2>2. queue' \in [Requests -> Seq(Parties)]
        <3>1. CASE sock[r] \in Requests BY <2>1, <3>1, <1>4, PartiesOf, QueueTypes DEF WatchPing
        <3>2. CASE sock[r] = None BY <3>2, <1>4, PartiesOf, QueueTypes DEF WatchPing
        <3>. QED BY <3>1, <3>2
    <2>. QED BY <2>2, <1>4, PartiesOf, QueueTypes DEF WatchPing
<1>5. ASSUME NEW r \in Requests, ServerSends(r) PROVE TypeOK' BY <1>5, FrameTypes DEF ServerSends
<1>6. ASSUME NEW r \in Requests, ServerCloses(r) PROVE TypeOK' BY SMTT(20), <1>6, FrameTypes DEF ServerCloses
<1>7. ASSUME NEW r \in Requests, CheckActive(r) PROVE TypeOK' BY <1>7 DEF CheckActive
<1>8. ASSUME NEW r \in Requests, CountUnpooled(r) PROVE TypeOK' BY <1>8 DEF CountUnpooled
<1>9. ASSUME NEW r \in Requests, TakeEntry(r) PROVE TypeOK'
    <2>1. pool.count + 1 \in Nat /\ pool.sock \in Requests BY <1>9 DEF TakeEntry
    <2>2. pool' \in PoolType BY <2>1, <1>9, PoolTypes DEF TakeEntry
    <2>. QED BY <2>1, <2>2, <1>9 DEF TakeEntry, PoolType
<1>10. ASSUME NEW r \in Requests, FindNoEntry(r) PROVE TypeOK' BY <1>10 DEF FindNoEntry
<1>11. ASSUME NEW r \in Requests, CountPooled(r) PROVE TypeOK'
    <2>1. CASE pc[r] = "cold"
        <3>1. queue' = queue /\ pc' = [pc EXCEPT ![r] = "connecting"] BY <2>1, <1>11 DEF CountPooled
        <3>. QED BY SMTT(20), <3>1, <1>11 DEF CountPooled
    <2>2. CASE pc[r] = "reusing"
        <3>0. pc[r] # "cold" BY <2>2
        <3>1. /\ pc' = [pc EXCEPT ![r] = "waiting"]
              /\ queue' = [queue EXCEPT ![sock[r]] = Append(@, Request(r))]
            BY <3>0, <1>11 DEF CountPooled
        <3>2. queue' \in [Requests -> Seq(Parties)] BY <3>1, PartiesOf, QueueTypes
        <3>3. pc' \in [Requests -> Stages] BY <3>1
        <3>4. /\ active' \in Nat
              /\ UNCHANGED <<pool, handleVars, streamVars, wireVars, tainted, outcome, sends, watcher>>
            BY <1>11 DEF CountPooled
        <3>. QED BY <3>2, <3>3, <3>4
    <2>. QED BY <2>1, <2>2, <1>11, PartiesOf, QueueTypes DEF CountPooled
<1>12. ASSUME NEW r \in Requests, Connect(r) PROVE TypeOK' BY <1>12, PartiesOf, QueueTypes DEF Connect
<1>13. ASSUME NEW r \in Requests, ConnectFails(r) PROVE TypeOK' BY SMTT(20), <1>13 DEF ConnectFails
<1>14. ASSUME NEW r \in Requests, Locked(r) PROVE TypeOK' BY <1>14 DEF Locked
<1>15. ASSUME NEW r \in Requests, ProbeSucceeds(r) PROVE TypeOK' BY <1>15 DEF ProbeSucceeds
<1>16. ASSUME NEW r \in Requests, ProbeFails(r) PROVE TypeOK'
    <2>1. sock[r] \in Requests BY <1>16, SocketHeld, FrameTypes DEF ProbeFails, Holding
    <2>2. inbox' \in [Requests -> Seq(Frames)]
        <3>1. CASE UNCHANGED inbox BY <3>1
        <3>2. CASE inbox[sock[r]] # <<>> /\ inbox' = [inbox EXCEPT ![sock[r]] = Tail(@)]
            BY <2>1, <3>2, TailTypes
        <3>. QED BY <3>1, <3>2, <1>16 DEF ProbeFails
    <2>3. pool' \in PoolType
        <3>1. CASE RemovePooledEntry(sock[r]) BY <3>1, RemovedTypes
        <3>2. CASE UNCHANGED pool BY <3>2 DEF PoolType
        <3>. QED BY <3>1, <3>2, <1>16 DEF ProbeFails
    <2>. QED BY <2>2, <2>3, <1>16 DEF ProbeFails, PoolType
<1>17. ASSUME NEW r \in Requests, SendSucceeds(r) PROVE TypeOK'
    <2>1. Holding(r) BY <1>17, PartiesOf, QueueTypes DEF SendSucceeds, Holding
    <2>2. sends' \in [Requests -> Nat] /\ todo' \in [Requests -> Seq(Frames)]
        BY <2>1, <1>17, DeliverTypes, PartiesOf, QueueTypes DEF SendSucceeds
    <2>. QED BY <2>2, <1>17, PartiesOf, QueueTypes DEF SendSucceeds
<1>18. ASSUME NEW r \in Requests, SendFails(r) PROVE TypeOK'
    <2>1. Holding(r) BY <1>18, PartiesOf, QueueTypes DEF SendFails, Holding
    <2>2. CASE Deliver(r)
        <3>1. sends' \in [Requests -> Nat] /\ todo' \in [Requests -> Seq(Frames)] BY <2>1, <2>2, DeliverTypes
        <3>. QED BY <3>1, <1>18, PartiesOf, QueueTypes DEF SendFails
    <2>3. CASE UNCHANGED <<sends, todo>> BY <2>3, <1>18, PartiesOf, QueueTypes DEF SendFails
    <2>. QED BY <2>2, <2>3, <1>18, PartiesOf, QueueTypes DEF SendFails
<1>19. ASSUME NEW r \in Requests, SurfaceSendError(r) PROVE TypeOK'
    <2>1. pool' \in PoolType
        <3>1. CASE RemovePooledEntry(sock[r]) BY <3>1, RemovedTypes
        <3>2. CASE UNCHANGED pool BY <3>2 DEF PoolType
        <3>. QED BY <3>1, <3>2, <1>19 DEF SurfaceSendError
    <2>. QED BY <2>1, <1>19 DEF SurfaceSendError, PoolType
<1>20. ASSUME NEW r \in Requests, FirstPoll(r) PROVE TypeOK' BY <1>20, PartiesOf, QueueTypes DEF FirstPoll
<1>21. ASSUME NEW r \in Requests, StreamLocked(r) PROVE TypeOK' BY <1>21 DEF StreamLocked
<1>22. ASSUME NEW r \in Requests, ReadFrame(r) PROVE TypeOK'
    <2>1. sock[r] \in Requests BY <1>22, SocketHeld, FrameTypes DEF ReadFrame, Holding
    <2>2. inbox' \in [Requests -> Seq(Frames)] BY <2>1, <1>22, TailTypes DEF ReadFrame
    <2>3. Head(inbox[sock[r]]).of \in Requests BY <2>1, <1>22, FrameTypes DEF ReadFrame, Frames
    <2>4. got' \in [Requests -> SUBSET Requests] BY <2>3, <1>22 DEF ReadFrame
    <2>5. created' \in [Requests -> BOOLEAN] BY <1>22 DEF ReadFrame
    <2>6. /\ reusable' \in [Requests -> BOOLEAN] /\ pc' \in [Requests -> Stages]
          /\ outcome' \in [Requests -> {"open", "retry", "fallback", "failed", "finished", "gone"}]
        BY <1>22 DEF ReadFrame
    <2>. QED BY <2>2, <2>4, <2>5, <2>6, <1>22 DEF ReadFrame
<1>23. ASSUME NEW r \in Requests, ReadFails(r) PROVE TypeOK'
    <2>1. sock[r] \in Requests BY <1>23, SocketHeld, FrameTypes DEF ReadFails, Holding
    <2>2. inbox' \in [Requests -> Seq(Frames)]
        <3>1. CASE UNCHANGED inbox BY <3>1
        <3>2. CASE inbox[sock[r]] # <<>> /\ inbox' = [inbox EXCEPT ![sock[r]] = Tail(@)]
            BY <2>1, <3>2, TailTypes
        <3>. QED BY <3>1, <3>2, <1>23 DEF ReadFails
    <2>3. pool' \in PoolType
        <3>1. CASE RemovePooledEntry(sock[r]) BY <3>1, RemovedTypes
        <3>2. CASE UNCHANGED pool BY <3>2 DEF PoolType
        <3>. QED BY <3>1, <3>2, <1>23 DEF ReadFails
    <2>. QED BY <2>2, <2>3, <1>23 DEF ReadFails, PoolType
<1>24. ASSUME NEW r \in Requests, Unlock(r) PROVE TypeOK' BY <1>24, PartiesOf, QueueTypes DEF Unlock
<1>25. ASSUME NEW r \in Requests, DropCount(r) PROVE TypeOK' BY SMTT(20), <1>25 DEF DropCount
<1>26. ASSUME NEW r \in Requests, DropEntry(r) PROVE TypeOK'
    <2>1. pool' \in PoolType /\ watcher' \in [Requests -> {"none", "spawned", "locking", "evicting", "done"}]
        BY <1>26, SettleTypes, CountPositive DEF DropEntry, PoolType, Holding
    <2>. QED BY ZenonT(40), <2>1, <1>26 DEF DropEntry, PoolType
<1>27. ASSUME NEW r \in Requests, WatchStart(r) PROVE TypeOK' BY <1>27, PartiesOf, QueueTypes DEF WatchStart
<1>28. ASSUME NEW r \in Requests, WatchCancelled(r) PROVE TypeOK' BY <1>28, PartiesOf, QueueTypes DEF WatchCancelled
<1>29. ASSUME NEW r \in Requests, WatchIdle(r) PROVE TypeOK' BY <1>29, PartiesOf, QueueTypes DEF WatchIdle
<1>30. ASSUME NEW r \in Requests, WatchRead(r) PROVE TypeOK'
    <2>1. inbox' \in [Requests -> Seq(Frames)]
        <3>1. CASE inbox[sock[r]] # <<>> /\ inbox' = [inbox EXCEPT ![sock[r]] = Tail(@)]
            <4>1. CASE sock[r] \in Requests BY <3>1, <4>1, TailTypes
            <4>2. CASE sock[r] = None BY <3>1, <4>2
            <4>. QED BY <4>1, <4>2
        <3>2. CASE UNCHANGED inbox BY <3>2
        <3>. QED BY <3>1, <3>2, <1>30 DEF WatchRead
    <2>. QED BY <2>1, <1>30, PartiesOf, QueueTypes, FrameTypes DEF WatchRead
<1>31. ASSUME NEW r \in Requests, WatchEvict(r) PROVE TypeOK'
    <2>1. pool' \in PoolType BY <1>31, RemovedTypes DEF WatchEvict
    <2>. QED BY <2>1, <1>31 DEF WatchEvict, PoolType
<1>32. CASE UNCHANGED vars BY <1>32 DEF vars, poolVars, handleVars, streamVars, wireVars
<1>. QED BY <1>1, <1>2, <1>3, <1>4, <1>5, <1>6, <1>7, <1>8, <1>9, <1>10, <1>11, <1>12, <1>13, <1>14,
    <1>15, <1>16, <1>17, <1>18, <1>19, <1>20, <1>21, <1>22, <1>23, <1>24, <1>25, <1>26, <1>27,
    <1>28, <1>29, <1>30, <1>31, <1>32
    DEF Next, RequestStep, WatchStep
----------------------------------------------------------------------------
(* The course of a call, and whose socket it uses.                         *)

LEMMA CourseStep == TypeOK /\ Course /\ SocketsOfCalls /\ [Next]_vars => Course'
<1>. SUFFICES ASSUME TypeOK, Course, SocketsOfCalls, [Next]_vars PROVE Course' OBVIOUS
<1>0. /\ pc \in [Requests -> Stages] /\ reused \in [Requests -> BOOLEAN] /\ reusable \in [Requests -> BOOLEAN]
      /\ created \in [Requests -> BOOLEAN] /\ sends \in [Requests -> Nat] /\ got \in [Requests -> SUBSET Requests]
      /\ outcome \in [Requests -> {"open", "retry", "fallback", "failed", "finished", "gone"}]
      /\ watcher \in [Requests -> {"none", "spawned", "locking", "evicting", "done"}]
    BY DEF TypeOK
<1>. USE <1>0, Apart DEF Course, Acquiring, Unsent, Unread, Ending, Goto
<1>. USE DEF poolVars, handleVars, streamVars, wireVars, Deliver
<1>1. ASSUME NEW r \in Requests, Start(r) PROVE Course' BY <1>1 DEF Start
<1>2. ASSUME NEW r \in Requests, CancelConnecting(r) PROVE Course' BY <1>2 DEF CancelConnecting
<1>3. ASSUME NEW r \in Requests, Cancel(r) PROVE Course' BY <1>3 DEF Cancel
<1>4. ASSUME NEW r \in Requests, WatchPing(r) PROVE Course' BY <1>4 DEF WatchPing
<1>5. ASSUME NEW r \in Requests, ServerSends(r) PROVE Course' BY <1>5 DEF ServerSends
<1>6. ASSUME NEW r \in Requests, ServerCloses(r) PROVE Course' BY <1>6 DEF ServerCloses
<1>7. ASSUME NEW r \in Requests, CheckActive(r) PROVE Course' BY <1>7 DEF CheckActive
<1>8. ASSUME NEW r \in Requests, CountUnpooled(r) PROVE Course' BY <1>8 DEF CountUnpooled
<1>9. ASSUME NEW r \in Requests, TakeEntry(r) PROVE Course' BY <1>9 DEF TakeEntry
<1>10. ASSUME NEW r \in Requests, FindNoEntry(r) PROVE Course' BY <1>10 DEF FindNoEntry
<1>11. ASSUME NEW r \in Requests, CountPooled(r) PROVE Course'
    <2>1. CASE pc[r] = "cold" /\ pc' = [pc EXCEPT ![r] = "connecting"] BY <2>1, <1>11 DEF CountPooled
    <2>2. CASE pc[r] = "reusing" /\ pc' = [pc EXCEPT ![r] = "waiting"] BY <2>2, <1>11 DEF CountPooled
    <2>. QED BY <2>1, <2>2, <1>11 DEF CountPooled
<1>12. ASSUME NEW r \in Requests, Connect(r) PROVE Course' BY <1>12 DEF Connect
<1>13. ASSUME NEW r \in Requests, ConnectFails(r) PROVE Course' BY <1>13 DEF ConnectFails
<1>14. ASSUME NEW r \in Requests, Locked(r) PROVE Course' BY <1>14 DEF Locked
<1>15. ASSUME NEW r \in Requests, ProbeSucceeds(r) PROVE Course' BY <1>15 DEF ProbeSucceeds
<1>16. ASSUME NEW r \in Requests, ProbeFails(r) PROVE Course' BY <1>16 DEF ProbeFails
<1>17. ASSUME NEW r \in Requests, SendSucceeds(r) PROVE Course' BY <1>17 DEF SendSucceeds
<1>18. ASSUME NEW r \in Requests, SendFails(r) PROVE Course' BY <1>18 DEF SendFails
<1>19. ASSUME NEW r \in Requests, SurfaceSendError(r) PROVE Course' BY <1>19 DEF SurfaceSendError
<1>20. ASSUME NEW r \in Requests, FirstPoll(r) PROVE Course' BY <1>20 DEF FirstPoll
<1>21. ASSUME NEW r \in Requests, StreamLocked(r) PROVE Course' BY <1>21 DEF StreamLocked
<1>22. ASSUME NEW r \in Requests, ReadFrame(r) PROVE Course'
    <2>1. CASE Terminal(Head(inbox[sock[r]]))
        <3>1. /\ pc' = [pc EXCEPT ![r] = "closing"] /\ reusable' = [reusable EXCEPT ![r] = TRUE]
              /\ outcome' = [outcome EXCEPT ![r] = "finished"] /\ pc[r] = "reading"
              /\ UNCHANGED <<sends, watcher, reused>>
            BY <2>1, <1>22 DEF ReadFrame
        <3>2. \A q \in Requests \ {r} : UNCHANGED <<got[q], created[q]>> BY <1>22 DEF ReadFrame
        <3>. QED BY <3>1, <3>2
    <2>2. CASE ~Terminal(Head(inbox[sock[r]])) BY <2>2, <1>22 DEF ReadFrame
    <2>. QED BY <2>1, <2>2
<1>23. ASSUME NEW r \in Requests, ReadFails(r) PROVE Course' BY <1>23 DEF ReadFails
<1>24. ASSUME NEW r \in Requests, Unlock(r) PROVE Course' BY <1>24 DEF Unlock
<1>25. ASSUME NEW r \in Requests, DropCount(r) PROVE Course' BY <1>25 DEF DropCount
<1>26. ASSUME NEW r \in Requests, DropEntry(r) PROVE Course'
    <2>1. UNCHANGED watcher \/ watcher' = [watcher EXCEPT ![r] = "spawned"] BY <1>26 DEF DropEntry, Settle
    <2>2. reusable[r] => outcome[r] = "finished" OBVIOUS
    <2>3. UNCHANGED watcher \/ reusable[r] BY <1>26 DEF DropEntry, Settle
    <2>4. CASE outcome[r] = "retry" BY <2>2, <2>3, <2>4, <1>26 DEF DropEntry
    <2>5. CASE outcome[r] # "retry" BY <2>1, <2>5, <1>26 DEF DropEntry
    <2>. QED BY <2>4, <2>5
<1>27. ASSUME NEW r \in Requests, WatchStart(r) PROVE Course' BY <1>27 DEF WatchStart
<1>28. ASSUME NEW r \in Requests, WatchCancelled(r) PROVE Course' BY <1>28 DEF WatchCancelled, Watching
<1>29. ASSUME NEW r \in Requests, WatchIdle(r) PROVE Course' BY <1>29 DEF WatchIdle, Watching
<1>30. ASSUME NEW r \in Requests, WatchRead(r) PROVE Course' BY <1>30 DEF WatchRead, Watching
<1>31. ASSUME NEW r \in Requests, WatchEvict(r) PROVE Course' BY <1>31 DEF WatchEvict
<1>32. CASE UNCHANGED vars BY <1>32 DEF vars, poolVars, handleVars, streamVars, wireVars
<1>. QED BY <1>1, <1>2, <1>3, <1>4, <1>5, <1>6, <1>7, <1>8, <1>9, <1>10, <1>11, <1>12, <1>13, <1>14,
    <1>15, <1>16, <1>17, <1>18, <1>19, <1>20, <1>21, <1>22, <1>23, <1>24, <1>25, <1>26, <1>27,
    <1>28, <1>29, <1>30, <1>31, <1>32
    DEF Next, RequestStep, WatchStep

\* What most steps leave of whose socket it is.
SocketsKept ==
    /\ UNCHANGED <<sock, pooled, reused>> /\ pool'.sock \in {pool.sock, None}
    /\ \A q \in Requests :
        /\ Unopened(q)' => Unopened(q)
        /\ Holding(q)' => Holding(q)
        /\ pc'[q] \in {"cold", "connecting"} => pc[q] \in {"cold", "connecting"}
        /\ Unopened(q) => (inbox[q] = <<>> => inbox'[q] = <<>>) /\ (todo[q] = <<>> => todo'[q] = <<>>)

LEMMA SocketsAreKept == SocketsOfCalls /\ SocketsKept => SocketsOfCalls'
BY Apart DEF SocketsOfCalls, SocketsKept

LEMMA SettleSocket ==
    ASSUME TypeOK, NEW r \in Requests, Settle(r)
    PROVE  pool'.sock \in {pool.sock, None}
<1>1. pool \in PoolType BY DEF TypeOK, PoolType
<1>2. CASE pool' = [pool EXCEPT !.count = @ - 1] BY <1>1, <1>2 DEF PoolType
<1>3. CASE pool' = [pool EXCEPT !.count = @ - 1, !.watch = r] BY <1>1, <1>3 DEF PoolType
<1>4. CASE RemovePooledEntry(sock[r]) \/ UNCHANGED pool BY <1>4 DEF RemovePooledEntry, NoEntry
<1>. QED BY <1>2, <1>3, <1>4 DEF Settle

LEMMA SocketsStep == TypeOK /\ Course /\ SocketsOfCalls /\ [Next]_vars => SocketsOfCalls'
<1>. SUFFICES ASSUME TypeOK, Course, SocketsOfCalls, [Next]_vars PROVE SocketsOfCalls' OBVIOUS
<1>0. /\ pc \in [Requests -> Stages] /\ sock \in [Requests -> Requests \cup {None}]
      /\ pooled \in [Requests -> BOOLEAN] /\ reused \in [Requests -> BOOLEAN]
      /\ inbox \in [Requests -> Seq(Frames)] /\ todo \in [Requests -> Seq(Frames)]
      /\ pool \in PoolType
    BY DEF TypeOK, PoolType
<1>. USE <1>0, Apart, SocketsAreKept DEF Goto, RemovePooledEntry, NoEntry
<1>. USE DEF poolVars, handleVars, streamVars, wireVars, Deliver
<1>. USE DEF Unopened, Holding, Acquiring
<1>1. ASSUME NEW r \in Requests, Start(r) PROVE SocketsKept
    BY <1>1 DEF SocketsKept, Start
<1>2. ASSUME NEW r \in Requests, CancelConnecting(r) PROVE SocketsKept
    BY <1>2 DEF SocketsKept, CancelConnecting
<1>3. ASSUME NEW r \in Requests, Cancel(r) PROVE SocketsKept
    BY <1>3 DEF SocketsKept, SocketsOfCalls, Cancel
<1>4. ASSUME NEW r \in Requests, WatchPing(r) PROVE SocketsKept
    BY <1>4 DEF SocketsKept, WatchPing
<1>5. ASSUME NEW r \in Requests, ServerSends(r) PROVE SocketsKept
    BY <1>5 DEF SocketsKept, SocketsOfCalls, ServerSends
<1>6. ASSUME NEW r \in Requests, ServerCloses(r) PROVE SocketsKept
    BY <1>6 DEF SocketsKept, ServerCloses
<1>7. ASSUME NEW r \in Requests, CheckActive(r) PROVE SocketsKept
    BY <1>7 DEF SocketsKept, CheckActive
<1>8. ASSUME NEW r \in Requests, CountPooled(r) PROVE SocketsKept
    <2>1. CASE pc[r] = "cold" /\ pc' = [pc EXCEPT ![r] = "connecting"] BY <2>1, <1>8 DEF SocketsKept, CountPooled
    <2>2. CASE pc[r] = "reusing" /\ pc' = [pc EXCEPT ![r] = "waiting"] BY <2>2, <1>8 DEF SocketsKept, CountPooled
    <2>. QED BY <2>1, <2>2, <1>8 DEF SocketsKept, CountPooled
<1>9. ASSUME NEW r \in Requests, ConnectFails(r) PROVE SocketsKept
    BY <1>9 DEF SocketsKept, ConnectFails
<1>10. ASSUME NEW r \in Requests, Locked(r) PROVE SocketsKept
    BY <1>10 DEF SocketsKept, Locked
<1>11. ASSUME NEW r \in Requests, ProbeSucceeds(r) PROVE SocketsKept
    BY <1>11 DEF SocketsKept, ProbeSucceeds
<1>12. ASSUME NEW r \in Requests, ProbeFails(r) PROVE SocketsKept
    BY <1>12 DEF SocketsKept, ProbeFails
<1>13. ASSUME NEW r \in Requests, SendSucceeds(r) PROVE SocketsKept
    <2>1. \A q \in Requests : Unopened(q) => sock[r] # q BY DEF SocketsOfCalls
    <2>2. \A q \in Requests : Unopened(q) => todo'[q] = todo[q]
        BY <2>1, <1>13 DEF SendSucceeds
    <2>. QED BY <2>2, <1>13 DEF SocketsKept, SendSucceeds
<1>14. ASSUME NEW r \in Requests, SendFails(r) PROVE SocketsKept
    <2>1. \A q \in Requests : Unopened(q) => sock[r] # q BY DEF SocketsOfCalls
    <2>2. \A q \in Requests : Unopened(q) => todo'[q] = todo[q]
        BY <2>1, <1>14 DEF SendFails
    <2>. QED BY <2>2, <1>14 DEF SocketsKept, SendFails
<1>15. ASSUME NEW r \in Requests, SurfaceSendError(r) PROVE SocketsKept
    BY <1>15 DEF SocketsKept, SurfaceSendError
<1>16. ASSUME NEW r \in Requests, FirstPoll(r) PROVE SocketsKept
    BY <1>16 DEF SocketsKept, FirstPoll
<1>17. ASSUME NEW r \in Requests, StreamLocked(r) PROVE SocketsKept
    BY <1>17 DEF SocketsKept, StreamLocked
<1>18. ASSUME NEW r \in Requests, ReadFrame(r) PROVE SocketsKept
    BY <1>18 DEF SocketsKept, ReadFrame
<1>19. ASSUME NEW r \in Requests, ReadFails(r) PROVE SocketsKept
    BY <1>19 DEF SocketsKept, ReadFails
<1>20. ASSUME NEW r \in Requests, Unlock(r) PROVE SocketsKept
    BY <1>20 DEF SocketsKept, Unlock
<1>21. ASSUME NEW r \in Requests, DropCount(r) PROVE SocketsKept
    BY <1>21 DEF SocketsKept, DropCount
<1>22. ASSUME NEW r \in Requests, DropEntry(r) PROVE SocketsKept
    <2>1. pool'.sock \in {pool.sock, None}
        <3>1. CASE ~pooled[r] BY <3>1, <1>22 DEF DropEntry
        <3>2. CASE pooled[r] BY <3>2, <1>22, SettleSocket DEF DropEntry
        <3>. QED BY <3>1, <3>2
    <2>2. \/ outcome[r] = "retry" /\ pc' = [pc EXCEPT ![r] = "acquiring"]
          \/ pc' = [pc EXCEPT ![r] = "ended"]
        BY <1>22 DEF DropEntry
    <2>3. outcome[r] = "retry" => reused[r] BY DEF Course
    <2>. QED BY <2>1, <2>2, <2>3, <1>22 DEF SocketsKept, DropEntry
<1>23. ASSUME NEW r \in Requests, WatchStart(r) PROVE SocketsKept
    BY <1>23 DEF SocketsKept, WatchStart
<1>24. ASSUME NEW r \in Requests, WatchCancelled(r) PROVE SocketsKept
    BY <1>24 DEF SocketsKept, WatchCancelled
<1>25. ASSUME NEW r \in Requests, WatchIdle(r) PROVE SocketsKept
    BY <1>25 DEF SocketsKept, WatchIdle
<1>26. ASSUME NEW r \in Requests, WatchRead(r) PROVE SocketsKept
    BY <1>26 DEF SocketsKept, WatchRead, Watching
<1>27. ASSUME NEW r \in Requests, WatchEvict(r) PROVE SocketsKept
    BY <1>27 DEF SocketsKept, WatchEvict
<1>28. CASE UNCHANGED vars BY <1>28 DEF SocketsKept, vars
<1>. HIDE DEF Unopened, Holding, Acquiring
<1>29. ASSUME NEW r \in Requests, CountUnpooled(r) PROVE SocketsOfCalls'
    BY <1>29 DEF SocketsOfCalls, CountUnpooled, Unopened, Holding, Acquiring
<1>30. ASSUME NEW r \in Requests, FindNoEntry(r) PROVE SocketsOfCalls'
    BY <1>30 DEF SocketsOfCalls, FindNoEntry, Unopened, Holding, Acquiring
<1>31. ASSUME NEW r \in Requests, TakeEntry(r) PROVE SocketsOfCalls'
    BY <1>31 DEF SocketsOfCalls, TakeEntry, Unopened, Holding, Acquiring
<1>32. ASSUME NEW r \in Requests, Connect(r) PROVE SocketsOfCalls'
    BY <1>32 DEF SocketsOfCalls, Connect, Unopened, Holding, Acquiring
<1>. QED BY <1>1, <1>2, <1>3, <1>4, <1>5, <1>6, <1>7, <1>8, <1>9, <1>10, <1>11, <1>12, <1>13, <1>14, <1>15,
            <1>16, <1>17, <1>18, <1>19, <1>20, <1>21, <1>22, <1>23, <1>24, <1>25, <1>26, <1>27, <1>28, <1>29,
            <1>30, <1>31, <1>32 DEF Next, RequestStep, WatchStep

----------------------------------------------------------------------------
(* The counts.                                                             *)

LEMMA Sizes ==
    ASSUME NEW S \in SUBSET Requests
    PROVE  /\ Cardinality(S) \in Nat
           /\ \A r : /\ r \notin S => Cardinality(S \cup {r}) = Cardinality(S) + 1
                     /\ r \in S => Cardinality(S) >= 1 /\ Cardinality(S \ {r}) = Cardinality(S) - 1
<1>1. IsFiniteSet(S) BY FS_Subset, WsPoolAssumption
<1>2. \A r : r \in S => Cardinality(S) # 0 BY <1>1, FS_EmptySet
<1>. QED BY <1>1, <1>2, FS_CardinalityType, FS_AddElement, FS_RemoveElement

\* The calls that WEBSOCKET_ACTIVE_REQUESTS counts.
InUse == {r \in Requests : Counted(r) \/ pc[r] = "leaked"}
InUseKept == active' = active /\ \A q \in Requests : (q \in InUse)' <=> q \in InUse

Gains == active' = active + 1 /\ \E r : r \notin InUse /\ InUse' = InUse \cup {r}
Loses == active' = Decremented /\ \E r : r \in InUse /\ InUse' = InUse \ {r}

LEMMA ActiveStep == TypeOK /\ ActiveCounted /\ [Next]_vars => ActiveCounted'
<1>. SUFFICES ASSUME TypeOK, ActiveCounted, [Next]_vars PROVE ActiveCounted' OBVIOUS
<1>0. pc \in [Requests -> Stages] /\ active \in Nat BY DEF TypeOK
<1>. USE <1>0 DEF InUse, Counted, Goto, poolVars
<1>1. ASSUME NEW r \in Requests, Start(r) PROVE InUseKept
    BY <1>1 DEF InUseKept, Start
<1>2. ASSUME NEW r \in Requests, CancelConnecting(r) PROVE InUseKept
    BY <1>2 DEF InUseKept, CancelConnecting
<1>3. ASSUME NEW r \in Requests, Cancel(r) PROVE InUseKept
    BY <1>3 DEF InUseKept, Cancel
<1>4. ASSUME NEW r \in Requests, WatchPing(r) PROVE InUseKept
    BY <1>4 DEF InUseKept, WatchPing
<1>5. ASSUME NEW r \in Requests, ServerSends(r) PROVE InUseKept
    BY <1>5 DEF InUseKept, ServerSends
<1>6. ASSUME NEW r \in Requests, ServerCloses(r) PROVE InUseKept
    BY <1>6 DEF InUseKept, ServerCloses
<1>7. ASSUME NEW r \in Requests, CheckActive(r) PROVE InUseKept
    BY <1>7 DEF InUseKept, CheckActive
<1>8. ASSUME NEW r \in Requests, TakeEntry(r) PROVE InUseKept
    BY <1>8 DEF InUseKept, TakeEntry
<1>9. ASSUME NEW r \in Requests, FindNoEntry(r) PROVE InUseKept
    BY <1>9 DEF InUseKept, FindNoEntry
<1>10. ASSUME NEW r \in Requests, Connect(r) PROVE InUseKept
    BY <1>10 DEF InUseKept, Connect
<1>11. ASSUME NEW r \in Requests, Locked(r) PROVE InUseKept
    BY <1>11 DEF InUseKept, Locked
<1>12. ASSUME NEW r \in Requests, ProbeSucceeds(r) PROVE InUseKept
    BY <1>12 DEF InUseKept, ProbeSucceeds
<1>13. ASSUME NEW r \in Requests, ProbeFails(r) PROVE InUseKept
    BY <1>13 DEF InUseKept, ProbeFails
<1>14. ASSUME NEW r \in Requests, SendSucceeds(r) PROVE InUseKept
    BY <1>14 DEF InUseKept, SendSucceeds
<1>15. ASSUME NEW r \in Requests, SendFails(r) PROVE InUseKept
    BY <1>15 DEF InUseKept, SendFails
<1>16. ASSUME NEW r \in Requests, SurfaceSendError(r) PROVE InUseKept
    BY <1>16 DEF InUseKept, SurfaceSendError
<1>17. ASSUME NEW r \in Requests, FirstPoll(r) PROVE InUseKept
    BY <1>17 DEF InUseKept, FirstPoll
<1>18. ASSUME NEW r \in Requests, StreamLocked(r) PROVE InUseKept
    BY <1>18 DEF InUseKept, StreamLocked
<1>19. ASSUME NEW r \in Requests, ReadFrame(r) PROVE InUseKept
    BY <1>19 DEF InUseKept, ReadFrame
<1>20. ASSUME NEW r \in Requests, ReadFails(r) PROVE InUseKept
    BY <1>20 DEF InUseKept, ReadFails
<1>21. ASSUME NEW r \in Requests, Unlock(r) PROVE InUseKept
    BY <1>21 DEF InUseKept, Unlock
<1>22. ASSUME NEW r \in Requests, DropEntry(r) PROVE InUseKept
    <2>1. pc' = [pc EXCEPT ![r] = "acquiring"] \/ pc' = [pc EXCEPT ![r] = "ended"] BY <1>22 DEF DropEntry
    <2>. QED BY <2>1, <1>22 DEF DropEntry, InUseKept
<1>23. ASSUME NEW r \in Requests, WatchStart(r) PROVE InUseKept
    BY <1>23 DEF InUseKept, WatchStart
<1>24. ASSUME NEW r \in Requests, WatchCancelled(r) PROVE InUseKept
    BY <1>24 DEF InUseKept, WatchCancelled
<1>25. ASSUME NEW r \in Requests, WatchIdle(r) PROVE InUseKept
    BY <1>25 DEF InUseKept, WatchIdle
<1>26. ASSUME NEW r \in Requests, WatchRead(r) PROVE InUseKept
    BY <1>26 DEF InUseKept, WatchRead
<1>27. ASSUME NEW r \in Requests, WatchEvict(r) PROVE InUseKept
    BY <1>27 DEF InUseKept, WatchEvict
<1>28. ASSUME UNCHANGED vars PROVE InUseKept
    <2>1. pc' = pc /\ active' = active BY <1>28 DEF vars
    <2>. QED BY <2>1 DEF InUseKept
<1>29. ASSUME NEW r \in Requests, CountUnpooled(r) PROVE Gains
    <2>1. r \notin InUse /\ InUse' = InUse \cup {r} BY <1>29 DEF CountUnpooled
    <2>. HIDE DEF InUse
    <2>. QED BY <2>1, <1>29 DEF CountUnpooled, Gains
<1>30. ASSUME NEW r \in Requests, CountPooled(r) PROVE Gains
    <2>1. CASE pc[r] = "cold" /\ pc' = [pc EXCEPT ![r] = "connecting"]
        <3>1. r \notin InUse /\ InUse' = InUse \cup {r} BY <2>1
        <3>. HIDE DEF InUse
        <3>. QED BY <3>1, <1>30 DEF CountPooled, Gains
    <2>2. CASE pc[r] = "reusing" /\ pc' = [pc EXCEPT ![r] = "waiting"]
        <3>1. r \notin InUse /\ InUse' = InUse \cup {r} BY <2>2
        <3>. HIDE DEF InUse
        <3>. QED BY <3>1, <1>30 DEF CountPooled, Gains
    <2>. QED BY <2>1, <2>2, <1>30 DEF CountPooled
<1>31. ASSUME NEW r \in Requests, ConnectFails(r) PROVE Loses
    <2>1. r \in InUse /\ InUse' = InUse \ {r} BY <1>31 DEF ConnectFails
    <2>. HIDE DEF InUse
    <2>. QED BY <2>1, <1>31 DEF ConnectFails, Loses
<1>32. ASSUME NEW r \in Requests, DropCount(r) PROVE Loses
    <2>1. r \in InUse /\ InUse' = InUse \ {r} BY <1>32 DEF DropCount
    <2>. HIDE DEF InUse
    <2>. QED BY <2>1, <1>32 DEF DropCount, Loses
<1>33. InUseKept => active' = active /\ InUse' = InUse BY DEF InUseKept
<1>34. InUse \in SUBSET Requests /\ active = Cardinality(InUse) BY DEF ActiveCounted
<1>35. ActiveCounted' <=> active' = Cardinality(InUse') BY DEF ActiveCounted
<1>. HIDE DEF InUse, Counted
<1>36. InUseKept \/ Gains \/ Loses
    BY <1>1, <1>2, <1>3, <1>4, <1>5, <1>6, <1>7, <1>8, <1>9, <1>10, <1>11, <1>12, <1>13, <1>14,
       <1>15, <1>16, <1>17, <1>18, <1>19, <1>20, <1>21, <1>22, <1>23, <1>24, <1>25, <1>26, <1>27,
       <1>28, <1>29, <1>30, <1>31, <1>32
       DEF Next, RequestStep, WatchStep
<1>. QED BY <1>33, <1>34, <1>35, <1>36, Sizes DEF Decremented, Gains, Loses


\* The handles on the pooled socket stay, or the entry goes.
UsersKept ==
    \/ pool'.sock = None
    \/ pool' = pool /\ \A q \in Requests : Holding(q)' /\ sock'[q] = pool.sock <=> Holding(q) /\ sock[q] = pool.sock
UserAdded ==
    /\ pool'.sock = pool.sock /\ pool'.count = pool.count + 1
    /\ \E r \in Requests \ Handles(pool.sock) : Handles(pool.sock)' = Handles(pool.sock) \cup {r}
UserGone ==
    /\ pool'.sock = pool.sock /\ pool'.count = pool.count - 1
    /\ \E r \in Handles(pool.sock) : Handles(pool.sock)' = Handles(pool.sock) \ {r}

UserFirst == pool'.count = 1 /\ \E r \in Requests : Handles(pool.sock)' = {r}

LEMMA EntryStep == TypeOK /\ EntryCounted /\ SocketsOfCalls /\ [Next]_vars => EntryCounted'
<1>. SUFFICES ASSUME TypeOK, EntryCounted, SocketsOfCalls, [Next]_vars PROVE EntryCounted' OBVIOUS
<1>0. /\ pc \in [Requests -> Stages] /\ sock \in [Requests -> Requests \cup {None}] /\ pool \in PoolType
    BY DEF TypeOK, PoolType
<1>. USE <1>0, Apart DEF PoolType, Holding, Goto, poolVars, handleVars, RemovePooledEntry, NoEntry
<1>1. ASSUME NEW r \in Requests, Start(r) PROVE UsersKept
    BY <1>1 DEF UsersKept, Start
<1>2. ASSUME NEW r \in Requests, CancelConnecting(r) PROVE UsersKept
    BY <1>2 DEF UsersKept, CancelConnecting
<1>3. ASSUME NEW r \in Requests, Cancel(r) PROVE UsersKept
    BY <1>3 DEF UsersKept, Cancel
<1>4. ASSUME NEW r \in Requests, WatchPing(r) PROVE UsersKept
    BY <1>4 DEF UsersKept, WatchPing
<1>5. ASSUME NEW r \in Requests, ServerSends(r) PROVE UsersKept
    BY <1>5 DEF UsersKept, ServerSends
<1>6. ASSUME NEW r \in Requests, ServerCloses(r) PROVE UsersKept
    BY <1>6 DEF UsersKept, ServerCloses
<1>7. ASSUME NEW r \in Requests, CheckActive(r) PROVE UsersKept
    BY <1>7 DEF UsersKept, CheckActive
<1>8. ASSUME NEW r \in Requests, CountUnpooled(r) PROVE UsersKept
    BY <1>8 DEF UsersKept, CountUnpooled
<1>9. ASSUME NEW r \in Requests, FindNoEntry(r) PROVE UsersKept
    BY <1>9 DEF UsersKept, FindNoEntry
<1>10. ASSUME NEW r \in Requests, CountPooled(r) PROVE UsersKept
    BY <1>10 DEF UsersKept, CountPooled
<1>11. ASSUME NEW r \in Requests, ConnectFails(r) PROVE UsersKept
    BY <1>11 DEF UsersKept, ConnectFails
<1>12. ASSUME NEW r \in Requests, Locked(r) PROVE UsersKept
    BY <1>12 DEF UsersKept, Locked
<1>13. ASSUME NEW r \in Requests, ProbeSucceeds(r) PROVE UsersKept
    BY <1>13 DEF UsersKept, ProbeSucceeds
<1>14. ASSUME NEW r \in Requests, ProbeFails(r) PROVE UsersKept
    <2>1. UNCHANGED sock /\ \A q \in Requests : Holding(q)' <=> Holding(q) BY <1>14 DEF ProbeFails
    <2>2. pool'.sock = None \/ pool' = pool BY <1>14 DEF ProbeFails
    <2>. QED BY <2>1, <2>2 DEF UsersKept
<1>15. ASSUME NEW r \in Requests, SendSucceeds(r) PROVE UsersKept
    BY <1>15 DEF UsersKept, SendSucceeds
<1>16. ASSUME NEW r \in Requests, SendFails(r) PROVE UsersKept
    BY <1>16 DEF UsersKept, SendFails
<1>17. ASSUME NEW r \in Requests, SurfaceSendError(r) PROVE UsersKept
    BY <1>17 DEF UsersKept, SurfaceSendError
<1>18. ASSUME NEW r \in Requests, FirstPoll(r) PROVE UsersKept
    BY <1>18 DEF UsersKept, FirstPoll
<1>19. ASSUME NEW r \in Requests, StreamLocked(r) PROVE UsersKept
    BY <1>19 DEF UsersKept, StreamLocked
<1>20. ASSUME NEW r \in Requests, ReadFrame(r) PROVE UsersKept
    BY <1>20 DEF UsersKept, ReadFrame
<1>21. ASSUME NEW r \in Requests, ReadFails(r) PROVE UsersKept
    BY <1>21 DEF UsersKept, ReadFails
<1>22. ASSUME NEW r \in Requests, Unlock(r) PROVE UsersKept
    BY <1>22 DEF UsersKept, Unlock
<1>23. ASSUME NEW r \in Requests, DropCount(r) PROVE UsersKept
    BY <1>23 DEF UsersKept, DropCount
<1>24. ASSUME NEW r \in Requests, WatchStart(r) PROVE UsersKept
    BY <1>24 DEF UsersKept, WatchStart
<1>25. ASSUME NEW r \in Requests, WatchCancelled(r) PROVE UsersKept
    BY <1>25 DEF UsersKept, WatchCancelled
<1>26. ASSUME NEW r \in Requests, WatchIdle(r) PROVE UsersKept
    BY <1>26 DEF UsersKept, WatchIdle
<1>27. ASSUME NEW r \in Requests, WatchRead(r) PROVE UsersKept
    BY <1>27 DEF UsersKept, WatchRead
<1>28. ASSUME NEW r \in Requests, WatchEvict(r) PROVE UsersKept
    BY <1>28 DEF UsersKept, WatchEvict
<1>29. ASSUME UNCHANGED vars PROVE UsersKept BY <1>29 DEF UsersKept, vars
<1>30. ASSUME NEW r \in Requests, TakeEntry(r) PROVE UserAdded
    <2>1. pool'.sock = pool.sock /\ pool'.count = pool.count + 1 BY <1>30 DEF TakeEntry
    <2>2. r \notin Handles(pool.sock) BY <1>30 DEF TakeEntry, Handles
    <2>3. \A q \in Requests : Holding(q)' /\ sock'[q] = pool.sock <=> q = r \/ (Holding(q) /\ sock[q] = pool.sock)
        BY <1>30 DEF TakeEntry
    <2>. HIDE DEF Holding
    <2>4. Handles(pool.sock)' = Handles(pool.sock) \cup {r} BY <2>1, <2>3 DEF Handles
    <2>. QED BY <2>1, <2>2, <2>4 DEF UserAdded
<1>31. ASSUME NEW r \in Requests, DropEntry(r) PROVE UsersKept \/ UserGone
    <2>1. \A q \in Requests : Holding(q)' <=> Holding(q) /\ q # r BY <1>31 DEF DropEntry
    <2>2. Holding(r) /\ sock' = sock BY <1>31 DEF DropEntry
    <2>. HIDE DEF Holding
    <2>3. CASE pool.sock # sock[r]
        <3>1. pool' = pool \/ pool'.sock = None BY <2>3, <1>31 DEF DropEntry, Settle
        <3>2. \A q \in Requests : Holding(q)' /\ sock'[q] = pool.sock <=> Holding(q) /\ sock[q] = pool.sock
            BY <2>1, <2>2, <2>3
        <3>. QED BY <3>1, <3>2 DEF UsersKept
    <2>4. CASE pool.sock = sock[r]
        <3>1. pooled[r] BY <2>2, <2>4 DEF SocketsOfCalls
        <3>2. pool \in PoolType OBVIOUS
        <3>3. CASE RemovePooledEntry(sock[r]) BY <2>4, <3>3 DEF UsersKept
        <3>4. CASE pool' = [pool EXCEPT !.count = @ - 1] \/ pool' = [pool EXCEPT !.count = @ - 1, !.watch = r]
            <4>1. pool'.sock = pool.sock /\ pool'.count = pool.count - 1 BY <3>2, <3>4 DEF PoolType
            <4>2. r \in Handles(pool.sock) BY <2>2, <2>4 DEF Handles
            <4>3. Handles(pool.sock)' = Handles(pool.sock) \ {r} BY <4>1, <2>1, <2>2 DEF Handles
            <4>. QED BY <4>1, <4>2, <4>3 DEF UserGone
        <3>. QED BY <2>4, <3>1, <3>3, <3>4, <1>31 DEF DropEntry, Settle
    <2>. QED BY <2>3, <2>4
<1>32. ASSUME NEW r \in Requests, Connect(r) PROVE UsersKept \/ UserFirst
    <2>1. /\ \A q \in Requests : Holding(q)' <=> Holding(q) \/ q = r
          /\ ~Holding(r) /\ sock' = [sock EXCEPT ![r] = r] /\ Unopened(r)
        BY <1>32 DEF Connect, Unopened, Acquiring
    <2>2. pool.sock # r /\ \A q \in Requests : sock[q] # r BY <2>1 DEF SocketsOfCalls
    <2>. HIDE DEF Holding
    <2>3. CASE ~pooled[r]
        <3>1. pool' = pool BY <2>3, <1>32 DEF Connect
        <3>. QED BY <2>1, <2>2, <3>1 DEF UsersKept
    <2>4. CASE pooled[r]
        <3>1. pool'.sock = r /\ pool'.count = 1 BY <2>4, <1>32 DEF Connect
        <3>2. Handles(pool.sock)' = {r} BY <2>1, <2>2, <3>1 DEF Handles
        <3>. QED BY <3>1, <3>2 DEF UserFirst
    <2>. QED BY <2>3, <2>4
<1>33. EntryCounted <=> (pool.sock # None => pool.count = Cardinality(Handles(pool.sock))) BY DEF EntryCounted, Handles
<1>34. EntryCounted' <=> (pool'.sock # None => pool'.count = Cardinality(Handles(pool.sock)'))
    BY DEF EntryCounted, Handles
<1>35. UsersKept => pool'.sock = None \/ (pool' = pool /\ Handles(pool.sock)' = Handles(pool.sock))
    <2>. HIDE DEF Holding
    <2>. QED BY DEF UsersKept, Handles
<1>36. Handles(pool.sock) \in SUBSET Requests BY DEF Handles
<1>37. UsersKept \/ UserAdded \/ UserGone \/ UserFirst
    BY <1>1, <1>2, <1>3, <1>4, <1>5, <1>6, <1>7, <1>8, <1>9, <1>10, <1>11, <1>12, <1>13, <1>14,
       <1>15, <1>16, <1>17, <1>18, <1>19, <1>20, <1>21, <1>22, <1>23, <1>24, <1>25, <1>26, <1>27,
       <1>28, <1>29, <1>30, <1>31, <1>32
       DEF Next, RequestStep, WatchStep
<1>. HIDE DEF Holding
<1>38. CASE UsersKept BY <1>33, <1>34, <1>35, <1>38
<1>39. CASE UserAdded BY <1>33, <1>34, <1>36, <1>39, Sizes DEF UserAdded
<1>40. CASE UserGone BY <1>33, <1>34, <1>36, <1>40, Sizes DEF UserGone
<1>41. CASE UserFirst BY <1>34, <1>41, FS_Singleton DEF UserFirst
<1>. QED BY <1>37, <1>38, <1>39, <1>40, <1>41


\* An idle entry keeps its watcher.
WatchKept ==
    /\ pool' = pool \/ pool'.sock = None
    /\ \A q \in Requests : watcher[q] # "none" => sock'[q] = sock[q]
    /\ \A q \in Requests : watcher[q] \in {"spawned", "locking", "evicting"} =>
           watcher'[q] \in {"spawned", "locking", "evicting"}

LEMMA IdleStep == TypeOK /\ Course /\ EntryCounted /\ SocketsOfCalls /\ IdleWatched /\ [Next]_vars => IdleWatched'
<1>. SUFFICES ASSUME TypeOK, Course, EntryCounted, SocketsOfCalls, IdleWatched, [Next]_vars PROVE IdleWatched' OBVIOUS
<1>0. /\ pool \in PoolType /\ sock \in [Requests -> Requests \cup {None}]
      /\ watcher \in [Requests -> {"none", "spawned", "locking", "evicting", "done"}]
    BY DEF TypeOK, PoolType
<1>. USE <1>0, Apart DEF PoolType, poolVars, handleVars, RemovePooledEntry, NoEntry
<1>1. ASSUME NEW r \in Requests, Start(r) PROVE WatchKept
    BY <1>1 DEF WatchKept, Start
<1>2. ASSUME NEW r \in Requests, CancelConnecting(r) PROVE WatchKept
    BY <1>2 DEF WatchKept, CancelConnecting
<1>3. ASSUME NEW r \in Requests, Cancel(r) PROVE WatchKept
    BY <1>3 DEF WatchKept, Cancel
<1>4. ASSUME NEW r \in Requests, WatchPing(r) PROVE WatchKept
    BY <1>4 DEF WatchKept, WatchPing
<1>5. ASSUME NEW r \in Requests, ServerSends(r) PROVE WatchKept
    BY <1>5 DEF WatchKept, ServerSends
<1>6. ASSUME NEW r \in Requests, ServerCloses(r) PROVE WatchKept
    BY <1>6 DEF WatchKept, ServerCloses
<1>7. ASSUME NEW r \in Requests, CheckActive(r) PROVE WatchKept
    BY <1>7 DEF WatchKept, CheckActive
<1>8. ASSUME NEW r \in Requests, CountUnpooled(r) PROVE WatchKept
    BY <1>8 DEF WatchKept, CountUnpooled
<1>9. ASSUME NEW r \in Requests, FindNoEntry(r) PROVE WatchKept
    BY <1>9 DEF WatchKept, FindNoEntry
<1>10. ASSUME NEW r \in Requests, CountPooled(r) PROVE WatchKept
    BY <1>10 DEF WatchKept, CountPooled
<1>11. ASSUME NEW r \in Requests, ConnectFails(r) PROVE WatchKept
    BY <1>11 DEF WatchKept, ConnectFails
<1>12. ASSUME NEW r \in Requests, Locked(r) PROVE WatchKept
    BY <1>12 DEF WatchKept, Locked
<1>13. ASSUME NEW r \in Requests, ProbeSucceeds(r) PROVE WatchKept
    BY <1>13 DEF WatchKept, ProbeSucceeds
<1>14. ASSUME NEW r \in Requests, ProbeFails(r) PROVE WatchKept
    BY <1>14 DEF WatchKept, ProbeFails
<1>15. ASSUME NEW r \in Requests, SendSucceeds(r) PROVE WatchKept
    BY <1>15 DEF WatchKept, SendSucceeds
<1>16. ASSUME NEW r \in Requests, SendFails(r) PROVE WatchKept
    BY <1>16 DEF WatchKept, SendFails
<1>17. ASSUME NEW r \in Requests, SurfaceSendError(r) PROVE WatchKept
    BY <1>17 DEF WatchKept, SurfaceSendError
<1>18. ASSUME NEW r \in Requests, FirstPoll(r) PROVE WatchKept
    BY <1>18 DEF WatchKept, FirstPoll
<1>19. ASSUME NEW r \in Requests, StreamLocked(r) PROVE WatchKept
    BY <1>19 DEF WatchKept, StreamLocked
<1>20. ASSUME NEW r \in Requests, ReadFrame(r) PROVE WatchKept
    BY <1>20 DEF WatchKept, ReadFrame
<1>21. ASSUME NEW r \in Requests, ReadFails(r) PROVE WatchKept
    BY <1>21 DEF WatchKept, ReadFails
<1>22. ASSUME NEW r \in Requests, Unlock(r) PROVE WatchKept
    BY <1>22 DEF WatchKept, Unlock
<1>23. ASSUME NEW r \in Requests, DropCount(r) PROVE WatchKept
    BY <1>23 DEF WatchKept, DropCount
<1>24. ASSUME NEW r \in Requests, WatchStart(r) PROVE WatchKept
    BY <1>24 DEF WatchKept, WatchStart
<1>25. ASSUME NEW r \in Requests, WatchIdle(r) PROVE WatchKept
    BY <1>25 DEF WatchKept, WatchIdle, Watching
<1>26. ASSUME NEW r \in Requests, WatchRead(r) PROVE WatchKept
    BY <1>26 DEF WatchKept, WatchRead, Watching
<1>27. ASSUME UNCHANGED vars PROVE WatchKept BY <1>27 DEF WatchKept, vars
<1>28. WatchKept => IdleWatched' BY DEF WatchKept, IdleWatched
<1>29. ASSUME NEW r \in Requests, WatchEvict(r) PROVE IdleWatched'
    BY <1>29 DEF WatchEvict, IdleWatched
<1>30. ASSUME NEW r \in Requests, WatchCancelled(r) PROVE IdleWatched'
    BY <1>30 DEF WatchCancelled, Cancelled, IdleWatched
<1>31. ASSUME NEW r \in Requests, TakeEntry(r) PROVE IdleWatched'
    <2>1. pool'.count = pool.count + 1 /\ pool'.watch = None /\ pool.count \in Nat BY <1>31 DEF TakeEntry
    <2>. QED BY <2>1 DEF IdleWatched
<1>32. ASSUME NEW r \in Requests, Connect(r) PROVE IdleWatched'
    <2>1. pool' = pool \/ pool' = [sock |-> r, count |-> 1, watch |-> None] BY <1>32 DEF Connect
    <2>2. pc[r] = "connecting" /\ UNCHANGED watcher /\ sock' = [sock EXCEPT ![r] = r] BY <1>32 DEF Connect
    <2>3. watcher[r] = "none" BY <2>2 DEF Course
    <2>4. CASE pool' = [sock |-> r, count |-> 1, watch |-> None] BY <2>4 DEF IdleWatched
    <2>5. CASE pool' = pool BY <2>2, <2>3, <2>5 DEF IdleWatched
    <2>. QED BY <2>1, <2>4, <2>5
<1>33. ASSUME NEW r \in Requests, DropEntry(r) PROVE IdleWatched'
    <2>1. Holding(r) /\ sock' = sock BY <1>33 DEF DropEntry, Holding
    <2>2. pool \in PoolType BY DEF PoolType
    <2>3. CASE RemovePooledEntry(sock[r]) /\ UNCHANGED watcher BY <2>1, <2>3 DEF IdleWatched
    <2>4. CASE UNCHANGED <<pool, watcher>> BY <2>1, <2>4 DEF IdleWatched
    <2>5. CASE /\ pool.sock = sock[r] /\ pool.count > 1
               /\ pool' = [pool EXCEPT !.count = @ - 1] /\ UNCHANGED watcher
        <3>1. pool'.sock = pool.sock /\ pool'.count = pool.count - 1 /\ pool'.watch = pool.watch
            BY <2>2, <2>5 DEF PoolType
        <3>2. pool.count \in Nat /\ pool.sock # None BY <2>1, <2>5 DEF SocketsOfCalls
        <3>. QED BY <2>5, <3>1, <3>2 DEF IdleWatched
    <2>6. CASE /\ pool.sock = sock[r] /\ ~(pool.count > 1)
               /\ pool' = [pool EXCEPT !.count = @ - 1, !.watch = r]
               /\ watcher' = [watcher EXCEPT ![r] = "spawned"]
        <3>1. pool'.sock = pool.sock /\ pool'.count = pool.count - 1 /\ pool'.watch = r
            BY <2>2, <2>6 DEF PoolType
        <3>2. pool.count \in Nat /\ pool.count > 0 BY <2>1, <2>6, CountPositive
        <3>3. pool'.count = 0 BY <2>6, <3>1, <3>2
        <3>. QED BY <2>1, <2>6, <3>1, <3>3 DEF IdleWatched
    <2>. QED BY <2>3, <2>4, <2>5, <2>6, <1>33 DEF DropEntry, Settle
<1>. QED BY <1>1, <1>2, <1>3, <1>4, <1>5, <1>6, <1>7, <1>8, <1>9, <1>10, <1>11, <1>12, <1>13, <1>14,
    <1>15, <1>16, <1>17, <1>18, <1>19, <1>20, <1>21, <1>22, <1>23, <1>24, <1>25, <1>26, <1>27,
    <1>28, <1>29, <1>30, <1>31, <1>32, <1>33
    DEF Next, RequestStep, WatchStep


----------------------------------------------------------------------------
(* What is on the wire of a socket.                                        *)

\* A step leaves of a socket's frames a part, in their order.
Part(s) ==
    \E k \in Nat : \A i \in 1..Len(Wire(s)') : i + k \in 1..Len(Wire(s)) /\ Wire(s)'[i] = Wire(s)[i + k]

LEMMA WireType ==
    ASSUME TypeOK, NEW s \in Requests
    PROVE  /\ inbox[s] \in Seq(Frames) /\ todo[s] \in Seq(Frames) /\ Wire(s) \in Seq(Frames)
           /\ Len(Wire(s)) \in Nat
           /\ \A i \in 1..Len(Wire(s)) : Wire(s)[i] \in Frames
<1>1. inbox[s] \in Seq(Frames) /\ todo[s] \in Seq(Frames) BY DEF TypeOK
<1>2. Wire(s) \in Seq(Frames) BY <1>1 DEF Wire
<1>. QED BY <1>1, <1>2

LEMMA WireSame ==
    ASSUME TypeOK, NEW s \in Requests, Wire(s)' = Wire(s)
    PROVE  Part(s)
<1>1. \A i \in 1..Len(Wire(s)') : i + 0 \in 1..Len(Wire(s)) /\ Wire(s)'[i] = Wire(s)[i + 0] BY WireType
<1>. QED BY <1>1 DEF Part

\* A frame that is read was the first one on the wire.
LEMMA WireRead ==
    ASSUME TypeOK, NEW s \in Requests, inbox[s] # <<>>, inbox'[s] = Tail(inbox[s]), todo'[s] = todo[s]
    PROVE  /\ 1 \in 1..Len(Wire(s)) /\ Wire(s)[1] = Head(inbox[s])
           /\ \A i \in 1..Len(Wire(s)') : i + 1 \in 1..Len(Wire(s)) /\ Wire(s)'[i] = Wire(s)[i + 1]
           /\ Part(s)
<1>1. PICK a \in Seq(Frames) : a = inbox[s] BY WireType
<1>2. PICK b \in Seq(Frames) : b = todo[s] BY WireType
<1>3. Wire(s) = a \o b /\ Wire(s)' = Tail(a) \o b /\ a # <<>> BY <1>1, <1>2 DEF Wire
<1>4. /\ 1 \in 1..Len(a \o b) /\ (a \o b)[1] = Head(a)
      /\ \A i \in 1..Len(Tail(a) \o b) : i + 1 \in 1..Len(a \o b) /\ (Tail(a) \o b)[i] = (a \o b)[i + 1]
    BY <1>3
<1>. QED BY <1>1, <1>3, <1>4 DEF Part

LEMMA WireMoves ==
    ASSUME TypeOK, NEW s \in Requests, todo[s] # <<>>,
           inbox'[s] = Append(inbox[s], Head(todo[s])), todo'[s] = Tail(todo[s])
    PROVE  Part(s)
<1>1. PICK a \in Seq(Frames) : a = inbox[s] BY WireType
<1>2. PICK b \in Seq(Frames) : b = todo[s] BY WireType
<1>3. b # <<>> BY <1>2
<1>4. Append(a, Head(b)) \o Tail(b) = a \o b BY <1>3
<1>. QED BY <1>1, <1>2, <1>4, WireSame DEF Wire

LEMMA WireCloses ==
    ASSUME TypeOK, NEW s \in Requests, inbox'[s] = inbox[s], todo'[s] = <<>>
    PROVE  Part(s)
<1>1. PICK a \in Seq(Frames) : a = inbox[s] BY WireType
<1>2. PICK b \in Seq(Frames) : b = todo[s] BY WireType
<1>3. Wire(s) = a \o b /\ Wire(s)' = a BY <1>1, <1>2 DEF Wire
<1>4. \A i \in 1..Len(a) : i + 0 \in 1..Len(a \o b) /\ a[i] = (a \o b)[i + 0] OBVIOUS
<1>. QED BY <1>3, <1>4 DEF Part

\* What the server will answer is put behind what there is.
LEMMA WireGrows ==
    ASSUME TypeOK, NEW s \in Requests, NEW script \in Seq(Frames),
           inbox'[s] = inbox[s], todo'[s] = todo[s] \o script
    PROVE  \A i \in 1..Len(Wire(s)') :
               IF i <= Len(Wire(s))
                 THEN i \in 1..Len(Wire(s)) /\ Wire(s)'[i] = Wire(s)[i]
                 ELSE i - Len(Wire(s)) \in 1..Len(script) /\ Wire(s)'[i] = script[i - Len(Wire(s))]
<1>1. PICK a \in Seq(Frames) : a = inbox[s] BY WireType
<1>2. PICK b \in Seq(Frames) : b = todo[s] BY WireType
<1>3. Wire(s) = a \o b /\ Wire(s)' = a \o (b \o script) BY <1>1, <1>2 DEF Wire
<1>7. a \o b \in Seq(Frames) OBVIOUS
<1>4. PICK w \in Seq(Frames) : w = a \o b BY <1>7
<1>5. a \o (b \o script) = w \o script BY <1>4
<1>6. \A i \in 1..Len(w \o script) :
          IF i <= Len(w)
            THEN i \in 1..Len(w) /\ (w \o script)[i] = w[i]
            ELSE i - Len(w) \in 1..Len(script) /\ (w \o script)[i] = script[i - Len(w)]
    OBVIOUS
<1>. QED BY <1>3, <1>4, <1>5, <1>6

LEMMA PartKeeps ==
    ASSUME TypeOK, TypeOK', NEW s \in Requests, NEW r \in Requests, Part(s), created'[r] = created[r]
    PROVE  /\ AllLate(s) => AllLate(s)'
           /\ OwnOrLate(r, s) => OwnOrLate(r, s)'
<1>1. PICK k \in Nat : \A i \in 1..Len(Wire(s)') : i + k \in 1..Len(Wire(s)) /\ Wire(s)'[i] = Wire(s)[i + k]
    BY DEF Part
<1>2. \A i, j \in 1..Len(Wire(s)') : i < j => i + k < j + k BY <1>1
<1>3. AllLate(s) => AllLate(s)' BY <1>1 DEF AllLate
<1>4. ASSUME OwnOrLate(r, s), NEW i \in 1..Len(Wire(s)')
      PROVE  /\ Wire(s)'[i].of # r => Wire(s)'[i].kind = "late" /\ ~created'[r]
             /\ \A j \in 1..Len(Wire(s)') : i < j =>
                    /\ Wire(s)'[i].kind # "late" => Wire(s)'[j].of = r
                    /\ Terminal(Wire(s)'[i]) => Wire(s)'[j].kind = "late"
    <2>1. i + k \in 1..Len(Wire(s)) /\ Wire(s)'[i] = Wire(s)[i + k] BY <1>1
    <2>2. Wire(s)[i + k].of # r => Wire(s)[i + k].kind = "late" /\ ~created[r] BY <1>4, <2>1 DEF OwnOrLate
    <2>3. ASSUME NEW j \in 1..Len(Wire(s)'), i < j
          PROVE  /\ Wire(s)'[i].kind # "late" => Wire(s)'[j].of = r
                 /\ Terminal(Wire(s)'[i]) => Wire(s)'[j].kind = "late"
        <3>1. j + k \in 1..Len(Wire(s)) /\ Wire(s)'[j] = Wire(s)[j + k] BY <1>1
        <3>2. i + k < j + k BY <2>3
        <3>. QED BY <1>4, <2>1, <3>1, <3>2 DEF OwnOrLate
    <2>. QED BY <2>1, <2>2, <2>3
<1>5. OwnOrLate(r, s) => OwnOrLate(r, s)' BY <1>4 DEF OwnOrLate, Terminal
<1>. QED BY <1>3, <1>5


----------------------------------------------------------------------------
(* A socket and its user.                                                  *)

\* Most steps make no user of a socket and leave a part of what is on its wire,
\* and an entry that stays keeps its user.
UsersSame ==
    /\ UNCHANGED <<tainted, created>>
    /\ \A q, s \in Requests : Uses(q, s)' => Uses(q, s) /\ (pc'[q] \in Unsent => pc[q] \in Unsent)
    /\ \A s \in Requests : pool'.sock = s => pool.sock = s /\ \A q \in Requests : Uses(q, s) => Uses(q, s)'
Parts == \A s \in Requests : Part(s)

LEMMA HandedOverKept ==
    ASSUME TypeOK, TypeOK', HandedOver, UsersSame, Parts
    PROVE  HandedOver'
<1>. SUFFICES ASSUME NEW s \in Requests, s \notin tainted
              PROVE  /\ \A q, r \in Requests : Uses(q, s)' /\ Uses(r, s)' => q = r
                     /\ pool'.sock = s /\ (\A r \in Requests : ~Uses(r, s)') => AllLate(s)'
                     /\ \A r \in Requests : Uses(r, s)' => OwnOrLate(r, s)' /\ (pc'[r] \in Unsent => AllLate(s)')
    BY DEF HandedOver, UsersSame
<1>1. /\ \A q, r \in Requests : Uses(q, s) /\ Uses(r, s) => q = r
      /\ pool.sock = s /\ (\A r \in Requests : ~Uses(r, s)) => AllLate(s)
      /\ \A r \in Requests : Uses(r, s) => OwnOrLate(r, s) /\ (pc[r] \in Unsent => AllLate(s))
    BY DEF HandedOver
<1>2. AllLate(s) => AllLate(s)' BY PartKeeps DEF Parts, UsersSame
<1>3. \A r \in Requests : OwnOrLate(r, s) => OwnOrLate(r, s)' BY PartKeeps DEF Parts, UsersSame
<1>. QED BY <1>1, <1>2, <1>3 DEF UsersSame

LEMMA WiresStay ==
    ASSUME TypeOK, UNCHANGED <<inbox, todo>>
    PROVE  Parts
<1>1. \A s \in Requests : Wire(s)' = Wire(s) BY DEF Wire
<1>. QED BY <1>1, WireSame DEF Parts

LEMMA WiresRead ==
    ASSUME TypeOK, NEW t, inbox[t] # <<>>, inbox' = [inbox EXCEPT ![t] = Tail(@)], UNCHANGED todo
    PROVE  Parts
<1>. SUFFICES ASSUME NEW s \in Requests PROVE Part(s) BY DEF Parts
<1>1. CASE s = t
    <2>1. inbox'[s] = Tail(inbox[s]) BY <1>1 DEF TypeOK
    <2>. QED BY <1>1, <2>1, WireRead
<1>2. CASE s # t
    <2>1. inbox'[s] = inbox[s] BY <1>2 DEF TypeOK
    <2>. QED BY <2>1, WireSame DEF Wire
<1>. QED BY <1>1, <1>2

LEMMA UsersSameStep ==
    ASSUME TypeOK, TypeOK', Course, SocketsOfCalls, HandedOver, NEW r \in Requests,
           \/ Start(r) \/ CancelConnecting(r) \/ WatchPing(r) \/ CheckActive(r) \/ CountUnpooled(r)
           \/ FindNoEntry(r) \/ CountPooled(r) \/ ConnectFails(r) \/ Locked(r) \/ ProbeSucceeds(r)
           \/ SurfaceSendError(r) \/ FirstPoll(r) \/ StreamLocked(r) \/ Unlock(r) \/ DropCount(r)
           \/ WatchStart(r) \/ WatchCancelled(r) \/ WatchIdle(r) \/ WatchEvict(r)
    PROVE  HandedOver'
<1>0. pc \in [Requests -> Stages] BY DEF TypeOK
<1>. USE <1>0, Apart DEF Goto, Uses, Holding, Unsent, Acquiring, poolVars, handleVars, wireVars, streamVars,
     RemovePooledEntry, NoEntry
<1>1. CASE Start(r)
    <2>1. UsersSame BY <1>1 DEF Start, UsersSame
    <2>. QED BY <2>1, <1>1, WiresStay, HandedOverKept DEF Start
<1>2. CASE CancelConnecting(r)
    <2>1. UsersSame BY <1>2 DEF CancelConnecting, UsersSame
    <2>. QED BY <2>1, <1>2, WiresStay, HandedOverKept DEF CancelConnecting
<1>3. CASE WatchPing(r)
    <2>1. UsersSame BY <1>3 DEF WatchPing, UsersSame
    <2>. QED BY <2>1, <1>3, WiresStay, HandedOverKept DEF WatchPing
<1>4. CASE CheckActive(r)
    <2>1. UsersSame BY <1>4 DEF CheckActive, UsersSame
    <2>. QED BY <2>1, <1>4, WiresStay, HandedOverKept DEF CheckActive
<1>5. CASE CountUnpooled(r)
    <2>1. UsersSame BY <1>5 DEF CountUnpooled, UsersSame
    <2>. QED BY <2>1, <1>5, WiresStay, HandedOverKept DEF CountUnpooled
<1>6. CASE FindNoEntry(r)
    <2>1. UsersSame BY <1>6 DEF FindNoEntry, UsersSame
    <2>. QED BY <2>1, <1>6, WiresStay, HandedOverKept DEF FindNoEntry
<1>7. CASE CountPooled(r)
    <2>3. ASSUME pc[r] = "cold" /\ pc' = [pc EXCEPT ![r] = "connecting"] PROVE UsersSame
        BY <2>3, <1>7 DEF CountPooled, UsersSame
    <2>4. ASSUME pc[r] = "reusing" /\ pc' = [pc EXCEPT ![r] = "waiting"] PROVE UsersSame
        BY <2>4, <1>7 DEF CountPooled, UsersSame
    <2>1. UsersSame BY <2>3, <2>4, <1>7 DEF CountPooled
    <2>. QED BY <2>1, <1>7, WiresStay, HandedOverKept DEF CountPooled
<1>8. CASE ConnectFails(r)
    <2>1. UsersSame BY <1>8 DEF ConnectFails, UsersSame
    <2>. QED BY <2>1, <1>8, WiresStay, HandedOverKept DEF ConnectFails
<1>9. CASE Locked(r)
    <2>1. UsersSame BY <1>9 DEF Locked, UsersSame
    <2>. QED BY <2>1, <1>9, WiresStay, HandedOverKept DEF Locked
<1>10. CASE ProbeSucceeds(r)
    <2>1. UsersSame BY <1>10 DEF ProbeSucceeds, UsersSame
    <2>. QED BY <2>1, <1>10, WiresStay, HandedOverKept DEF ProbeSucceeds
<1>11. CASE SurfaceSendError(r)
    <2>1. UsersSame BY <1>11 DEF SurfaceSendError, UsersSame
    <2>. QED BY <2>1, <1>11, WiresStay, HandedOverKept DEF SurfaceSendError
<1>12. CASE FirstPoll(r)
    <2>1. UsersSame BY <1>12 DEF FirstPoll, UsersSame
    <2>. QED BY <2>1, <1>12, WiresStay, HandedOverKept DEF FirstPoll
<1>13. CASE StreamLocked(r)
    <2>1. UsersSame BY <1>13 DEF StreamLocked, UsersSame
    <2>. QED BY <2>1, <1>13, WiresStay, HandedOverKept DEF StreamLocked
<1>14. CASE Unlock(r)
    <2>1. UsersSame BY <1>14 DEF Unlock, UsersSame
    <2>. QED BY <2>1, <1>14, WiresStay, HandedOverKept DEF Unlock
<1>15. CASE DropCount(r)
    <2>1. UsersSame BY <1>15 DEF DropCount, UsersSame
    <2>. QED BY <2>1, <1>15, WiresStay, HandedOverKept DEF DropCount
<1>16. CASE WatchStart(r)
    <2>1. UsersSame BY <1>16 DEF WatchStart, UsersSame
    <2>. QED BY <2>1, <1>16, WiresStay, HandedOverKept DEF WatchStart
<1>17. CASE WatchCancelled(r)
    <2>1. UsersSame BY <1>17 DEF WatchCancelled, UsersSame
    <2>. QED BY <2>1, <1>17, WiresStay, HandedOverKept DEF WatchCancelled
<1>18. CASE WatchIdle(r)
    <2>1. UsersSame BY <1>18 DEF WatchIdle, UsersSame, Watching
    <2>. QED BY <2>1, <1>18, WiresStay, HandedOverKept DEF WatchIdle
<1>19. CASE WatchEvict(r)
    <2>1. UsersSame BY <1>19 DEF WatchEvict, UsersSame
    <2>. QED BY <2>1, <1>19, WiresStay, HandedOverKept DEF WatchEvict
<1>. QED BY <1>1, <1>2, <1>3, <1>4, <1>5, <1>6, <1>7, <1>8, <1>9, <1>10, <1>11, <1>12, <1>13, <1>14,
    <1>15, <1>16, <1>17, <1>18, <1>19

LEMMA WireStep ==
    ASSUME TypeOK, TypeOK', Course, SocketsOfCalls, HandedOver, NEW r \in Requests,
           ServerSends(r) \/ ServerCloses(r) \/ ProbeFails(r) \/ ReadFails(r) \/ WatchRead(r)
    PROVE  HandedOver'
<1>0. /\ pc \in [Requests -> Stages]
      /\ inbox \in [Requests -> Seq(Frames)] /\ todo \in [Requests -> Seq(Frames)]
    BY DEF TypeOK
<1>. USE <1>0, Apart DEF Goto, Uses, Holding, Unsent, Acquiring, poolVars, handleVars, wireVars, streamVars,
     RemovePooledEntry, NoEntry
<1>1. CASE ServerSends(r)
    <2>1. UsersSame BY <1>1 DEF ServerSends, UsersSame
    <2>2. ASSUME NEW s \in Requests PROVE Part(s)
        <3>1. CASE s = r BY <3>1, <1>1, WireMoves DEF ServerSends
        <3>2. CASE s # r BY <3>2, <1>1, WireSame DEF ServerSends, Wire
        <3>. QED BY <3>1, <3>2
    <2>. QED BY <2>1, <2>2, HandedOverKept DEF Parts
<1>2. CASE ServerCloses(r)
    <2>1. UsersSame BY <1>2 DEF ServerCloses, UsersSame
    <2>2. ASSUME NEW s \in Requests PROVE Part(s)
        <3>1. CASE s = r BY <3>1, <1>2, WireCloses DEF ServerCloses
        <3>2. CASE s # r BY <3>2, <1>2, WireSame DEF ServerCloses, Wire
        <3>. QED BY <3>1, <3>2
    <2>. QED BY <2>1, <2>2, HandedOverKept DEF Parts
<1>3. CASE ProbeFails(r)
    <2>1. pool' = pool \/ pool'.sock = None BY <1>3 DEF ProbeFails
    <2>2. UsersSame BY <2>1, <1>3 DEF ProbeFails, UsersSame
    <2>3. Parts BY <1>3, WiresStay, WiresRead DEF ProbeFails
    <2>. QED BY <2>2, <2>3, HandedOverKept
<1>4. CASE ReadFails(r)
    <2>1. pool' = pool \/ pool'.sock = None BY <1>4 DEF ReadFails
    <2>2. UsersSame BY <2>1, <1>4 DEF ReadFails, UsersSame
    <2>3. Parts BY <1>4, WiresStay, WiresRead DEF ReadFails
    <2>. QED BY <2>2, <2>3, HandedOverKept
<1>5. CASE WatchRead(r)
    <2>1. UsersSame BY <1>5 DEF WatchRead, UsersSame
    <2>2. Parts BY <1>5, WiresStay, WiresRead DEF WatchRead
    <2>. QED BY <2>1, <2>2, HandedOverKept
<1>. QED BY <1>1, <1>2, <1>3, <1>4, <1>5

\* A call that takes the entry finds only late frames, or uses it with another.
LEMMA TakeStep ==
    ASSUME TypeOK, TypeOK', Course, SocketsOfCalls, HandedOver, NEW r \in Requests, TakeEntry(r)
    PROVE  HandedOver'
<1>. DEFINE t == pool.sock
<1>1. /\ t \in Requests /\ pool'.sock = t /\ sock' = [sock EXCEPT ![r] = t] /\ UNCHANGED <<reusable, created, inbox, todo>>
      /\ pc[r] = "quiet" /\ pc' = [pc EXCEPT ![r] = "reusing"]
    BY Apart DEF TakeEntry, TypeOK, Goto, handleVars, wireVars, streamVars
<1>2. \A q, s \in Requests : Uses(q, s)' <=> Uses(q, s) \/ (q = r /\ s = t)
    <2>1. ~reusable[r] /\ ~Holding(r) BY <1>1 DEF Course, Holding, Ending
    <2>2. \A q \in Requests \ {r} : pc'[q] = pc[q] /\ sock'[q] = sock[q] BY <1>1 DEF TypeOK
    <2>3. pc'[r] = "reusing" /\ sock'[r] = t BY <1>1 DEF TypeOK
    <2>. QED BY <1>1, <2>1, <2>2, <2>3 DEF Uses, Holding
<1>3. \A s : Wire(s)' = Wire(s) BY <1>1 DEF Wire
<1>4. ~created[r] BY <1>1 DEF Course, Unread, Unsent, Acquiring
<1>5. tainted \subseteq tainted' /\ (t \notin tainted' => \A c \in Requests : ~Uses(c, t))
    <2>1. ~Uses(r, t) BY <1>1 DEF Uses, Holding
    <2>. QED BY <2>1 DEF TakeEntry, Uses
<1>6. \A q \in Requests : pc'[q] \in Unsent => pc[q] \in Unsent BY <1>1 DEF TypeOK, Unsent, Acquiring
<1>7. \A q, s \in Requests : /\ AllLate(s)' <=> AllLate(s)
                             /\ OwnOrLate(q, s)' <=> OwnOrLate(q, s)
    BY <1>1, <1>3 DEF AllLate, OwnOrLate
<1>8. AllLate(t) => OwnOrLate(r, t) BY <1>4 DEF AllLate, OwnOrLate, Terminal
<1>. SUFFICES ASSUME NEW s \in Requests, s \notin tainted'
              PROVE  /\ \A q, c \in Requests : Uses(q, s)' /\ Uses(c, s)' => q = c
                     /\ pool'.sock = s /\ (\A c \in Requests : ~Uses(c, s)') => AllLate(s)'
                     /\ \A c \in Requests : Uses(c, s)' => OwnOrLate(c, s)' /\ (pc'[c] \in Unsent => AllLate(s)')
    BY DEF HandedOver
<1>9. CASE s = t
    <2>1. \A c \in Requests : ~Uses(c, t) BY <1>5, <1>9
    <2>2. AllLate(t) BY <2>1, <1>1, <1>5, <1>9 DEF HandedOver
    <2>. HIDE DEF t
    <2>. QED BY <1>1, <1>2, <1>7, <1>8, <1>9, <2>1, <2>2
<1>10. CASE s # t
    <2>. HIDE DEF t
    <2>. QED BY <1>1, <1>2, <1>5, <1>6, <1>7, <1>10 DEF HandedOver
<1>. QED BY <1>9, <1>10

\* A fresh socket has nothing on its wire and one user.
LEMMA ConnectStep ==
    ASSUME TypeOK, TypeOK', Course, SocketsOfCalls, HandedOver, NEW r \in Requests, Connect(r)
    PROVE  HandedOver'
<1>1. /\ sock' = [sock EXCEPT ![r] = r] /\ UNCHANGED <<reusable, created, inbox, todo, tainted>>
      /\ pc[r] = "connecting" /\ pc' = [pc EXCEPT ![r] = "waiting"]
      /\ pool'.sock \in {pool.sock, r}
    BY DEF Connect, Goto, wireVars, streamVars
<1>2. Unopened(r) BY <1>1 DEF Unopened, Acquiring
<1>3. (\A q \in Requests : sock[q] # r) /\ inbox[r] = <<>> /\ todo[r] = <<>> BY <1>2 DEF SocketsOfCalls
<1>4. \A q, s \in Requests : Uses(q, s)' <=> Uses(q, s) \/ (q = r /\ s = r)
    <2>1. ~reusable[r] /\ ~Holding(r) BY <1>1 DEF Course, Holding, Ending
    <2>2. \A q \in Requests \ {r} : pc'[q] = pc[q] /\ sock'[q] = sock[q] BY <1>1 DEF TypeOK
    <2>3. pc'[r] = "waiting" /\ sock'[r] = r BY <1>1 DEF TypeOK
    <2>. QED BY <1>1, <2>1, <2>2, <2>3 DEF Uses, Holding
<1>5. \A s : Wire(s)' = Wire(s) BY <1>1 DEF Wire
<1>6. Len(Wire(r)) = 0 BY <1>3 DEF Wire
<1>7. AllLate(r) /\ OwnOrLate(r, r) BY <1>6 DEF AllLate, OwnOrLate
<1>8. \A q \in Requests : pc'[q] \in Unsent => pc[q] \in Unsent BY <1>1 DEF TypeOK, Unsent, Acquiring
<1>9. \A q, s \in Requests : /\ AllLate(s)' <=> AllLate(s)
                             /\ OwnOrLate(q, s)' <=> OwnOrLate(q, s)
    BY <1>1, <1>5 DEF AllLate, OwnOrLate
<1>10. \A q \in Requests : ~Uses(q, r) BY <1>3 DEF Uses
<1>. QED BY <1>1, <1>4, <1>7, <1>8, <1>9, <1>10 DEF HandedOver


\* The only user of a socket with late frames sends: its answer is put behind them.
LEMMA SendStep ==
    ASSUME TypeOK, TypeOK', Course, SocketsOfCalls, HandedOver, NEW r \in Requests,
           SendSucceeds(r) \/ SendFails(r) \/ Cancel(r)
    PROVE  HandedOver'
<1>0. pc \in [Requests -> Stages] /\ todo \in [Requests -> Seq(Frames)] BY DEF TypeOK
<1>1. UsersSame
    <2>1. CASE SendSucceeds(r) BY <1>0, <2>1 DEF SendSucceeds, UsersSame, Goto, Uses, Holding, Unsent, Acquiring,
                   poolVars, handleVars, streamVars
    <2>2. CASE SendFails(r) BY <1>0, <2>2 DEF SendFails, UsersSame, Goto, Uses, Holding, Unsent, Acquiring,
                   poolVars, handleVars, streamVars
    <2>3. CASE Cancel(r) BY <1>0, <2>3 DEF Cancel, UsersSame, Goto, Uses, Holding, Unsent, Acquiring,
                   poolVars, handleVars, streamVars
    <2>. QED BY <2>1, <2>2, <2>3
<1>2. CASE UNCHANGED <<inbox, todo>> BY <1>1, <1>2, WiresStay, HandedOverKept
<1>3. CASE Deliver(r) /\ pc[r] = "sending" /\ UNCHANGED inbox
    <2>1. Holding(r) /\ ~reusable[r] /\ ~created[r] BY <1>3 DEF Holding, Course, Ending, Unread, Unsent
    <2>15. PICK t \in Requests : t = sock[r] BY <2>1, SocketHeld
    <2>2. Uses(r, t) BY <2>1, <2>15 DEF Uses
    <2>3. PICK script \in Scripts(r) : todo' = [todo EXCEPT ![t] = @ \o script] BY <1>3, <2>15 DEF Deliver
    <2>4. /\ script \in Seq(Frames)
          /\ \A i \in 1..Len(script) :
               /\ script[i].of = r
               /\ \A j \in 1..Len(script) : i < j /\ Terminal(script[i]) => script[j].kind = "late"
        BY ScriptsOf
    <2>5. todo'[t] = todo[t] \o script /\ \A s \in Requests \ {t} : todo'[s] = todo[s] BY <1>0, <2>3
    <2>6. pc'[r] \notin Unsent
        <3>1. \E stage \in {"between", "erring", "closing"} : pc' = [pc EXCEPT ![r] = stage]
            <4>1. CASE SendSucceeds(r) BY <4>1 DEF SendSucceeds, Goto
            <4>2. CASE SendFails(r) BY <4>2 DEF SendFails, Goto
            <4>3. CASE Cancel(r) BY <4>3 DEF Cancel, Goto
            <4>. QED BY <4>1, <4>2, <4>3
        <3>. QED BY <1>0, <3>1 DEF Unsent, Acquiring
    <2>7. created' = created /\ tainted' = tainted BY <1>1 DEF UsersSame
    <2>8. ASSUME AllLate(t) PROVE OwnOrLate(r, t)'
        <3>1. \A i \in 1..Len(Wire(t)) : Wire(t)[i].kind = "late" BY <2>8 DEF AllLate
        <3>2. \A i \in 1..Len(Wire(t)') :
                  IF i <= Len(Wire(t))
                    THEN i \in 1..Len(Wire(t)) /\ Wire(t)'[i] = Wire(t)[i]
                    ELSE i - Len(Wire(t)) \in 1..Len(script) /\ Wire(t)'[i] = script[i - Len(Wire(t))]
            <4>1. inbox'[t] = inbox[t] BY <1>3
            <4>. QED BY <2>4, <2>5, <4>1, WireGrows
        <3>3. Len(Wire(t)) \in Nat BY <2>2, WireType
        <3>. SUFFICES ASSUME NEW i \in 1..Len(Wire(t)')
                      PROVE  /\ Wire(t)'[i].of # r => Wire(t)'[i].kind = "late" /\ ~created'[r]
                             /\ \A j \in 1..Len(Wire(t)') : i < j =>
                                    /\ Wire(t)'[i].kind # "late" => Wire(t)'[j].of = r
                                    /\ Terminal(Wire(t)'[i]) => Wire(t)'[j].kind = "late"
            BY DEF OwnOrLate, Terminal
        <3>4. CASE i <= Len(Wire(t)) BY <2>1, <2>7, <3>1, <3>2, <3>4 DEF Terminal
        <3>5. CASE ~(i <= Len(Wire(t)))
            <4>1. i - Len(Wire(t)) \in 1..Len(script) /\ Wire(t)'[i] = script[i - Len(Wire(t))] BY <3>2, <3>5
            <4>2. ASSUME NEW j \in 1..Len(Wire(t)'), i < j
                  PROVE  Wire(t)'[j].of = r /\ (Terminal(Wire(t)'[i]) => Wire(t)'[j].kind = "late")
                <5>1. ~(j <= Len(Wire(t))) BY <3>3, <3>5, <4>2
                <5>2. j - Len(Wire(t)) \in 1..Len(script) /\ Wire(t)'[j] = script[j - Len(Wire(t))] BY <3>2, <5>1
                <5>3. i - Len(Wire(t)) < j - Len(Wire(t)) BY <3>3, <4>2
                <5>. QED BY <2>4, <4>1, <5>2, <5>3
            <4>. QED BY <2>4, <4>1, <4>2
        <3>. QED BY <3>4, <3>5
    <2>9. \A s \in Requests \ {t} : Wire(s)' = Wire(s) BY <1>3, <2>5 DEF Wire
    <2>10. \A s \in Requests \ {t} : Part(s) BY <2>9, WireSame
    <2>11. \A s \in Requests \ {t}, q \in Requests :
              (AllLate(s) => AllLate(s)') /\ (OwnOrLate(q, s) => OwnOrLate(q, s)')
        BY <2>7, <2>10, PartKeeps
    <2>. SUFFICES ASSUME NEW s \in Requests, s \notin tainted
                  PROVE  /\ \A q, c \in Requests : Uses(q, s)' /\ Uses(c, s)' => q = c
                         /\ pool'.sock = s /\ (\A c \in Requests : ~Uses(c, s)') => AllLate(s)'
                         /\ \A c \in Requests : Uses(c, s)' => OwnOrLate(c, s)' /\ (pc'[c] \in Unsent => AllLate(s)')
        BY <2>7 DEF HandedOver
    <2>12. /\ \A q, c \in Requests : Uses(q, s) /\ Uses(c, s) => q = c
           /\ pool.sock = s /\ (\A c \in Requests : ~Uses(c, s)) => AllLate(s)
           /\ \A c \in Requests : Uses(c, s) => OwnOrLate(c, s) /\ (pc[c] \in Unsent => AllLate(s))
        BY DEF HandedOver
    <2>13. CASE s = t
        <3>1. AllLate(t) BY <1>3, <2>2, <2>12, <2>13 DEF Unsent
        <3>2. \A c \in Requests : Uses(c, s)' => c = r BY <1>1, <2>2, <2>12, <2>13 DEF UsersSame
        <3>3. pool'.sock = s => Uses(r, s)' BY <1>1, <2>2, <2>13 DEF UsersSame
        <3>. QED BY <2>6, <2>8, <2>13, <3>1, <3>2, <3>3
    <2>14. CASE s # t BY <1>1, <2>11, <2>12, <2>14 DEF UsersSame
    <2>. QED BY <2>13, <2>14
<1>. QED BY <1>2, <1>3 DEF SendSucceeds, SendFails, Cancel

\* What the reader of a socket accepts is its own, and after its terminal frame
\* there are only late ones.
LEMMA ReadStep ==
    ASSUME TypeOK, TypeOK', Course, SocketsOfCalls, HandedOver, NEW r \in Requests, ReadFrame(r)
    PROVE  /\ HandedOver'
           /\ sock[r] \notin tainted => Head(inbox[sock[r]]).of = r
<1>2. Holding(r) /\ ~reusable[r] BY DEF ReadFrame, Holding, Course, Ending
<1>3. PICK t \in Requests : t = sock[r] BY <1>2, SocketHeld
<1>4. PICK f \in Frames : f = Head(inbox[t])
    <2>1. inbox[t] # <<>> BY <1>3 DEF ReadFrame
    <2>. QED BY <2>1, WireType
<1>1. /\ pc[r] = "reading" /\ inbox[t] # <<>> /\ Accepts(r, f)
      /\ inbox' = [inbox EXCEPT ![t] = Tail(@)] /\ UNCHANGED <<todo, pool, sock, tainted>>
      /\ created' = [created EXCEPT ![r] = @ \/ f.kind = "created"]
      /\ \/ /\ Terminal(f) /\ reusable' = [reusable EXCEPT ![r] = TRUE] /\ pc' = [pc EXCEPT ![r] = "closing"]
         \/ ~Terminal(f) /\ UNCHANGED <<reusable, pc>>
    BY <1>3, <1>4 DEF ReadFrame, Goto, poolVars
<1>18. Uses(r, t) BY <1>2, <1>3 DEF Uses
<1>5. /\ 1 \in 1..Len(Wire(t)) /\ Wire(t)[1] = f
      /\ \A i \in 1..Len(Wire(t)') : i + 1 \in 1..Len(Wire(t)) /\ Wire(t)'[i] = Wire(t)[i + 1]
      /\ Part(t)
    <2>1. inbox'[t] = Tail(inbox[t]) /\ todo'[t] = todo[t] BY <1>1 DEF TypeOK
    <2>. QED BY <2>1, <1>1, <1>4, WireRead
<1>6. \A q, s \in Requests : Uses(q, s)' <=> Uses(q, s) /\ (q = r => ~Terminal(f))
    <2>1. CASE ~Terminal(f) BY <1>1, <2>1 DEF Uses, Holding
    <2>2. CASE Terminal(f)
        <3>1. /\ reusable'[r] /\ pc'[r] = "closing"
              /\ \A q \in Requests \ {r} : pc'[q] = pc[q] /\ reusable'[q] = reusable[q]
            BY <1>1, <2>2 DEF TypeOK
        <3>. QED BY <1>1, <2>2, <3>1 DEF Uses, Holding
    <2>. QED BY <2>1, <2>2
<1>7. \A s \in Requests \ {t} : Part(s)
    <2>1. \A s \in Requests \ {t} : inbox'[s] = inbox[s] BY <1>1 DEF TypeOK
    <2>. QED BY <1>1, <2>1, WireSame DEF Wire
<1>8. \A q \in Requests : pc'[q] \in Unsent => pc[q] \in Unsent
    <2>1. CASE pc' = pc BY <2>1
    <2>2. CASE pc' = [pc EXCEPT ![r] = "closing"] BY <2>2 DEF TypeOK, Unsent, Acquiring
    <2>. QED BY <1>1, <2>1, <2>2
<1>9. \A q \in Requests \ {r} : created'[q] = created[q] BY <1>1 DEF TypeOK
<1>10. \A s \in Requests : Part(s) BY <1>5, <1>7
<1>11. \A s \in Requests : AllLate(s) => AllLate(s)'
    BY <1>10 DEF Part, AllLate
<1>12. \A s \in Requests, q \in Requests \ {r} : OwnOrLate(q, s) => OwnOrLate(q, s)'
    BY <1>9, <1>10, PartKeeps
<1>13. ASSUME t \notin tainted
       PROVE  /\ f.of = r
              /\ OwnOrLate(r, t)'
              /\ Terminal(f) => AllLate(t)'
              /\ \A c \in Requests : Uses(c, t) => c = r
    <2>1. OwnOrLate(r, t) /\ \A c \in Requests : Uses(c, t) => c = r BY <1>18, <1>13 DEF HandedOver
    <2>2. f.of = r BY <1>1, <1>5, <2>1 DEF OwnOrLate, Accepts
    <2>3. \A i \in 1..Len(Wire(t)') : 1 < i + 1 /\ i + 1 \in 1..Len(Wire(t)) /\ Wire(t)'[i] = Wire(t)[i + 1]
        BY <1>3, <1>5, WireType
    <2>4. Terminal(f) => AllLate(t)' BY <1>5, <2>1, <2>3 DEF OwnOrLate, AllLate, Terminal
    <2>5. ASSUME NEW i \in 1..Len(Wire(t)')
          PROVE  /\ Wire(t)'[i].of # r => Wire(t)'[i].kind = "late" /\ ~created'[r]
                 /\ \A j \in 1..Len(Wire(t)') : i < j =>
                        /\ Wire(t)'[i].kind # "late" => Wire(t)'[j].of = r
                        /\ Terminal(Wire(t)'[i]) => Wire(t)'[j].kind = "late"
        <3>1. Wire(t)[i + 1].of # r => Wire(t)[i + 1].kind = "late" /\ ~created[r] BY <2>1, <2>3 DEF OwnOrLate
        <3>2. f.kind = "created" => Wire(t)[i + 1].of = r BY <1>5, <2>1, <2>3 DEF OwnOrLate
        <3>3. created'[r] = (created[r] \/ f.kind = "created") BY <1>1 DEF TypeOK
        <3>4. \A j \in 1..Len(Wire(t)') : i < j => i + 1 < j + 1 OBVIOUS
        <3>. QED BY <2>1, <2>3, <3>1, <3>2, <3>3, <3>4 DEF OwnOrLate, Terminal
    <2>6. OwnOrLate(r, t)' BY <2>5 DEF OwnOrLate, Terminal
    <2>. QED BY <2>1, <2>2, <2>4, <2>6
<1>14. \A s \in Requests : Uses(r, s) => s = t BY <1>3 DEF Uses
<1>. SUFFICES ASSUME NEW s \in Requests, s \notin tainted
              PROVE  /\ \A q, c \in Requests : Uses(q, s)' /\ Uses(c, s)' => q = c
                     /\ pool'.sock = s /\ (\A c \in Requests : ~Uses(c, s)') => AllLate(s)'
                     /\ \A c \in Requests : Uses(c, s)' => OwnOrLate(c, s)' /\ (pc'[c] \in Unsent => AllLate(s)')
    BY <1>1, <1>3, <1>4, <1>13 DEF HandedOver
<1>15. /\ \A q, c \in Requests : Uses(q, s) /\ Uses(c, s) => q = c
       /\ pool.sock = s /\ (\A c \in Requests : ~Uses(c, s)) => AllLate(s)
       /\ \A c \in Requests : Uses(c, s) => OwnOrLate(c, s) /\ (pc[c] \in Unsent => AllLate(s))
    BY DEF HandedOver
<1>16. CASE s = t BY <1>1, <1>6, <1>8, <1>11, <1>13, <1>15, <1>16, <1>18
<1>17. CASE s # t BY <1>1, <1>6, <1>8, <1>11, <1>12, <1>14, <1>15, <1>17
<1>. QED BY <1>16, <1>17

\* A handle that goes was no user any more, or its entry goes with it.
LEMMA DropStep ==
    ASSUME TypeOK, TypeOK', Course, SocketsOfCalls, HandedOver, NEW r \in Requests, DropEntry(r)
    PROVE  HandedOver'
<1>1. /\ pc[r] = "releasing" /\ UNCHANGED <<sock, reusable, created, inbox, todo, tainted>>
      /\ pc' = [pc EXCEPT ![r] = "acquiring"] \/ pc' = [pc EXCEPT ![r] = "ended"]
    BY DEF DropEntry, Goto, handleVars, streamVars, wireVars
<1>2. Holding(r) BY <1>1 DEF Holding
<1>3. \A q, s \in Requests : Uses(q, s)' <=> Uses(q, s) /\ q # r
    <2>1. pc'[r] \in {"acquiring", "ended"} /\ \A q \in Requests \ {r} : pc'[q] = pc[q] BY <1>1 DEF TypeOK
    <2>. QED BY <1>1, <2>1 DEF Uses, Holding
<1>4. pool'.sock \in {pool.sock, None}
    <2>1. CASE ~pooled[r] BY <2>1 DEF DropEntry
    <2>2. CASE pooled[r] BY <2>2, SettleSocket DEF DropEntry
    <2>. QED BY <2>1, <2>2
<1>5. \A s \in Requests : Uses(r, s) => pool'.sock # s
    <2>. SUFFICES ASSUME NEW s \in Requests, Uses(r, s) PROVE pool'.sock # s OBVIOUS
    <2>1. sock[r] = s /\ ~reusable[r] BY DEF Uses
    <2>2. CASE pooled[r]
        <3>1. RemovePooledEntry(s) BY <2>1, <2>2 DEF DropEntry, Settle
        <3>. QED BY <3>1, Apart DEF RemovePooledEntry, NoEntry
    <2>3. CASE ~pooled[r]
        <3>1. sock[r] = r BY <1>2, <2>3 DEF SocketsOfCalls
        <3>2. pool.sock # r BY <2>3 DEF SocketsOfCalls
        <3>. QED BY <1>4, <2>1, <3>1, <3>2, Apart
    <2>. QED BY <2>2, <2>3
<1>6. \A q \in Requests : pc'[q] \in Unsent /\ q # r => pc[q] \in Unsent BY <1>1 DEF TypeOK
<1>7. UsersSame BY <1>1, <1>3, <1>4, <1>5, <1>6, Apart DEF UsersSame
<1>. QED BY <1>1, <1>7, WiresStay, HandedOverKept


LEMMA HandedStep ==
    ASSUME TypeOK, TypeOK', Course, SocketsOfCalls, HandedOver, [Next]_vars
    PROVE  HandedOver'
<1>1. CASE UNCHANGED vars
    <2>1. UsersSame BY <1>1 DEF vars, UsersSame, Uses, Holding
    <2>. QED BY <2>1, <1>1, WiresStay, HandedOverKept DEF vars
<1>2. CASE Next
    BY <1>2, UsersSameStep, WireStep, TakeStep, ConnectStep, SendStep, ReadStep, DropStep
    DEF Next, RequestStep, WatchStep
<1>. QED BY <1>1, <1>2

LEMMA OwnFramesStep ==
    ASSUME TypeOK, TypeOK', Course, SocketsOfCalls, HandedOver, OwnFrames, [Next]_vars
    PROVE  OwnFrames'
<1>. DEFINE SoFar == tainted \subseteq tainted' /\ \A q \in Requests : UNCHANGED <<got[q], sock[q]>> \/ got'[q] = {}
<1>. USE DEF streamVars, handleVars, wireVars
<1>1. ASSUME NEW r \in Requests, Start(r) PROVE SoFar BY <1>1 DEF Start
<1>2. ASSUME NEW r \in Requests, CancelConnecting(r) PROVE SoFar BY <1>2 DEF CancelConnecting
<1>3. ASSUME NEW r \in Requests, Cancel(r) PROVE SoFar BY <1>3 DEF Cancel
<1>4. ASSUME NEW r \in Requests, WatchPing(r) PROVE SoFar BY <1>4 DEF WatchPing
<1>5. ASSUME NEW r \in Requests, ServerSends(r) PROVE SoFar BY <1>5 DEF ServerSends
<1>6. ASSUME NEW r \in Requests, ServerCloses(r) PROVE SoFar BY <1>6 DEF ServerCloses
<1>7. ASSUME NEW r \in Requests, CheckActive(r) PROVE SoFar BY <1>7 DEF CheckActive
<1>8. ASSUME NEW r \in Requests, CountUnpooled(r) PROVE SoFar BY <1>8 DEF CountUnpooled
<1>9. ASSUME NEW r \in Requests, FindNoEntry(r) PROVE SoFar BY <1>9 DEF FindNoEntry
<1>10. ASSUME NEW r \in Requests, CountPooled(r) PROVE SoFar BY <1>10 DEF CountPooled
<1>11. ASSUME NEW r \in Requests, ConnectFails(r) PROVE SoFar BY <1>11 DEF ConnectFails
<1>12. ASSUME NEW r \in Requests, Locked(r) PROVE SoFar BY <1>12 DEF Locked
<1>13. ASSUME NEW r \in Requests, ProbeSucceeds(r) PROVE SoFar BY <1>13 DEF ProbeSucceeds
<1>14. ASSUME NEW r \in Requests, ProbeFails(r) PROVE SoFar BY <1>14 DEF ProbeFails
<1>15. ASSUME NEW r \in Requests, SendSucceeds(r) PROVE SoFar BY <1>15 DEF SendSucceeds
<1>16. ASSUME NEW r \in Requests, SendFails(r) PROVE SoFar BY <1>16 DEF SendFails
<1>17. ASSUME NEW r \in Requests, SurfaceSendError(r) PROVE SoFar BY <1>17 DEF SurfaceSendError
<1>18. ASSUME NEW r \in Requests, FirstPoll(r) PROVE SoFar BY <1>18 DEF FirstPoll
<1>19. ASSUME NEW r \in Requests, StreamLocked(r) PROVE SoFar BY <1>19 DEF StreamLocked
<1>20. ASSUME NEW r \in Requests, ReadFails(r) PROVE SoFar BY <1>20 DEF ReadFails
<1>21. ASSUME NEW r \in Requests, Unlock(r) PROVE SoFar BY <1>21 DEF Unlock
<1>22. ASSUME NEW r \in Requests, DropCount(r) PROVE SoFar BY <1>22 DEF DropCount
<1>23. ASSUME NEW r \in Requests, DropEntry(r) PROVE SoFar BY <1>23 DEF DropEntry
<1>24. ASSUME NEW r \in Requests, WatchStart(r) PROVE SoFar BY <1>24 DEF WatchStart
<1>25. ASSUME NEW r \in Requests, WatchCancelled(r) PROVE SoFar BY <1>25 DEF WatchCancelled
<1>26. ASSUME NEW r \in Requests, WatchIdle(r) PROVE SoFar BY <1>26 DEF WatchIdle
<1>27. ASSUME NEW r \in Requests, WatchRead(r) PROVE SoFar BY <1>27 DEF WatchRead
<1>28. ASSUME NEW r \in Requests, WatchEvict(r) PROVE SoFar BY <1>28 DEF WatchEvict
<1>29. ASSUME UNCHANGED vars PROVE SoFar BY <1>29 DEF vars
<1>30. ASSUME NEW r \in Requests, TakeEntry(r) PROVE SoFar
    <2>1. got'[r] = {} BY <1>30 DEF TakeEntry, Course, Unread, Unsent, Acquiring
    <2>2. \A q \in Requests \ {r} : UNCHANGED <<got[q], sock[q]>> BY <1>30 DEF TakeEntry, TypeOK
    <2>. QED BY <2>1, <2>2, <1>30 DEF TakeEntry
<1>31. ASSUME NEW r \in Requests, Connect(r) PROVE SoFar
    <2>1. got'[r] = {} BY <1>31 DEF Connect, Course, Unread, Unsent, Acquiring
    <2>2. \A q \in Requests \ {r} : UNCHANGED <<got[q], sock[q]>> BY <1>31 DEF Connect, TypeOK
    <2>. QED BY <2>1, <2>2, <1>31 DEF Connect
<1>32. SoFar => OwnFrames' BY DEF OwnFrames
<1>33. ASSUME NEW r \in Requests, ReadFrame(r) PROVE OwnFrames'
    <2>1. UNCHANGED <<sock, tainted>> /\ got' = [got EXCEPT ![r] = @ \cup {Head(inbox[sock[r]]).of}]
        BY <1>33 DEF ReadFrame
    <2>2. sock[r] \notin tainted => Head(inbox[sock[r]]).of = r BY <1>33, ReadStep
    <2>3. \A q \in Requests : got'[q] = IF q = r THEN got[q] \cup {Head(inbox[sock[r]]).of} ELSE got[q]
        BY <2>1 DEF TypeOK
    <2>. QED BY <2>1, <2>2, <2>3 DEF OwnFrames
<1>. HIDE DEF SoFar
<1>34. SoFar \/ \E r \in Requests : ReadFrame(r)
    BY <1>1, <1>2, <1>3, <1>4, <1>5, <1>6, <1>7, <1>8, <1>9, <1>10, <1>11, <1>12, <1>13, <1>14,
       <1>15, <1>16, <1>17, <1>18, <1>19, <1>20, <1>21, <1>22, <1>23, <1>24, <1>25, <1>26, <1>27,
       <1>28, <1>29, <1>30, <1>31
       DEF Next, RequestStep, WatchStep
<1>. QED BY <1>32, <1>33, <1>34

----------------------------------------------------------------------------
(* The theorems.                                                           *)

LEMMA InvStep == IInv /\ [Next]_vars => IInv'
<1>. SUFFICES ASSUME IInv, [Next]_vars PROVE IInv' OBVIOUS
<1>1. TypeOK' BY TypeStep DEF IInv, PoolConsistent
<1>2. /\ ActiveCounted' /\ EntryCounted' /\ IdleWatched' /\ Course' /\ SocketsOfCalls'
    BY ActiveStep, EntryStep, IdleStep, CourseStep, SocketsStep DEF IInv, PoolConsistent
<1>3. HandedOver' /\ OwnFrames' BY <1>1, HandedStep, OwnFramesStep DEF IInv, PoolConsistent
<1>. QED BY <1>1, <1>2, <1>3 DEF IInv, PoolConsistent

\* A call that falls back or is tried again was sent nowhere, and none is sent
\* twice, so the upstream executes it once at most.
LEMMA InvSound == IInv => PoolSound
<1>. SUFFICES ASSUME IInv PROVE PoolSound OBVIOUS
<1>1. ASSUME NEW r \in Requests PROVE sends[r] + (IF outcome[r] = "fallback" THEN 1 ELSE 0) <= 1
    <2>1. sends[r] \in Nat BY DEF IInv, PoolConsistent, TypeOK
    <2>2. sends[r] <= 1 /\ (outcome[r] = "fallback" => sends[r] = 0) BY DEF IInv, Course
    <2>. QED BY <2>1, <2>2
<1>. QED BY <1>1 DEF IInv, PoolSound, OwnAnswer, AtMostOnce

\* The two maps agree with who uses what, no frame of one call reaches another
\* over a socket handed on in time, and the upstream executes no call twice,
\* however many calls share the pool.
THEOREM PoolSoundAlways == Spec => []PoolSound
<1>1. IInv /\ [Next]_vars => IInv' BY InvStep
<1>2. Init => IInv BY InvInit
<1>. QED BY <1>1, <1>2, InvSound, PTL DEF Spec

LEMMA EvictStep ==
    IInv /\ [Next]_vars =>
        [pool.sock # None /\ pool'.sock = None =>
          \E r \in Requests : /\ sock[r] = pool.sock
                              /\ <<pc[r], watcher[r]>>' # <<pc[r], watcher[r]>>]_vars
<1>. DEFINE Own == pool.sock # None /\ pool'.sock = None =>
                       \E r \in Requests : sock[r] = pool.sock /\ <<pc[r], watcher[r]>>' # <<pc[r], watcher[r]>>
<1>. SUFFICES ASSUME IInv, Next PROVE Own OBVIOUS
<1>1. TypeOK /\ SocketsOfCalls BY DEF IInv, PoolConsistent
<1>. USE <1>1, Apart DEF TypeOK, Goto, poolVars, RemovePooledEntry, NoEntry
<1>2. ASSUME NEW r \in Requests, Start(r) PROVE Own BY <1>2 DEF Start
<1>3. ASSUME NEW r \in Requests, CancelConnecting(r) PROVE Own BY <1>3 DEF CancelConnecting
<1>4. ASSUME NEW r \in Requests, Cancel(r) PROVE Own BY <1>4 DEF Cancel
<1>5. ASSUME NEW r \in Requests, WatchPing(r) PROVE Own BY <1>5 DEF WatchPing
<1>6. ASSUME NEW r \in Requests, ServerSends(r) PROVE Own BY <1>6 DEF ServerSends
<1>7. ASSUME NEW r \in Requests, ServerCloses(r) PROVE Own BY <1>7 DEF ServerCloses
<1>8. ASSUME NEW r \in Requests, CheckActive(r) PROVE Own BY <1>8 DEF CheckActive
<1>9. ASSUME NEW r \in Requests, CountUnpooled(r) PROVE Own BY <1>9 DEF CountUnpooled
<1>10. ASSUME NEW r \in Requests, TakeEntry(r) PROVE Own BY <1>10 DEF TakeEntry
<1>11. ASSUME NEW r \in Requests, FindNoEntry(r) PROVE Own BY <1>11 DEF FindNoEntry
<1>12. ASSUME NEW r \in Requests, CountPooled(r) PROVE Own BY <1>12 DEF CountPooled
<1>13. ASSUME NEW r \in Requests, Connect(r) PROVE Own BY <1>13 DEF Connect
<1>14. ASSUME NEW r \in Requests, ConnectFails(r) PROVE Own BY <1>14 DEF ConnectFails
<1>15. ASSUME NEW r \in Requests, Locked(r) PROVE Own BY <1>15 DEF Locked
<1>16. ASSUME NEW r \in Requests, ProbeSucceeds(r) PROVE Own BY <1>16 DEF ProbeSucceeds
<1>17. ASSUME NEW r \in Requests, SendSucceeds(r) PROVE Own BY <1>17 DEF SendSucceeds
<1>18. ASSUME NEW r \in Requests, SendFails(r) PROVE Own BY <1>18 DEF SendFails
<1>19. ASSUME NEW r \in Requests, FirstPoll(r) PROVE Own BY <1>19 DEF FirstPoll
<1>20. ASSUME NEW r \in Requests, StreamLocked(r) PROVE Own BY <1>20 DEF StreamLocked
<1>21. ASSUME NEW r \in Requests, ReadFrame(r) PROVE Own BY <1>21 DEF ReadFrame
<1>22. ASSUME NEW r \in Requests, Unlock(r) PROVE Own BY <1>22 DEF Unlock
<1>23. ASSUME NEW r \in Requests, DropCount(r) PROVE Own BY <1>23 DEF DropCount
<1>24. ASSUME NEW r \in Requests, WatchStart(r) PROVE Own BY <1>24 DEF WatchStart
<1>25. ASSUME NEW r \in Requests, WatchCancelled(r) PROVE Own BY <1>25 DEF WatchCancelled
<1>26. ASSUME NEW r \in Requests, WatchIdle(r) PROVE Own BY <1>26 DEF WatchIdle
<1>27. ASSUME NEW r \in Requests, WatchRead(r) PROVE Own BY <1>27 DEF WatchRead
<1>28. ASSUME NEW r \in Requests, ProbeFails(r) PROVE Own BY <1>28 DEF ProbeFails
<1>29. ASSUME NEW r \in Requests, SurfaceSendError(r) PROVE Own BY <1>29 DEF SurfaceSendError
<1>30. ASSUME NEW r \in Requests, ReadFails(r) PROVE Own BY <1>30 DEF ReadFails
<1>31. ASSUME NEW r \in Requests, DropEntry(r) PROVE Own
    <2>1. pc[r] = "releasing" /\ pc'[r] # "releasing" BY <1>31 DEF DropEntry
    <2>2. pool'.sock = pool.sock \/ sock[r] = pool.sock
        <3>1. CASE ~pooled[r] BY <3>1, <1>31 DEF DropEntry
        <3>2. CASE pooled[r] BY <3>2, <1>31 DEF DropEntry, Settle
        <3>. QED BY <3>1, <3>2
    <2>. QED BY <2>1, <2>2
<1>32. ASSUME NEW r \in Requests, WatchEvict(r) PROVE Own BY <1>32 DEF WatchEvict
<1>. QED BY <1>2, <1>3, <1>4, <1>5, <1>6, <1>7, <1>8, <1>9, <1>10, <1>11, <1>12, <1>13, <1>14,
    <1>15, <1>16, <1>17, <1>18, <1>19, <1>20, <1>21, <1>22, <1>23, <1>24, <1>25, <1>26, <1>27,
    <1>28, <1>29, <1>30, <1>31, <1>32
    DEF Next, RequestStep, WatchStep

\* The entry goes only by a step of a call or a watcher that used its socket.
THEOREM EvictsOwnEntryAlways == Spec => EvictsOwnEntry
<1>1. IInv /\ [Next]_vars => IInv' BY InvStep
<1>2. Init => IInv BY InvInit
<1>. QED BY <1>1, <1>2, EvictStep, PTL DEF Spec, EvictsOwnEntry
============================================================================

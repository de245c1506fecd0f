------------------------- MODULE MessagesFlowsProofs -------------------------
(***************************************************************************)
(* Proofs about the streams of the Messages endpoint.                      *)
(***************************************************************************)
EXTENDS MessagesFlows, FiniteSetTheorems, SequenceTheorems, WellFoundedInduction, TLAPS

(***************************************************************************)
(* Numbers and sequences                                                   *)
(***************************************************************************)
IsSeq(q) == \E S : q \in Seq(S)

\* A set of numbers has a least one: induction, in the form the provers take.
LEMMA LeastNumber ==
    ASSUME NEW T, T \subseteq Nat, T # {}
    PROVE  \E n \in T : n \in Nat /\ \A m \in T : n <= m
<1>. DEFINE Before == OpToRel(<, Nat)
<1>1. IsWellFoundedOn(Before, Nat) BY NatLessThanWellFounded
<1>2. \A m, n \in Nat : <<m, n>> \in Before <=> m < n BY DEF OpToRel
<1>. HIDE DEF Before
<1>3. PICK n \in T : \A m \in T : <<m, n>> \notin Before BY <1>1, WFMin
<1>4. \A m \in T : m \in Nat /\ n \in Nat /\ ~ (m < n) BY <1>2, <1>3
<1>. QED BY <1>4

LEMMA SeqFacts ==
    ASSUME NEW q, IsSeq(q)
    PROVE  /\ Len(q) \in Nat /\ DOMAIN q = 1 .. Len(q)
           /\ q = <<>> <=> Len(q) = 0
           /\ q # <<>> => IsSeq(Tail(q)) /\ Len(Tail(q)) = Len(q) - 1 /\ Head(q) = q[1]
           /\ \A i \in 1 .. Len(q) - 1 : q # <<>> => Tail(q)[i] = q[i + 1]
           /\ \A x : IsSeq(Append(q, x)) /\ Len(Append(q, x)) = Len(q) + 1
                     /\ \A i \in 1 .. Len(q) + 1 : Append(q, x)[i] = IF i = Len(q) + 1 THEN x ELSE q[i]
<1>1. PICK S : q \in Seq(S) BY DEF IsSeq
<1>2. q # <<>> => Tail(q) \in Seq(S) BY <1>1
<1>3. ASSUME NEW x
      PROVE  IsSeq(Append(q, x)) /\ Len(Append(q, x)) = Len(q) + 1
             /\ \A i \in 1 .. Len(q) + 1 : Append(q, x)[i] = IF i = Len(q) + 1 THEN x ELSE q[i]
    <2>1. q \in Seq(S \union {x}) BY <1>1
    <2>2. Append(q, x) \in Seq(S \union {x}) BY <2>1
    <2>. QED BY <2>1, <2>2 DEF IsSeq
<1>. QED BY <1>1, <1>2, <1>3 DEF IsSeq

LEMMA JoinFacts ==
    ASSUME NEW q, NEW r, IsSeq(q), IsSeq(r)
    PROVE  /\ IsSeq(q \o r) /\ Len(q \o r) = Len(q) + Len(r)
           /\ \A i \in 1 .. Len(q) : (q \o r)[i] = q[i]
           /\ \A i \in 1 .. Len(r) : (q \o r)[Len(q) + i] = r[i]
<1>1. PICK S : q \in Seq(S) BY DEF IsSeq
<1>2. PICK R : r \in Seq(R) BY DEF IsSeq
<1>3. q \in Seq(S \union R) /\ r \in Seq(S \union R) BY <1>1, <1>2
<1>4. q \o r \in Seq(S \union R) BY <1>3
<1>. QED BY <1>3, <1>4 DEF IsSeq

LEMMA ShortSeqs ==
    /\ IsSeq(<<>>)
    /\ \A x : IsSeq(<<x>>) /\ Len(<<x>>) = 1 /\ <<x>>[1] = x
    /\ \A x, y : IsSeq(<<x, y>>) /\ Len(<<x, y>>) = 2 /\ <<x, y>>[1] = x /\ <<x, y>>[2] = y
<1>1. <<>> \in Seq({}) OBVIOUS
<1>2. \A x : <<x>> \in Seq({x}) OBVIOUS
<1>3. \A x, y : <<x, y>> \in Seq({x, y}) OBVIOUS
<1>. QED BY <1>1, <1>2, <1>3 DEF IsSeq

LEMMA TwoOfOne == \A x, y : <<x>> \o <<y>> = <<x, y>>
<1>. SUFFICES ASSUME NEW x, NEW y PROVE <<x>> \o <<y>> = <<x, y>> OBVIOUS
<1>. DEFINE S == {x, y}  p == <<x>>  q == <<y>>  l == p \o q  r == <<x, y>>
<1>1. p \in Seq(S) /\ q \in Seq(S) /\ Len(p) = 1 /\ Len(q) = 1 /\ p[1] = x /\ q[1] = y OBVIOUS
<1>2. r \in Seq(S) /\ Len(r) = 2 /\ r[1] = x /\ r[2] = y OBVIOUS
<1>. HIDE DEF S, p, q, r
<1>3. /\ l \in Seq(S) /\ Len(l) = Len(p) + Len(q)
      /\ \A i \in 1 .. Len(p) + Len(q) : l[i] = IF i <= Len(p) THEN p[i] ELSE q[i - Len(p)]
    BY <1>1, ConcatProperties
<1>. HIDE DEF l
<1>4. \A i \in 1 .. 2 : l[i] = IF i <= 1 THEN p[i] ELSE q[i - 1] BY <1>1, <1>3
<1>5. \A i \in 1 .. 2 : i = 1 \/ i = 2 OBVIOUS
<1>6. l[1] = p[1] /\ l[2] = q[1] BY <1>4
<1>7. \A i \in 1 .. 2 : l[i] = r[i] BY <1>1, <1>2, <1>5, <1>6
<1>8. l = r BY <1>1, <1>2, <1>3, <1>7, SeqEqual
<1>. QED BY <1>8 DEF l, r, p, q

(***************************************************************************)
(* What a client has been told                                             *)
(***************************************************************************)
Stage(phase, open, next, told) == [phase |-> phase, open |-> open, next |-> next, told |-> told]

\* An event takes a client that is at stage a to stage b.  Of the Responses flow
\* only the outer frame is followed: the order of its blocks depends on the
\* upstream's.
Allowed(f, a, e, b) ==
    \/ /\ e.type = "message_start" /\ a.phase = "before"
       /\ b = Stage("message", a.open, a.next, e.body)
    \/ /\ e.type \in {"block_start", "block_delta", "block_stop"} /\ f = "responses"
       /\ a.phase \in {"before", "message"} /\ b = a
    \/ /\ e.type = "block_start" /\ f # "responses"
       /\ a.phase = "message" /\ a.open = <<>> /\ e.index = a.next
       /\ b = Stage("message", <<a.next, e.kind>>, a.next + 1, a.told)
    \/ /\ e.type = "block_delta" /\ f # "responses"
       /\ a.phase = "message" /\ a.open # <<>> /\ e.index = a.open[1]
       /\ e.kind \in Promised!Deltas[a.open[2]] /\ b = a
    \/ /\ e.type = "block_stop" /\ f # "responses"
       /\ a.phase = "message" /\ a.open # <<>> /\ e.index = a.open[1]
       /\ b = Stage("message", <<>>, a.next, a.told)
    \/ /\ e.type = "message_delta" /\ a.phase = "message" /\ a.open = <<>>
       /\ b = Stage("stopping", <<>>, a.next, a.told \o e.body)
    \/ /\ e.type = "message_stop" /\ a.phase = "stopping"
       /\ b = Stage("stopped", a.open, a.next, a.told)
    \/ /\ e.type = "error"
       /\ a.phase \in {"before", "message"} \union (IF f = "messages" THEN {"stopping"} ELSE {})
       /\ a.open = <<>> \/ f = "messages"
       /\ b = Stage("failed", a.open, a.next, a.told)
    \/ e.type = "ping" /\ a.phase \notin {"stopped", "failed"} /\ b = a

\* Events that take it from a to b, one after the other.
Path(f, a, q, b) ==
    /\ IsSeq(q)
    /\ \E p : /\ p[0] = a /\ p[Len(q)] = b
              /\ \A i \in 1 .. Len(q) : Allowed(f, p[i - 1], q[i], p[i])

LEMMA PathEmpty == \A f, a : Path(f, a, <<>>, a)
<1>. SUFFICES ASSUME NEW f, NEW a PROVE Path(f, a, <<>>, a) OBVIOUS
<1>. DEFINE p == [i \in 0 .. 0 |-> a]
<1>1. p[0] = a /\ Len(<<>>) = 0 /\ 1 .. 0 = {} OBVIOUS
<1>2. \A i \in 1 .. Len(<<>>) : Allowed(f, p[i - 1], <<>>[i], p[i]) BY <1>1
<1>. HIDE DEF p
<1>3. IsSeq(<<>>) BY ShortSeqs
<1>4. p[0] = a /\ p[Len(<<>>)] = a BY <1>1
<1>. QED BY <1>2, <1>3, <1>4 DEF Path

LEMMA PathOfNothing == \A f, a, b : Path(f, a, <<>>, b) => a = b
BY DEF Path

LEMMA PathOne ==
    ASSUME NEW f, NEW a, NEW e, NEW b, Allowed(f, a, e, b)
    PROVE  Path(f, a, <<e>>, b)
<1>. DEFINE p == [i \in 0 .. 1 |-> IF i = 0 THEN a ELSE b]
<1>1. p[0] = a /\ p[1] = b OBVIOUS
<1>2. \A i \in 1 .. 1 : Allowed(f, p[i - 1], <<e>>[i], p[i])
    <2>. HIDE DEF p
    <2>. SUFFICES Allowed(f, p[0], e, p[1]) BY ShortSeqs
    <2>. QED BY <1>1
<1>. QED BY <1>1, <1>2, ShortSeqs DEF Path

LEMMA PathJoin ==
    ASSUME NEW f, NEW a, NEW q, NEW b, NEW r, NEW c, Path(f, a, q, b), Path(f, b, r, c)
    PROVE  Path(f, a, q \o r, c)
<1>1. PICK p : /\ p[0] = a /\ p[Len(q)] = b
               /\ \A i \in 1 .. Len(q) : Allowed(f, p[i - 1], q[i], p[i])
    BY DEF Path
<1>2. PICK s : /\ s[0] = b /\ s[Len(r)] = c
               /\ \A i \in 1 .. Len(r) : Allowed(f, s[i - 1], r[i], s[i])
    BY DEF Path
<1>3. IsSeq(q) /\ IsSeq(r) BY DEF Path
<1>. DEFINE m == Len(q)  n == Len(r)
            t == [i \in 0 .. (m + n) |-> IF i <= m THEN p[i] ELSE s[i - m]]
<1>4. m \in Nat /\ n \in Nat BY <1>3, SeqFacts
<1>5. t[0] = a /\ t[m + n] = c
    BY <1>1, <1>2, <1>4
<1>6. ASSUME NEW i \in 1 .. (m + n) PROVE Allowed(f, t[i - 1], (q \o r)[i], t[i])
    <2>1. CASE i <= m
        <3>1. i \in 1 .. m /\ t[i - 1] = p[i - 1] /\ t[i] = p[i] BY <1>4, <2>1
        <3>2. (q \o r)[i] = q[i] BY <1>3, <3>1, JoinFacts
        <3>. HIDE DEF t, m
        <3>. QED BY <1>1, <3>1, <3>2 DEF m
    <2>2. CASE i > m
        <3>. DEFINE j == i - m
        <3>1. j \in 1 .. n /\ t[i] = s[j] /\ i = m + j BY <1>4, <2>2
        <3>2. t[i - 1] = s[j - 1]
            <4>1. i - 1 \in 0 .. (m + n) BY <1>4, <2>2
            <4>2. CASE i - 1 = m
                <5>1. t[i - 1] = p[m] BY <1>4, <4>1, <4>2
                <5>2. j - 1 = 0 BY <1>4, <4>2
                <5>. HIDE DEF t, j
                <5>. QED BY <1>1, <1>2, <5>1, <5>2
            <4>3. CASE i - 1 # m
                <5>1. t[i - 1] = s[(i - 1) - m] BY <1>4, <2>2, <4>1, <4>3
                <5>2. (i - 1) - m = j - 1 BY <1>4
                <5>. HIDE DEF t, j
                <5>. QED BY <5>1, <5>2
            <4>. QED BY <4>2, <4>3
        <3>3. (q \o r)[m + j] = r[j] BY <1>3, <3>1, JoinFacts
        <3>. HIDE DEF t, j
        <3>. QED BY <1>2, <3>1, <3>2, <3>3
    <2>. QED BY <1>4, <2>1, <2>2
<1>7. IsSeq(q \o r) /\ Len(q \o r) = m + n BY <1>3, JoinFacts
<1>. HIDE DEF t, m, n
<1>. QED BY <1>5, <1>6, <1>7 DEF Path

LEMMA PathHead ==
    ASSUME NEW f, NEW a, NEW q, NEW b, Path(f, a, q, b), q # <<>>
    PROVE  \E c : Allowed(f, a, Head(q), c) /\ Path(f, c, Tail(q), b)
<1>1. PICK p : /\ p[0] = a /\ p[Len(q)] = b
               /\ \A i \in 1 .. Len(q) : Allowed(f, p[i - 1], q[i], p[i])
    BY DEF Path
<1>2. IsSeq(q) BY DEF Path
<1>3. /\ Len(q) \in Nat \ {0} /\ Head(q) = q[1] /\ IsSeq(Tail(q)) /\ Len(Tail(q)) = Len(q) - 1
      /\ \A i \in 1 .. Len(q) - 1 : Tail(q)[i] = q[i + 1]
    BY <1>2, SeqFacts
<1>. DEFINE n == Len(q) - 1
            t == [i \in 0 .. n |-> p[i + 1]]
<1>4. Allowed(f, a, Head(q), p[1])
    <2>1. 1 \in 1 .. Len(q) BY <1>3
    <2>2. Allowed(f, p[1 - 1], q[1], p[1]) BY <1>1, <2>1
    <2>. QED BY <1>1, <1>3, <2>2
<1>5. t[0] = p[1] /\ t[n] = b BY <1>1, <1>3
<1>6. ASSUME NEW i \in 1 .. n PROVE Allowed(f, t[i - 1], Tail(q)[i], t[i])
    <2>1. i + 1 \in 1 .. Len(q) /\ t[i - 1] = p[i] /\ t[i] = p[i + 1] /\ (i + 1) - 1 = i BY <1>3
    <2>2. Tail(q)[i] = q[i + 1] BY <1>3
    <2>3. Allowed(f, p[(i + 1) - 1], q[i + 1], p[i + 1]) BY <1>1, <2>1
    <2>. HIDE DEF t
    <2>. QED BY <2>1, <2>2, <2>3
<1>7. Path(f, p[1], Tail(q), b)
    <2>. HIDE DEF t
    <2>. QED BY <1>3, <1>5, <1>6 DEF Path
<1>. QED BY <1>4, <1>7

\* An event more, or two.
LEMMA PathAnd ==
    ASSUME NEW f, NEW a, NEW q, NEW b, Path(f, a, q, b), NEW e, NEW c, Allowed(f, b, e, c)
    PROVE  Path(f, a, q \o <<e>>, c)
BY PathOne, PathJoin

LEMMA PathTwo ==
    ASSUME NEW f, NEW a, NEW e, NEW c, Allowed(f, a, e, c), NEW g, NEW d, Allowed(f, c, g, d)
    PROVE  Path(f, a, <<e, g>>, d)
<1>1. Path(f, a, <<e>> \o <<g>>, d) BY PathOne, PathJoin
<1>. QED BY <1>1, TwoOfOne

LEMMA PathAndTwo ==
    ASSUME NEW f, NEW a, NEW q, NEW b, Path(f, a, q, b), NEW e, NEW c, Allowed(f, b, e, c),
           NEW g, NEW d, Allowed(f, c, g, d)
    PROVE  Path(f, a, q \o <<e, g>>, d)
BY PathTwo, PathJoin

LEMMA PathNone ==
    ASSUME NEW f, NEW a, NEW q, NEW b, Path(f, a, q, b)
    PROVE  Path(f, a, q \o <<>>, b)
BY PathEmpty, PathJoin

\* Events that leave a client where it is.
LEMMA PathLoop ==
    ASSUME NEW f, NEW a, NEW q, IsSeq(q), \A i \in DOMAIN q : Allowed(f, a, q[i], a)
    PROVE  Path(f, a, q, a)
<1>. DEFINE p == [i \in 0 .. Len(q) |-> a]
<1>1. Len(q) \in Nat /\ DOMAIN q = 1 .. Len(q) BY SeqFacts
<1>2. p[0] = a /\ p[Len(q)] = a BY <1>1
<1>3. ASSUME NEW i \in 1 .. Len(q) PROVE Allowed(f, p[i - 1], q[i], p[i])
    <2>1. p[i - 1] = a /\ p[i] = a BY <1>1
    <2>. HIDE DEF p
    <2>. QED BY <1>1, <2>1
<1>. HIDE DEF p
<1>. QED BY <1>2, <1>3 DEF Path

\* The steps of a translated stream.
LEMMA AllowedSteps ==
    ASSUME NEW f, f # "responses", NEW a, a.phase = "message"
    PROVE  /\ \A i, kind, body : a.open = <<>> /\ a.next = i =>
                 Allowed(f, a, BlockStart(i, kind, body), Stage("message", <<i, kind>>, i + 1, a.told))
           /\ \A i, kind, of, body : a.open = <<i, of>> /\ kind \in Promised!Deltas[of] =>
                 Allowed(f, a, BlockDelta(i, kind, body), a)
           /\ \A i, of : a.open = <<i, of>> =>
                 Allowed(f, a, BlockStop(i), Stage("message", <<>>, a.next, a.told))
           /\ \A kind : a.open = <<>> =>
                 Allowed(f, a, ErrorEvent(kind), Stage("failed", <<>>, a.next, a.told))
<1>1. \A i, kind, body : a.open = <<>> /\ a.next = i =>
          Allowed(f, a, BlockStart(i, kind, body), Stage("message", <<i, kind>>, i + 1, a.told))
    BY DEF Allowed, BlockStart, Event
<1>2. \A i, kind, of, body : a.open = <<i, of>> /\ kind \in Promised!Deltas[of] =>
          Allowed(f, a, BlockDelta(i, kind, body), a)
    <2>. SUFFICES ASSUME NEW i, NEW kind, NEW of, NEW body, a.open = <<i, of>>,
                         kind \in Promised!Deltas[of]
                  PROVE  Allowed(f, a, BlockDelta(i, kind, body), a)
        OBVIOUS
    <2>1. a.open # <<>> /\ a.open[1] = i /\ a.open[2] = of OBVIOUS
    <2>2. LET e == BlockDelta(i, kind, body)
          IN  e.type = "block_delta" /\ e.index = i /\ e.kind = kind
        BY DEF BlockDelta, Event
    <2>. QED BY <2>1, <2>2 DEF Allowed
<1>3. \A i, of : a.open = <<i, of>> =>
          Allowed(f, a, BlockStop(i), Stage("message", <<>>, a.next, a.told))
    <2>. SUFFICES ASSUME NEW i, NEW of, a.open = <<i, of>>
                  PROVE  Allowed(f, a, BlockStop(i), Stage("message", <<>>, a.next, a.told))
        OBVIOUS
    <2>1. a.open # <<>> /\ a.open[1] = i OBVIOUS
    <2>2. BlockStop(i).type = "block_stop" /\ BlockStop(i).index = i BY DEF BlockStop, Event
    <2>. QED BY <2>1, <2>2 DEF Allowed
<1>4. \A kind : a.open = <<>> =>
          Allowed(f, a, ErrorEvent(kind), Stage("failed", <<>>, a.next, a.told))
    <2>1. \A kind : ErrorEvent(kind).type = "error" BY DEF ErrorEvent, Event
    <2>. QED BY <2>1 DEF Allowed
<1>. QED BY <1>1, <1>2, <1>3, <1>4

(***************************************************************************)
(* The state of a translator                                               *)
(***************************************************************************)
\* A record with the fields F; and two that differ in those of X at most.
IsRec(F, s) == s = [x \in F |-> s[x]]
Differ(F, s, t, X) == \A x \in F \ X : t[x] = s[x]

ChatFields ==
    {"ok", "out", "spent", "suppress", "chat", "tier", "usage", "seen", "content", "emitted",
     "refusal", "begun", "index", "open", "thinking", "pending", "pendingUsage", "usageSeen",
     "deferred", "tools", "active", "stopped", "terminal"}

\* What the output of a chunk leaves as it is.
Kept ==
    {"suppress", "chat", "tier", "usage", "seen", "content", "refusal", "begun", "pending",
     "pendingUsage", "usageSeen", "stopped", "terminal"}
Same(s, t, X) == \A x \in X : t[x] = s[x]
Keeps(s, t) == Same(s, t, Kept)

ToolFields == {"id", "name", "ext", "args", "buffered", "block", "started"}
IsTool(x) == IsRec(ToolFields, x) /\ x.block \in Int /\ IsSeq(x.buffered)

\* A call that has its block has it at an index of the past, or is the open block.
ToolsShape(s) ==
    /\ IsSeq(s.tools)
    /\ \A i \in DOMAIN s.tools :
          /\ IsTool(s.tools[i])
          /\ s.tools[i].block < s.index \/ (s.open /\ s.tools[i].block = s.index)

\* A call that is deferred is known.
DeferredShape(s) ==
    /\ IsSeq(s.deferred)
    /\ \A i \in DOMAIN s.deferred :
          /\ IsRec({"kind", "body", "tool"}, s.deferred[i])
          /\ s.deferred[i].kind = "tool" => s.deferred[i].tool \in DOMAIN s.tools

\* The active call is that of the open block.
ActiveShape(s) ==
    s.active # 0 => s.open /\ s.active \in DOMAIN s.tools /\ s.tools[s.active].block = s.index

PhaseShape(s) ==
    /\ ~ (s.open /\ s.thinking)
    /\ s.open \/ s.thinking => s.begun /\ ~s.terminal
    /\ s.stopped => s.terminal
    /\ s.pending # Absent => s.begun /\ ~s.terminal /\ ~s.open /\ ~s.thinking

\* The budget has room for nothing more, at least.
NumberShape(s) ==
    /\ s.index \in Nat /\ s.spent \in Nat /\ s.spent <= MaxBytes
    /\ IsSeq(s.content) /\ IsSeq(s.refusal) /\ IsSeq(s.usage) /\ IsSeq(s.pendingUsage)

Shape(s) ==
    /\ IsRec(ChatFields, s)
    /\ ToolsShape(s) /\ DeferredShape(s) /\ ActiveShape(s) /\ PhaseShape(s) /\ NumberShape(s)

\* Where a client is that has all of the translator's output.
ChatStage(s) ==
    Stage(IF s.stopped THEN "stopped" ELSE IF s.terminal THEN "failed"
          ELSE IF s.begun THEN "message" ELSE "before",
          IF s.thinking THEN <<s.index, "thinking">>
          ELSE IF s.open THEN <<s.index, IF ToolOpen(s) THEN "tool_use" ELSE "text">> ELSE <<>>,
          IF s.open \/ s.thinking THEN s.index + 1 ELSE s.index,
          IF s.stopped THEN s.pendingUsage ELSE <<>>)

\* A translator whose output takes a client from a to where it says.
Good(a, s) == Shape(s) /\ Path("chat", a, s.out, ChatStage(s))

LEMMA EmitFacts ==
    ASSUME NEW F, NEW s, NEW q, IsRec(F, s), "out" \in F
    PROVE  /\ IsRec(F, Emit(s, q)) /\ Differ(F, s, Emit(s, q), {"out"})
           /\ Emit(s, q).out = s.out \o q
BY DEF Emit, IsRec, Differ

LEMMA EmitChat ==
    ASSUME NEW s, NEW q, NEW e, IsRec(ChatFields, s), e = Emit(s, q)
    PROVE  IsRec(ChatFields, e) /\ Differ(ChatFields, s, e, {"out"}) /\ e.out = s.out \o q
BY EmitFacts DEF ChatFields

LEMMA FailFacts ==
    ASSUME NEW F, NEW s, IsRec(F, s), "ok" \in F
    PROVE  IsRec(F, Fail(s)) /\ Differ(F, s, Fail(s), {"ok"}) /\ Fail(s).ok = FALSE
BY DEF Fail, IsRec, Differ

\* What does not touch the shape.
LEMMA SameShape ==
    ASSUME NEW s, NEW t, NEW X, Shape(s), IsRec(ChatFields, t), Differ(ChatFields, s, t, X),
           X \subseteq {"ok", "out", "emitted", "seen", "chat", "tier", "usageSeen"}
    PROVE  Shape(t) /\ ChatStage(t) = ChatStage(s) /\ ToolOpen(t) = ToolOpen(s)
<1>1. \A x \in ChatFields \ {"ok", "out", "emitted", "seen", "chat", "tier", "usageSeen"} : t[x] = s[x]
    BY DEF Differ
<1>2. /\ t.tools = s.tools /\ t.deferred = s.deferred /\ t.index = s.index /\ t.spent = s.spent
      /\ t.open = s.open /\ t.thinking = s.thinking /\ t.begun = s.begun /\ t.terminal = s.terminal
      /\ t.stopped = s.stopped /\ t.active = s.active /\ t.pending = s.pending
      /\ t.pendingUsage = s.pendingUsage /\ t.content = s.content /\ t.refusal = s.refusal
      /\ t.usage = s.usage
    BY <1>1 DEF ChatFields
<1>3. ToolsShape(t) BY <1>2 DEF Shape, ToolsShape
<1>4. DeferredShape(t) BY <1>2 DEF Shape, DeferredShape
<1>5. ActiveShape(t) BY <1>2 DEF Shape, ActiveShape
<1>6. PhaseShape(t) BY <1>2 DEF Shape, PhaseShape
<1>7. NumberShape(t) BY <1>2 DEF Shape, NumberShape
<1>8. ToolOpen(t) = ToolOpen(s) BY <1>2 DEF ToolOpen
<1>9. ChatStage(t) = ChatStage(s) BY <1>2, <1>8 DEF ChatStage
<1>. QED BY <1>3, <1>4, <1>5, <1>6, <1>7, <1>8, <1>9 DEF Shape

LEMMA StageFields ==
    \A phase, open, next, told :
        LET st1 == Stage(phase, open, next, told)
        IN  st1.phase = phase /\ st1.open = open /\ st1.next = next /\ st1.told = told
BY DEF Stage

Live(s) == s.begun /\ ~s.terminal

\* While a stream goes on.
LEMMA LiveStage ==
    ASSUME NEW s, Shape(s), Live(s)
    PROVE  /\ ChatStage(s).phase = "message" /\ ChatStage(s).told = <<>>
           /\ s.thinking => ChatStage(s) = Stage("message", <<s.index, "thinking">>, s.index + 1, <<>>)
           /\ s.open => ChatStage(s) = Stage("message",
                            <<s.index, IF ToolOpen(s) THEN "tool_use" ELSE "text">>, s.index + 1, <<>>)
           /\ ~s.open /\ ~s.thinking => ChatStage(s) = Stage("message", <<>>, s.index, <<>>)
<1>1. ~s.stopped /\ ~s.terminal /\ s.begun /\ ~ (s.open /\ s.thinking) BY DEF Live, Shape, PhaseShape
<1>. QED BY <1>1, StageFields DEF ChatStage

LEMMA CloseBlockGood ==
    ASSUME NEW a, NEW s, NEW t, Good(a, s), t = CloseBlock(s)
    PROVE  /\ Good(a, t) /\ Keeps(s, t) /\ ~t.open /\ t.active = 0
           /\ Same(s, t, {"ok", "tools", "deferred", "thinking", "spent"})
<1>0. Shape(s) BY DEF Good
<1>1. CASE ~s.open
    <2>1. t = s BY <1>1 DEF CloseBlock
    <2>2. s.active = 0 BY <1>0, <1>1 DEF Shape, ActiveShape
    <2>. QED BY <1>1, <2>1, <2>2 DEF Keeps, Same
<1>2. CASE s.open
    <2>. DEFINE e == Emit(s, <<BlockStop(s.index)>>)
    <2>1. IsRec(ChatFields, e) /\ Differ(ChatFields, s, e, {"out"}) /\ e.out = s.out \o <<BlockStop(s.index)>>
        BY <1>0, EmitFacts DEF Shape, ChatFields
    <2>2. t = [e EXCEPT !.open = FALSE, !.index = @ + 1, !.active = IF ToolOpen(s) THEN 0 ELSE @]
        BY <1>2 DEF CloseBlock
    <2>. HIDE DEF e
    <2>3. /\ IsRec(ChatFields, t) /\ t.open = FALSE /\ t.index = e.index + 1
          /\ t.active = IF ToolOpen(s) THEN 0 ELSE e.active
          /\ \A x \in ChatFields \ {"open", "index", "active"} : t[x] = e[x]
        BY <2>1, <2>2 DEF IsRec, ChatFields
    <2>4. /\ t.index = s.index + 1 /\ t.active = (IF ToolOpen(s) THEN 0 ELSE s.active)
          /\ t.out = s.out \o <<BlockStop(s.index)>>
          /\ \A x \in ChatFields \ {"open", "index", "active", "out"} : t[x] = s[x]
        BY <2>1, <2>3 DEF Differ, ChatFields
    <2>5. /\ t.tools = s.tools /\ t.deferred = s.deferred /\ t.spent = s.spent /\ t.ok = s.ok
          /\ t.thinking = s.thinking /\ t.begun = s.begun /\ t.terminal = s.terminal
          /\ t.stopped = s.stopped /\ t.pending = s.pending /\ t.usage = s.usage
          /\ t.pendingUsage = s.pendingUsage /\ t.content = s.content /\ t.refusal = s.refusal
        BY <2>4 DEF ChatFields
    <2>6. Keeps(s, t) BY <2>4 DEF Keeps, Same, Kept, ChatFields
    <2>7. t.active = 0
        <3>1. s.active # 0 => ToolOpen(s) BY <1>0, <1>2 DEF Shape, ActiveShape, ToolOpen
        <3>. QED BY <2>4, <3>1
    <2>8. Live(s) /\ ~s.thinking BY <1>0, <1>2 DEF Shape, PhaseShape, Live
    <2>9. ToolsShape(t)
        <3>. SUFFICES ASSUME NEW i \in DOMAIN s.tools
                      PROVE  s.tools[i].block < s.index + 1 /\ IsTool(s.tools[i])
            BY <1>0, <2>4, <2>5 DEF Shape, ToolsShape
        <3>1. IsTool(s.tools[i]) /\ s.tools[i].block <= s.index /\ s.index \in Nat
            BY <1>0, <1>2 DEF Shape, ToolsShape, NumberShape, IsTool
        <3>. QED BY <3>1 DEF IsTool
    <2>10. DeferredShape(t) BY <1>0, <2>5 DEF Shape, DeferredShape
    <2>11. ActiveShape(t) BY <2>7 DEF ActiveShape
    <2>12. PhaseShape(t) BY <1>0, <2>3, <2>5 DEF Shape, PhaseShape
    <2>13. NumberShape(t) BY <1>0, <2>4, <2>5 DEF Shape, NumberShape
    <2>14. Shape(t) BY <2>3, <2>9, <2>10, <2>11, <2>12, <2>13 DEF Shape
    <2>15. ChatStage(t) = Stage("message", <<>>, s.index + 1, <<>>)
        <3>1. Live(t) /\ ~t.open /\ ~t.thinking BY <2>3, <2>5, <2>8 DEF Live
        <3>2. ChatStage(t) = Stage("message", <<>>, t.index, <<>>) BY <2>14, <3>1, LiveStage
        <3>. QED BY <2>4, <3>2
    <2>16. Allowed("chat", ChatStage(s), BlockStop(s.index), ChatStage(t))
        <3>. DEFINE of == IF ToolOpen(s) THEN "tool_use" ELSE "text"
        <3>1. ChatStage(s) = Stage("message", <<s.index, of>>, s.index + 1, <<>>)
            BY <1>0, <1>2, <2>8, LiveStage
        <3>2. ChatStage(s).phase = "message" /\ ChatStage(s).open = <<s.index, of>>
              /\ ChatStage(s).next = s.index + 1 /\ ChatStage(s).told = <<>>
            BY <3>1, StageFields
        <3>. HIDE DEF of
        <3>. QED BY <2>15, <3>2, AllowedSteps
    <2>17. Path("chat", a, t.out, ChatStage(t)) BY <2>4, <2>16, PathAnd DEF Good
    <2>18. Same(s, t, {"ok", "tools", "deferred", "thinking", "spent"}) BY <2>4 DEF Same, ChatFields
    <2>. QED BY <2>3, <2>6, <2>7, <2>14, <2>17, <2>18 DEF Good
<1>. QED BY <1>1, <1>2

LEMMA ReserveGood ==
    ASSUME NEW a, NEW s, NEW n \in Nat, NEW t, Good(a, s), t = Reserve(s, n)
    PROVE  /\ Good(a, t) /\ Keeps(s, t)
           /\ Same(s, t, ChatFields \ {"ok", "spent"})
           /\ t.ok => s.ok
           /\ n = 0 /\ s.ok => t.ok
           /\ ToolOpen(t) <=> ToolOpen(s)
           /\ ChatStage(t) = ChatStage(s)
<1>0. Shape(s) BY DEF Good
<1>1. IsRec(ChatFields, s) /\ s.spent \in Nat /\ s.spent <= MaxBytes /\ MaxBytes \in Nat
    BY <1>0, MaxBytesAssumption DEF Shape, NumberShape
<1>2. CASE s.spent + n > MaxBytes
    <2>1. t = Fail(s) BY <1>2 DEF Reserve
    <2>2. IsRec(ChatFields, t) /\ Differ(ChatFields, s, t, {"ok"}) /\ t.ok = FALSE
        BY <1>1, <2>1, FailFacts DEF ChatFields
    <2>3. Shape(t) /\ ChatStage(t) = ChatStage(s) /\ ToolOpen(t) = ToolOpen(s) BY <1>0, <2>2, SameShape
    <2>4. t.out = s.out /\ Keeps(s, t) /\ Same(s, t, ChatFields \ {"ok", "spent"})
        BY <2>2 DEF Differ, ChatFields, Keeps, Same, Kept
    <2>5. n # 0 BY <1>1, <1>2
    <2>. QED BY <2>2, <2>3, <2>4, <2>5 DEF Good
<1>3. CASE ~ (s.spent + n > MaxBytes)
    <2>1. t = [s EXCEPT !.spent = @ + n] BY <1>3 DEF Reserve
    <2>2. /\ IsRec(ChatFields, t) /\ t.spent = s.spent + n
          /\ \A x \in ChatFields \ {"spent"} : t[x] = s[x]
        BY <1>1, <2>1 DEF IsRec, ChatFields
    <2>3. /\ t.tools = s.tools /\ t.deferred = s.deferred /\ t.index = s.index /\ t.out = s.out
          /\ t.open = s.open /\ t.thinking = s.thinking /\ t.begun = s.begun /\ t.terminal = s.terminal
          /\ t.stopped = s.stopped /\ t.active = s.active /\ t.pending = s.pending
          /\ t.pendingUsage = s.pendingUsage /\ t.content = s.content /\ t.refusal = s.refusal
          /\ t.usage = s.usage /\ t.ok = s.ok
        BY <2>2 DEF ChatFields
    <2>4. ToolsShape(t) BY <1>0, <2>3 DEF Shape, ToolsShape
    <2>5. DeferredShape(t) BY <1>0, <2>3 DEF Shape, DeferredShape
    <2>6. ActiveShape(t) BY <1>0, <2>3 DEF Shape, ActiveShape
    <2>7. PhaseShape(t) BY <1>0, <2>3 DEF Shape, PhaseShape
    <2>8. NumberShape(t) BY <1>0, <1>1, <1>3, <2>2, <2>3 DEF Shape, NumberShape
    <2>9. ToolOpen(t) = ToolOpen(s) BY <2>3 DEF ToolOpen
    <2>10. ChatStage(t) = ChatStage(s) BY <2>3, <2>9 DEF ChatStage
    <2>11. Keeps(s, t) BY <2>2 DEF Keeps, Same, Kept, ChatFields
    <2>12. Same(s, t, ChatFields \ {"ok", "spent"}) BY <2>2 DEF Same
    <2>13. Shape(t) BY <2>2, <2>4, <2>5, <2>6, <2>7, <2>8 DEF Shape
    <2>. QED BY <2>3, <2>9, <2>10, <2>11, <2>12, <2>13 DEF Good
<1>. QED BY <1>2, <1>3

LEMMA CloseThinkingGood ==
    ASSUME NEW a, NEW s, NEW g, NEW t, Good(a, s), IsSeq(g), t = CloseThinkingWith(s, g)
    PROVE  /\ Good(a, t) /\ Keeps(s, t)
           /\ Same(s, t, {"tools", "deferred", "active", "open"})
           /\ t.ok => s.ok /\ ~t.thinking
           /\ ~s.thinking => t = s
           /\ g = <<>> /\ s.ok => t.ok
<1>0. Shape(s) BY DEF Good
<1>1. CASE ~s.thinking
    <2>1. t = s BY <1>1 DEF CloseThinkingWith
    <2>. QED BY <1>1, <2>1 DEF Keeps, Same
<1>2. CASE s.thinking
    <2>. DEFINE r == Reserve(s, Len(g))
                q == <<BlockDelta(r.index, "signature", g), BlockStop(r.index)>>
                e == Emit(r, q)
    <2>0. r = Reserve(s, Len(g)) OBVIOUS
    <2>1. Len(g) \in Nat /\ (g = <<>> => Len(g) = 0) BY SeqFacts
    <2>3. t = IF r.ok THEN [e EXCEPT !.thinking = FALSE, !.index = @ + 1] ELSE r
        BY <1>2 DEF CloseThinkingWith, Then
    <2>. HIDE DEF r
    <2>2. /\ Good(a, r) /\ Keeps(s, r)
          /\ Same(s, r, ChatFields \ {"ok", "spent"})
          /\ r.ok => s.ok
          /\ Len(g) = 0 /\ s.ok => r.ok
          /\ ChatStage(r) = ChatStage(s)
        BY <2>0, <2>1, ReserveGood
    <2>4. /\ r.tools = s.tools /\ r.deferred = s.deferred /\ r.active = s.active /\ r.open = s.open
          /\ r.thinking /\ r.index = s.index /\ r.out = s.out
        BY <1>2, <2>2 DEF ChatFields, Same
    <2>5. Shape(r) /\ Live(r) /\ ~r.open /\ r.index \in Nat
        BY <2>2, <2>4 DEF Good, Shape, PhaseShape, NumberShape, Live
    <2>6. CASE ~r.ok
        <3>1. t = r BY <2>3, <2>6
        <3>2. Same(s, t, {"tools", "deferred", "active", "open"}) BY <2>2, <3>1 DEF Same, ChatFields
        <3>. QED BY <1>2, <2>1, <2>2, <2>6, <3>1, <3>2
    <2>7. CASE r.ok
        <3>1. IsRec(ChatFields, e) /\ Differ(ChatFields, r, e, {"out"}) /\ e.out = r.out \o q
            BY <2>5, EmitFacts DEF Shape, ChatFields
        <3>2. t = [e EXCEPT !.thinking = FALSE, !.index = @ + 1] BY <2>3, <2>7
        <3>. HIDE DEF e
        <3>3. /\ IsRec(ChatFields, t) /\ t.thinking = FALSE /\ t.index = e.index + 1
              /\ \A x \in ChatFields \ {"thinking", "index"} : t[x] = e[x]
            BY <3>1, <3>2 DEF IsRec, ChatFields
        <3>4. /\ t.index = r.index + 1 /\ t.out = r.out \o q
              /\ \A x \in ChatFields \ {"thinking", "index", "out"} : t[x] = r[x]
            BY <3>1, <3>3 DEF Differ, ChatFields
        <3>5. /\ t.tools = r.tools /\ t.deferred = r.deferred /\ t.spent = r.spent /\ t.ok = r.ok
              /\ t.open = r.open /\ t.begun = r.begun /\ t.terminal = r.terminal /\ t.active = r.active
              /\ t.stopped = r.stopped /\ t.pending = r.pending /\ t.usage = r.usage
              /\ t.pendingUsage = r.pendingUsage /\ t.content = r.content /\ t.refusal = r.refusal
            BY <3>4 DEF ChatFields
        <3>6. Keeps(s, t) BY <2>2, <3>4 DEF Keeps, Same, Kept, ChatFields
        <3>7. ToolsShape(t)
            <4>. SUFFICES ASSUME NEW i \in DOMAIN r.tools
                          PROVE  r.tools[i].block < r.index + 1 /\ IsTool(r.tools[i])
                BY <2>5, <3>4, <3>5 DEF Shape, ToolsShape
            <4>1. IsTool(r.tools[i]) /\ r.tools[i].block < r.index BY <2>5 DEF Shape, ToolsShape
            <4>. QED BY <2>5, <4>1 DEF IsTool
        <3>8. DeferredShape(t) BY <2>5, <3>5 DEF Shape, DeferredShape
        <3>9. ActiveShape(t) BY <2>5, <3>5 DEF Shape, ActiveShape
        <3>10. PhaseShape(t) BY <2>5, <3>3, <3>5 DEF Shape, PhaseShape
        <3>11. NumberShape(t) BY <2>5, <3>4, <3>5 DEF Shape, NumberShape
        <3>12. Shape(t) BY <3>3, <3>7, <3>8, <3>9, <3>10, <3>11 DEF Shape
        <3>13. ChatStage(t) = Stage("message", <<>>, r.index + 1, <<>>)
            <4>1. Live(t) /\ ~t.open /\ ~t.thinking BY <2>5, <3>3, <3>5 DEF Live
            <4>2. ChatStage(t) = Stage("message", <<>>, t.index, <<>>) BY <3>12, <4>1, LiveStage
            <4>. QED BY <3>4, <4>2
        <3>14. Allowed("chat", ChatStage(r), BlockDelta(r.index, "signature", g), ChatStage(r))
               /\ Allowed("chat", ChatStage(r), BlockStop(r.index), ChatStage(t))
            <4>1. ChatStage(r) = Stage("message", <<r.index, "thinking">>, r.index + 1, <<>>)
                BY <2>4, <2>5, LiveStage
            <4>2. ChatStage(r).phase = "message" /\ ChatStage(r).open = <<r.index, "thinking">>
                  /\ ChatStage(r).next = r.index + 1 /\ ChatStage(r).told = <<>>
                BY <4>1, StageFields
            <4>3. "signature" \in Promised!Deltas["thinking"] BY DEF Promised!Deltas
            <4>. QED BY <3>13, <4>2, <4>3, AllowedSteps
        <3>15. Path("chat", a, r.out, ChatStage(r)) BY <2>2 DEF Good
        <3>16. Path("chat", a, t.out, ChatStage(t)) BY <3>4, <3>14, <3>15, PathAndTwo
        <3>17. Same(s, t, {"tools", "deferred", "active", "open"})
            BY <2>2, <3>4 DEF Same, ChatFields
        <3>18. t.ok BY <2>7, <3>4 DEF ChatFields
        <3>. QED BY <1>2, <2>2, <2>7, <3>3, <3>6, <3>12, <3>16, <3>17, <3>18 DEF Good
    <2>. QED BY <2>6, <2>7
<1>. QED BY <1>1, <1>2

LEMMA CloseThinkingNow ==
    ASSUME NEW a, NEW s, NEW t, Good(a, s), t = CloseThinking(s)
    PROVE  /\ Good(a, t) /\ Keeps(s, t)
           /\ Same(s, t, {"tools", "deferred", "active", "open"})
           /\ s.ok => t.ok /\ ~t.thinking
           /\ t.ok => s.ok
           /\ ~s.thinking => t = s
<1>1. t = CloseThinkingWith(s, <<>>) /\ IsSeq(<<>>) BY ShortSeqs DEF CloseThinking
<1>. QED BY <1>1, CloseThinkingGood

(***************************************************************************)
(* The operators of the Chat translator                                    *)
(***************************************************************************)
LEMMA Appended ==
    ASSUME NEW q, NEW x, IsSeq(q)
    PROVE  Append(q, x) = q \o <<x>>
<1>1. PICK S : q \in Seq(S) BY DEF IsSeq
<1>2. q \in Seq(S \union {x}) /\ x \in S \union {x} BY <1>1
<1>. QED BY <1>2, AppendIsConcat

LEMMA AppendedShort ==
    /\ \A x : Append(<<>>, x) = <<x>>
    /\ \A x, y : Append(<<x>>, y) = <<x, y>>
    /\ \A x, y, z, w : <<x, y>> \o <<z, w>> = <<x, y, z, w>>
<1>1. ASSUME NEW x PROVE Append(<<>>, x) = <<x>>
    <2>1. <<>> \in Seq({x}) /\ <<x>> \in Seq({x}) OBVIOUS
    <2>2. Append(<<>>, x) = <<>> \o <<x>> BY <2>1, AppendIsConcat
    <2>3. <<>> \o <<x>> = <<x>> BY <2>1, ConcatEmptySeq
    <2>. QED BY <2>2, <2>3
<1>2. ASSUME NEW x, NEW y PROVE Append(<<x>>, y) = <<x, y>>
    <2>1. IsSeq(<<x>>) BY ShortSeqs
    <2>2. Append(<<x>>, y) = <<x>> \o <<y>> BY <2>1, Appended
    <2>. QED BY <2>2, TwoOfOne
<1>3. ASSUME NEW x, NEW y, NEW z, NEW w PROVE <<x, y>> \o <<z, w>> = <<x, y, z, w>>
    <2>. DEFINE S == {x, y, z, w}  p == <<x, y>>  q == <<z, w>>  l == p \o q  r == <<x, y, z, w>>
    <2>1. p \in Seq(S) /\ Len(p) = 2 /\ p[1] = x /\ p[2] = y OBVIOUS
    <2>2. q \in Seq(S) /\ Len(q) = 2 /\ q[1] = z /\ q[2] = w OBVIOUS
    <2>3. r \in Seq(S) /\ Len(r) = 4 /\ r[1] = x /\ r[2] = y /\ r[3] = z /\ r[4] = w OBVIOUS
    <2>. HIDE DEF S, p, q, r
    <2>4. /\ l \in Seq(S) /\ Len(l) = Len(p) + Len(q)
          /\ \A i \in 1 .. Len(p) + Len(q) : l[i] = IF i <= Len(p) THEN p[i] ELSE q[i - Len(p)]
        BY <2>1, <2>2, ConcatProperties
    <2>. HIDE DEF l
    <2>5. \A i \in 1 .. 4 : l[i] = IF i <= 2 THEN p[i] ELSE q[i - 2] BY <2>1, <2>2, <2>4
    <2>6. \A i \in 1 .. 4 : i = 1 \/ i = 2 \/ i = 3 \/ i = 4 OBVIOUS
    <2>7. l[1] = p[1] /\ l[2] = p[2] /\ l[3] = q[1] /\ l[4] = q[2] BY <2>5
    <2>8. \A i \in 1 .. 4 : l[i] = r[i] BY <2>1, <2>2, <2>3, <2>6, <2>7
    <2>9. Len(l) = 4 BY <2>1, <2>2, <2>4
    <2>10. l = r BY <2>3, <2>4, <2>8, <2>9, SeqEqual
    <2>. QED BY <2>10 DEF l, r, p, q
<1>. QED BY <1>1, <1>2, <1>3

Going(s) == Live(s) /\ s.pending = Absent

\* What every operator promises of its outcome, and most of them besides.
Output(a, s, t) == Good(a, t) /\ Keeps(s, t) /\ (t.ok => s.ok)
Calm(s, t) == (~s.thinking => ~t.thinking) /\ DOMAIN t.tools = DOMAIN s.tools

LEMMA OutputAgain ==
    ASSUME NEW a, NEW s, NEW t, NEW u, Output(a, s, t), Output(a, t, u)
    PROVE  Output(a, s, u)
BY DEF Output, Keeps, Same

LEMMA GoingKept ==
    ASSUME NEW s, NEW t, Keeps(s, t)
    PROVE  (Live(s) => Live(t)) /\ (Going(s) => Going(t))
<1>1. t.begun = s.begun /\ t.terminal = s.terminal /\ t.pending = s.pending BY DEF Keeps, Same, Kept
<1>. QED BY <1>1 DEF Live, Going

LEMMA FailGood ==
    ASSUME NEW a, NEW s, NEW t, Good(a, s), t = Fail(s)
    PROVE  Output(a, s, t) /\ Same(s, t, ChatFields \ {"ok"}) /\ ~t.ok
<1>1. IsRec(ChatFields, s) BY DEF Good, Shape
<1>2. IsRec(ChatFields, t) /\ Differ(ChatFields, s, t, {"ok"}) /\ t.ok = FALSE
    BY <1>1, FailFacts DEF ChatFields
<1>3. Shape(t) /\ ChatStage(t) = ChatStage(s) BY <1>2, SameShape DEF Good
<1>4. t.out = s.out /\ Keeps(s, t) /\ Same(s, t, ChatFields \ {"ok"})
    BY <1>2 DEF Differ, ChatFields, Keeps, Same, Kept
<1>. QED BY <1>2, <1>3, <1>4 DEF Good, Output

\* Output of a stream that goes on.
LEMMA StepGood ==
    ASSUME NEW a, NEW s, NEW t, NEW q, Good(a, s), Going(s), IsRec(ChatFields, t), Keeps(s, t),
           Same(s, t, {"ok", "spent"}), t.index \in Nat, ~ (t.open /\ t.thinking),
           ToolsShape(t), DeferredShape(t), ActiveShape(t),
           t.out = s.out \o q, Path("chat", ChatStage(s), q, ChatStage(t))
    PROVE  Output(a, s, t) /\ Going(t)
<1>0. Shape(s) BY DEF Good
<1>1. /\ t.begun = s.begun /\ t.terminal = s.terminal /\ t.pending = s.pending
      /\ t.stopped = s.stopped /\ t.spent = s.spent /\ t.ok = s.ok /\ t.usage = s.usage
      /\ t.pendingUsage = s.pendingUsage /\ t.content = s.content /\ t.refusal = s.refusal
    BY DEF Keeps, Same, Kept
<1>2. PhaseShape(t) BY <1>0, <1>1 DEF PhaseShape, Going, Live, Shape
<1>3. NumberShape(t) BY <1>0, <1>1 DEF NumberShape, Shape
<1>4. Shape(t) BY <1>2, <1>3 DEF Shape
<1>5. Path("chat", a, t.out, ChatStage(t)) BY PathJoin DEF Good
<1>. QED BY <1>1, <1>4, <1>5, GoingKept DEF Good, Output

\* A step of the index closes what was open.
LEMMA ToolsKept ==
    ASSUME NEW s, NEW t, Shape(s), t.tools = s.tools, t.index \in Nat,
           t.index > s.index \/ (t.index = s.index /\ (s.open => t.open))
    PROVE  ToolsShape(t)
<1>. SUFFICES ASSUME NEW i \in DOMAIN s.tools
              PROVE  t.tools[i].block < t.index \/ (t.open /\ t.tools[i].block = t.index)
    BY DEF Shape, ToolsShape
<1>1. IsTool(s.tools[i]) /\ (s.tools[i].block < s.index \/ (s.open /\ s.tools[i].block = s.index))
      /\ s.index \in Nat
    BY DEF Shape, ToolsShape, NumberShape
<1>. QED BY <1>1 DEF IsTool

LEMMA DeferGood ==
    ASSUME NEW a, NEW s, NEW q, NEW t, Good(a, s), Going(s), t = [s EXCEPT !.deferred = q],
           IsSeq(q),
           \A i \in DOMAIN q : /\ IsRec({"kind", "body", "tool"}, q[i])
                               /\ q[i].kind = "tool" => q[i].tool \in DOMAIN s.tools
    PROVE  Output(a, s, t) /\ Same(s, t, ChatFields \ {"deferred"}) /\ t.deferred = q
<1>0. Shape(s) /\ IsRec(ChatFields, s) BY DEF Good, Shape
<1>1. IsRec(ChatFields, t) /\ t.deferred = q /\ Same(s, t, ChatFields \ {"deferred"})
    BY <1>0 DEF IsRec, ChatFields, Same
<1>2. /\ Keeps(s, t) /\ t.index = s.index /\ Same(s, t, {"ok", "spent"})
      /\ t.tools = s.tools /\ t.out = s.out /\ t.active = s.active
    BY <1>1 DEF Keeps, Same, Kept, ChatFields
<1>3. (t.open <=> s.open) /\ (t.thinking <=> s.thinking) BY <1>1 DEF Same, ChatFields
<1>4. t.index \in Nat /\ ~ (t.open /\ t.thinking)
    BY <1>0, <1>2, <1>3 DEF Shape, PhaseShape, NumberShape
<1>5. ToolsShape(t) BY <1>0, <1>2, <1>3 DEF Shape, ToolsShape
<1>6. DeferredShape(t) BY <1>1, <1>2 DEF DeferredShape
<1>7. ActiveShape(t) BY <1>0, <1>2, <1>3 DEF Shape, ActiveShape
<1>8. ChatStage(t) = ChatStage(s)
    <2>1. ToolOpen(t) <=> ToolOpen(s) BY <1>2, <1>3 DEF ToolOpen
    <2>2. (t.stopped <=> s.stopped) /\ (t.terminal <=> s.terminal) /\ (t.begun <=> s.begun)
        BY <1>1 DEF Same, ChatFields
    <2>3. t.pendingUsage = s.pendingUsage BY <1>1 DEF Same, ChatFields
    <2>. QED BY <1>2, <1>3, <2>1, <2>2, <2>3 DEF ChatStage
<1>9. Path("chat", a, t.out, ChatStage(t)) BY <1>2, <1>8 DEF Good
<1>10. /\ t.begun = s.begun /\ t.terminal = s.terminal /\ t.pending = s.pending
       /\ t.stopped = s.stopped /\ t.spent = s.spent /\ t.ok = s.ok /\ t.usage = s.usage
       /\ t.pendingUsage = s.pendingUsage /\ t.content = s.content /\ t.refusal = s.refusal
    BY <1>1 DEF Same, ChatFields
<1>11. PhaseShape(t) BY <1>0, <1>3, <1>10 DEF PhaseShape, Going, Live, Shape
<1>12. NumberShape(t) BY <1>0, <1>2, <1>10 DEF NumberShape, Shape
<1>. QED BY <1>1, <1>2, <1>5, <1>6, <1>7, <1>9, <1>10, <1>11, <1>12 DEF Shape, Good, Output

LEMMA EmitOpaqueGood ==
    ASSUME NEW a, NEW s, NEW g, NEW t, Good(a, s), Going(s), ~s.open, ~s.thinking,
           t = EmitOpaque(s, g)
    PROVE  Output(a, s, t) /\ Calm(s, t) /\ ~t.open /\ Same(s, t, {"deferred", "tools"})
<1>. DEFINE b == <<BlockStart(s.index, "thinking", <<>>),
                   BlockDelta(s.index, "thinking", <<Placeholder>>)>>
            c == <<BlockDelta(s.index, "signature", g), BlockStop(s.index)>>
            q == b \o c
            e == Emit(s, q)
<1>0. Shape(s) /\ IsRec(ChatFields, s) /\ Live(s) /\ s.index \in Nat
    BY DEF Good, Shape, Going, NumberShape
<1>1. q = <<BlockStart(s.index, "thinking", <<>>), BlockDelta(s.index, "thinking", <<Placeholder>>),
            BlockDelta(s.index, "signature", g), BlockStop(s.index)>>
    BY AppendedShort
<1>2. t = [e EXCEPT !.index = @ + 1] BY <1>1 DEF EmitOpaque
<1>3. IsRec(ChatFields, e) /\ Differ(ChatFields, s, e, {"out"}) /\ e.out = s.out \o q
    BY ZenonT(60), <1>0, EmitFacts DEF ChatFields
<1>. HIDE DEF e, q
<1>4. IsRec(ChatFields, t) /\ t.index = e.index + 1 /\ Same(e, t, ChatFields \ {"index"})
    BY <1>2, <1>3 DEF IsRec, ChatFields, Same
<1>5. t.index = s.index + 1 /\ t.out = s.out \o q /\ Same(s, t, ChatFields \ {"index", "out"})
    BY <1>3, <1>4 DEF Differ, Same, ChatFields
<1>6. /\ Keeps(s, t) /\ Same(s, t, {"ok", "spent"}) /\ t.tools = s.tools /\ t.deferred = s.deferred
      /\ t.active = s.active
    BY <1>5 DEF Keeps, Same, Kept, ChatFields
<1>7. ~t.open /\ ~t.thinking BY <1>5 DEF Same, ChatFields
<1>8. ToolsShape(t) BY <1>0, <1>5, <1>6, ToolsKept
<1>9. DeferredShape(t) BY <1>0, <1>6 DEF Shape, DeferredShape
<1>10. ActiveShape(t) BY <1>0, <1>6 DEF Shape, ActiveShape
<1>11. ChatStage(s) = Stage("message", <<>>, s.index, <<>>) BY <1>0, LiveStage
<1>. DEFINE m == Stage("message", <<s.index, "thinking">>, s.index + 1, <<>>)
            z == Stage("message", <<>>, s.index + 1, <<>>)
<1>12. /\ ChatStage(s).phase = "message" /\ ChatStage(s).open = <<>> /\ ChatStage(s).next = s.index
       /\ ChatStage(s).told = <<>>
       /\ m.phase = "message" /\ m.open = <<s.index, "thinking">> /\ m.next = s.index + 1
       /\ m.told = <<>>
    BY <1>11, StageFields
<1>13. "thinking" \in Promised!Deltas["thinking"] /\ "signature" \in Promised!Deltas["thinking"]
    BY DEF Promised!Deltas
<1>14. Path("chat", ChatStage(s), b, m)
    <2>1. Allowed("chat", ChatStage(s), BlockStart(s.index, "thinking", <<>>), m)
        BY <1>12, AllowedSteps
    <2>2. Allowed("chat", m, BlockDelta(s.index, "thinking", <<Placeholder>>), m)
        <3>. HIDE DEF m
        <3>. QED BY <1>12, <1>13, AllowedSteps
    <2>. HIDE DEF m
    <2>. QED BY <2>1, <2>2, PathTwo
<1>15. Path("chat", m, c, z)
    <2>. HIDE DEF m
    <2>1. Allowed("chat", m, BlockDelta(s.index, "signature", g), m)
        BY <1>12, <1>13, AllowedSteps
    <2>2. Allowed("chat", m, BlockStop(s.index), z) BY <1>12, AllowedSteps
    <2>. HIDE DEF z
    <2>. QED BY <2>1, <2>2, PathTwo
<1>16. ChatStage(t) = z
    <2>1. t.stopped = s.stopped /\ t.terminal = s.terminal /\ t.begun = s.begun
        BY <1>6 DEF Keeps, Same, Kept
    <2>2. ~s.stopped BY <1>0 DEF Shape, PhaseShape, Live
    <2>. QED BY <1>0, <1>5, <1>7, <2>1, <2>2 DEF ChatStage, Live
<1>17. Path("chat", ChatStage(s), q, ChatStage(t))
    <2>. HIDE DEF m, z, b, c
    <2>. QED BY <1>14, <1>15, <1>16, PathJoin DEF q
<1>18. t.index \in Nat BY <1>0, <1>5
<1>19. Output(a, s, t)
    BY <1>4, <1>5, <1>6, <1>7, <1>8, <1>9, <1>10, <1>17, <1>18, StepGood
<1>. QED BY <1>6, <1>7, <1>19 DEF Calm, Same

LEMMA EmitTextGood ==
    ASSUME NEW a, NEW s, NEW text, NEW fromContent, NEW paid, NEW t, Good(a, s), Going(s), s.ok,
           paid \/ IsSeq(text), t = EmitText(s, text, fromContent, paid)
    PROVE  Output(a, s, t) /\ Calm(s, t) /\ Same(s, t, {"deferred", "tools"})
<1>1. CASE ToolOpen(s) \/ (fromContent /\ ~IsPrefix(s.emitted \o text, s.content))
    <2>1. t = Fail(s) BY <1>1 DEF EmitText
    <2>2. Output(a, s, t) /\ Same(s, t, ChatFields \ {"ok"}) BY <2>1, FailGood
    <2>3. t.thinking = s.thinking /\ t.tools = s.tools /\ t.deferred = s.deferred
        BY <2>2 DEF Same, ChatFields
    <2>. QED BY <2>2, <2>3 DEF Calm, Same
<1>2. CASE ~ (ToolOpen(s) \/ (fromContent /\ ~IsPrefix(s.emitted \o text, s.content)))
    <2>. DEFINE r == IF paid THEN s ELSE Reserve(s, Len(text))
                c == CloseThinking(r)
                start == IF c.open THEN <<>> ELSE <<BlockStart(c.index, "text", <<>>)>>
                delta == BlockDelta(c.index, "text", text)
                e == Emit(c, Append(start, delta))
                u == [e EXCEPT !.open = TRUE, !.emitted = IF fromContent THEN @ \o text ELSE @]
    <2>1. t = IF r.ok THEN u ELSE r BY <1>2 DEF EmitText, Then
    <2>2. Output(a, s, r) /\ Same(s, r, ChatFields \ {"ok", "spent"}) /\ (ToolOpen(r) <=> ToolOpen(s))
        <3>1. CASE paid
            <4>1. r = s BY <3>1
            <4>. QED BY <4>1 DEF Output, Keeps, Same
        <3>2. CASE ~paid
            <4>1. r = Reserve(s, Len(text)) /\ Len(text) \in Nat BY <3>2, SeqFacts
            <4>. HIDE DEF r
            <4>. QED BY <4>1, ReserveGood DEF Output
        <3>. QED BY <3>1, <3>2
    <2>. HIDE DEF r
    <2>3. Good(a, r) /\ Going(r) /\ ~ToolOpen(r) BY <1>2, <2>2, GoingKept DEF Output
    <2>4. r.tools = s.tools /\ r.deferred = s.deferred /\ (r.thinking <=> s.thinking)
        BY <2>2 DEF Same, ChatFields
    <2>5. CASE ~r.ok BY <2>1, <2>2, <2>4, <2>5 DEF Calm, Same
    <2>6. CASE r.ok
        <3>0. c = CloseThinking(r) OBVIOUS
        <3>1. /\ Good(a, c) /\ Keeps(r, c) /\ Same(r, c, {"tools", "deferred", "active", "open"})
              /\ c.ok /\ ~c.thinking /\ (~r.thinking => c = r)
            <4>. HIDE DEF c
            <4>. QED BY <2>3, <2>6, <3>0, CloseThinkingNow
        <3>2. t = u BY <2>1, <2>6
        <3>. HIDE DEF c
        <3>3. Going(c) /\ Shape(c) /\ IsRec(ChatFields, c) /\ c.index \in Nat /\ Live(c)
            BY <2>3, <3>1, GoingKept DEF Good, Shape, NumberShape, Going
        <3>4. c.tools = r.tools /\ c.deferred = r.deferred /\ c.active = r.active /\ (c.open <=> r.open)
            BY <3>1 DEF Same
        <3>5. c.open => ~ToolOpen(c)
            <4>1. c.open => ~r.thinking BY <2>3, <3>4 DEF Good, Shape, PhaseShape
            <4>. QED BY <2>3, <3>1, <4>1
        <3>6. c.active = 0
            <4>1. c.active # 0 => ToolOpen(c) /\ c.open BY <3>3 DEF Shape, ActiveShape, ToolOpen
            <4>. QED BY <3>5, <4>1
        <3>7. /\ IsRec(ChatFields, e) /\ Differ(ChatFields, c, e, {"out"})
              /\ e.out = c.out \o Append(start, delta)
            <4>. DEFINE q == Append(start, delta)
            <4>1. e = Emit(c, q) OBVIOUS
            <4>. HIDE DEF q, e
            <4>2. IsRec(ChatFields, e) /\ Differ(ChatFields, c, e, {"out"}) /\ e.out = c.out \o q
                BY <3>3, <4>1, EmitChat
            <4>. QED BY <4>2 DEF q
        <3>. HIDE DEF e
        <3>8. IsRec(ChatFields, t) /\ t.open = TRUE /\ Same(e, t, ChatFields \ {"open", "emitted"})
            BY <3>2, <3>7 DEF IsRec, ChatFields, Same
        <3>9. t.out = c.out \o Append(start, delta) /\ Same(c, t, ChatFields \ {"open", "emitted", "out"})
            BY <3>7, <3>8 DEF Differ, Same, ChatFields
        <3>10. /\ Keeps(c, t) /\ Same(c, t, {"ok", "spent"}) /\ t.tools = c.tools
               /\ t.deferred = c.deferred /\ t.active = c.active /\ t.index = c.index
            BY <3>9 DEF Keeps, Same, Kept, ChatFields
        <3>11. ~t.thinking BY <3>1, <3>9 DEF Same, ChatFields
        <3>12. ToolsShape(t) BY <3>3, <3>8, <3>10, ToolsKept
        <3>13. DeferredShape(t) BY <3>3, <3>10 DEF Shape, DeferredShape
        <3>14. ActiveShape(t) BY <3>6, <3>10 DEF ActiveShape
        <3>15. ~ToolOpen(t)
            <4>1. CASE c.open
                <5>1. ~ToolOpen(c) BY <3>5, <4>1
                <5>. QED BY <3>10, <4>1, <5>1 DEF ToolOpen
            <4>2. CASE ~c.open
                <5>. SUFFICES ASSUME NEW i \in DOMAIN c.tools PROVE c.tools[i].block # c.index
                    BY <3>10 DEF ToolOpen
                <5>1. IsTool(c.tools[i]) /\ c.tools[i].block < c.index BY <3>3, <4>2 DEF Shape, ToolsShape
                <5>. QED BY <3>3, <5>1 DEF IsTool
            <4>. QED BY <4>1, <4>2
        <3>. DEFINE z == Stage("message", <<c.index, "text">>, c.index + 1, <<>>)
        <3>16. ChatStage(t) = z
            <4>1. t.stopped = c.stopped /\ t.terminal = c.terminal /\ t.begun = c.begun
                BY <3>10 DEF Keeps, Same, Kept
            <4>2. ~c.stopped BY <3>3 DEF Shape, PhaseShape, Live
            <4>. QED BY <3>3, <3>8, <3>10, <3>11, <3>15, <4>1, <4>2 DEF ChatStage, Live
        <3>17. /\ z.phase = "message" /\ z.open = <<c.index, "text">> /\ z.next = c.index + 1
               /\ z.told = <<>>
            BY StageFields
        <3>18. Allowed("chat", z, delta, z)
            <4>1. "text" \in Promised!Deltas["text"] BY DEF Promised!Deltas
            <4>. HIDE DEF z
            <4>. QED BY <3>17, <4>1, AllowedSteps
        <3>19. Path("chat", ChatStage(c), Append(start, delta), z)
            <4>1. CASE c.open
                <5>1. start = <<>> /\ Append(start, delta) = <<delta>> BY <4>1, AppendedShort
                <5>2. ChatStage(c) = z
                    <6>1. ~ToolOpen(c) BY <3>5, <4>1
                    <6>. QED BY <3>3, <4>1, <6>1, LiveStage
                <5>. HIDE DEF z, delta, start
                <5>. QED BY <3>18, <5>1, <5>2, PathOne
            <4>2. CASE ~c.open
                <5>1. Append(start, delta) = <<BlockStart(c.index, "text", <<>>), delta>>
                    <6>. HIDE DEF delta
                    <6>. QED BY <4>2, AppendedShort
                <5>2. ChatStage(c) = Stage("message", <<>>, c.index, <<>>) BY <3>1, <3>3, <4>2, LiveStage
                <5>3. /\ ChatStage(c).phase = "message" /\ ChatStage(c).open = <<>>
                      /\ ChatStage(c).next = c.index /\ ChatStage(c).told = <<>>
                    BY <5>2, StageFields
                <5>4. Allowed("chat", ChatStage(c), BlockStart(c.index, "text", <<>>), z)
                    BY <5>3, AllowedSteps
                <5>. HIDE DEF z, delta, start
                <5>. QED BY <3>18, <5>1, <5>4, PathTwo
            <4>. QED BY <4>1, <4>2
        <3>20. Output(a, c, t)
            <4>. HIDE DEF z, delta, start
            <4>. QED BY <3>1, <3>3, <3>8, <3>9, <3>10, <3>11, <3>12, <3>13, <3>14, <3>16, <3>19, StepGood
        <3>21. Output(a, r, c) BY <2>6, <3>1 DEF Output
        <3>22. Output(a, s, t) BY <2>2, <3>20, <3>21, OutputAgain
        <3>. QED BY <2>4, <3>4, <3>10, <3>11, <3>22 DEF Calm, Same
    <2>. QED BY <2>5, <2>6
<1>. QED BY <1>1, <1>2

LEMMA ReserveOutput ==
    ASSUME NEW a, NEW s, NEW n \in Nat, NEW t, Good(a, s), Going(s), t = Reserve(s, n)
    PROVE  /\ Output(a, s, t) /\ Calm(s, t) /\ Going(t)
           /\ Same(s, t, ChatFields \ {"ok", "spent"}) /\ (ToolOpen(t) <=> ToolOpen(s))
<1>1. /\ Good(a, t) /\ Keeps(s, t) /\ Same(s, t, ChatFields \ {"ok", "spent"}) /\ (t.ok => s.ok)
      /\ (ToolOpen(t) <=> ToolOpen(s))
    BY ReserveGood
<1>2. (t.thinking <=> s.thinking) /\ t.tools = s.tools BY <1>1 DEF Same, ChatFields
<1>. QED BY <1>1, <1>2, GoingKept DEF Output, Calm

LEMMA DeferTextGood ==
    ASSUME NEW a, NEW s, NEW text, NEW fromContent, NEW t, Good(a, s), Going(s), s.ok,
           IsSeq(text), t = DeferText(s, text, fromContent)
    PROVE  Output(a, s, t) /\ Calm(s, t) /\ Same(s, t, {"tools"})
<1>. DEFINE r == Reserve(s, Len(text))
            kind == IF fromContent THEN "content" ELSE "reasoning"
            same == r.deferred # <<>> /\ Last(r.deferred).kind = kind
            old == [r.deferred EXCEPT ![Len(r.deferred)].body = @ \o text]
            new == Append(r.deferred, Deferred(kind, text, 0))
            q == IF same THEN old ELSE new
<1>1. t = IF ~r.ok THEN r ELSE [r EXCEPT !.deferred = q]
    BY DEF DeferText, Then
<1>2. r = Reserve(s, Len(text)) /\ Len(text) \in Nat BY SeqFacts
<1>. HIDE DEF r
<1>3. /\ Output(a, s, r) /\ Calm(s, r) /\ Going(r) /\ Same(s, r, ChatFields \ {"ok", "spent"})
    BY <1>2, ReserveOutput
<1>4. Good(a, r) /\ Shape(r) BY <1>3 DEF Output, Good
<1>5. CASE ~r.ok
    <2>1. t = r BY <1>1, <1>5
    <2>. QED BY <1>3, <2>1 DEF Same, ChatFields
<1>6. CASE r.ok
    <2>. DEFINE d == r.deferred  n == Len(d)
    <2>1. IsSeq(d) /\ n \in Nat /\ DOMAIN d = 1 .. n
          /\ \A i \in 1 .. n : /\ IsRec({"kind", "body", "tool"}, d[i])
                               /\ d[i].kind = "tool" => d[i].tool \in DOMAIN r.tools
        BY <1>4, SeqFacts DEF Shape, DeferredShape
    <2>2. t = [r EXCEPT !.deferred = q] BY <1>1, <1>6
    <2>3. /\ IsSeq(q)
          /\ \A i \in DOMAIN q : /\ IsRec({"kind", "body", "tool"}, q[i])
                                 /\ q[i].kind = "tool" => q[i].tool \in DOMAIN r.tools
        <3>1. CASE same
            <4>1. q = [d EXCEPT ![n] = [d[n] EXCEPT !.body = @ \o text]] BY <3>1
            <4>. HIDE DEF d, n, q
            <4>2. DOMAIN q = 1 .. n /\ IsSeq(q)
                <5>1. PICK S : d \in Seq(S) BY <2>1 DEF IsSeq
                <5>. DEFINE x == [d[n] EXCEPT !.body = @ \o text]
                <5>2. q = [d EXCEPT ![n] = x] BY <4>1
                <5>. HIDE DEF x
                <5>3. d \in Seq(S \union {x}) /\ x \in S \union {x} /\ n \in 1 .. Len(d)
                    BY <2>1, <3>1, <5>1, SeqFacts DEF d, n
                <5>4. q \in Seq(S \union {x}) BY <5>2, <5>3, ExceptSeq
                <5>5. DOMAIN q = DOMAIN d BY <5>2
                <5>. QED BY <2>1, <5>4, <5>5 DEF IsSeq
            <4>3. \A i \in 1 .. n : i # n => q[i] = d[i] BY <2>1, <4>1
            <4>4. n \in 1 .. n => /\ IsRec({"kind", "body", "tool"}, q[n])
                                  /\ q[n].kind = d[n].kind /\ q[n].tool = d[n].tool
                <5>. SUFFICES ASSUME n \in 1 .. n
                              PROVE /\ IsRec({"kind", "body", "tool"}, q[n])
                                    /\ q[n].kind = d[n].kind /\ q[n].tool = d[n].tool
                    OBVIOUS
                <5>1. q[n] = [d[n] EXCEPT !.body = @ \o text] BY <2>1, <4>1
                <5>2. IsRec({"kind", "body", "tool"}, d[n]) BY <2>1
                <5>. QED BY <5>1, <5>2 DEF IsRec
            <4>. QED BY <2>1, <4>2, <4>3, <4>4
        <3>2. CASE ~same
            <4>. DEFINE x == Deferred(kind, text, 0)
            <4>1. q = Append(d, x) BY <3>2
            <4>2. IsRec({"kind", "body", "tool"}, x) /\ x.kind # "tool" BY DEF Deferred, IsRec
            <4>. HIDE DEF d, n, q, x
            <4>3. /\ IsSeq(q) /\ Len(q) = Len(d) + 1
                  /\ \A i \in 1 .. Len(d) + 1 : q[i] = IF i = Len(d) + 1 THEN x ELSE d[i]
                BY <2>1, <4>1, SeqFacts
            <4>4. DOMAIN q = 1 .. n + 1 BY <4>3, SeqFacts DEF n
            <4>5. \A i \in 1 .. n + 1 : i \in 1 .. n \/ i = n + 1 BY <2>1
            <4>. QED BY <2>1, <4>2, <4>3, <4>4, <4>5 DEF n
        <3>. QED BY <3>1, <3>2
    <2>. HIDE DEF q
    <2>4. Output(a, r, t) /\ Same(r, t, ChatFields \ {"deferred"}) BY <1>3, <1>4, <2>2, <2>3, DeferGood
    <2>5. Output(a, s, t) BY <1>3, <2>4, OutputAgain
    <2>6. /\ r.tools = s.tools /\ t.tools = r.tools
          /\ (t.thinking <=> r.thinking) /\ (r.thinking <=> s.thinking)
        BY <1>3, <2>4 DEF Same, ChatFields
    <2>. QED BY <2>5, <2>6 DEF Calm, Same
<1>. QED BY <1>5, <1>6

LEMMA ScheduleTextGood ==
    ASSUME NEW a, NEW s, NEW text, NEW fromContent, NEW t, Good(a, s), Going(s), s.ok,
           IsSeq(text), t = ScheduleText(s, text, fromContent)
    PROVE  Output(a, s, t) /\ Calm(s, t) /\ Same(s, t, {"tools"})
<1>1. CASE text = <<>>
    <2>1. t = s BY <1>1 DEF ScheduleText
    <2>. QED BY <2>1 DEF Output, Calm, Keeps, Same
<1>2. CASE text # <<>> /\ Busy(s)
    <2>1. t = DeferText(s, text, fromContent) BY <1>2 DEF ScheduleText
    <2>. QED BY <2>1, DeferTextGood
<1>3. CASE text # <<>> /\ ~Busy(s)
    <2>1. t = EmitText(s, text, fromContent, FALSE) BY <1>3 DEF ScheduleText
    <2>2. Output(a, s, t) /\ Calm(s, t) /\ Same(s, t, {"deferred", "tools"}) BY <2>1, EmitTextGood
    <2>. QED BY <2>2 DEF Same
<1>. QED BY <1>1, <1>2, <1>3

LEMMA ThinkGood ==
    ASSUME NEW a, NEW s, NEW text, NEW t, Good(a, s), Going(s), s.ok, IsSeq(text),
           t = Think(s, text)
    PROVE  Output(a, s, t) /\ Same(s, t, {"tools"})
<1>1. CASE text = <<>>
    <2>1. t = s BY <1>1 DEF Think
    <2>. QED BY <2>1 DEF Output, Keeps, Same
<1>2. CASE text # <<>> /\ (s.open \/ Busy(s))
    <2>1. t = ScheduleText(s, text, FALSE) BY <1>2 DEF Think
    <2>. QED BY <2>1, ScheduleTextGood
<1>3. CASE text # <<>> /\ ~s.open /\ ~Busy(s)
    <2>. DEFINE r == Reserve(s, Len(text))
                start == IF r.thinking THEN <<>> ELSE <<BlockStart(r.index, "thinking", <<>>)>>
                delta == BlockDelta(r.index, "thinking", text)
                q == Append(start, delta)
                e == Emit(r, q)
    <2>1. t = IF ~r.ok THEN r ELSE [e EXCEPT !.thinking = TRUE] BY <1>3 DEF Think, Then
    <2>2. r = Reserve(s, Len(text)) /\ Len(text) \in Nat BY SeqFacts
    <2>. HIDE DEF r
    <2>3. Output(a, s, r) /\ Going(r) /\ Same(s, r, ChatFields \ {"ok", "spent"})
        BY <2>2, ReserveOutput
    <2>4. CASE ~r.ok
        <3>1. t = r BY <2>1, <2>4
        <3>. QED BY <2>3, <3>1 DEF Same, ChatFields
    <2>5. CASE r.ok
        <3>1. Good(a, r) /\ Shape(r) /\ IsRec(ChatFields, r) /\ r.index \in Nat /\ Live(r)
            BY <2>3 DEF Output, Good, Shape, NumberShape, Going
        <3>2. ~r.open /\ r.active = 0 /\ r.tools = s.tools
            BY <1>3, <2>3 DEF Same, ChatFields, Busy
        <3>3. e = Emit(r, q) OBVIOUS
        <3>. HIDE DEF e, q
        <3>4. IsRec(ChatFields, e) /\ Differ(ChatFields, r, e, {"out"}) /\ e.out = r.out \o q
            BY <3>1, <3>3, EmitChat
        <3>5. t = [e EXCEPT !.thinking = TRUE] BY <2>1, <2>5
        <3>6. IsRec(ChatFields, t) /\ t.thinking = TRUE /\ Same(e, t, ChatFields \ {"thinking"})
            BY <3>4, <3>5 DEF IsRec, ChatFields, Same
        <3>7. t.out = r.out \o q /\ Same(r, t, ChatFields \ {"thinking", "out"})
            BY <3>4, <3>6 DEF Differ, Same, ChatFields
        <3>8. /\ Keeps(r, t) /\ Same(r, t, {"ok", "spent"}) /\ t.tools = r.tools
              /\ t.deferred = r.deferred /\ t.active = r.active /\ t.index = r.index
            BY <3>7 DEF Keeps, Same, Kept, ChatFields
        <3>9. ~t.open BY <3>2, <3>7 DEF Same, ChatFields
        <3>10. ToolsShape(t) BY <3>1, <3>2, <3>8, ToolsKept
        <3>11. DeferredShape(t) BY <3>1, <3>8 DEF Shape, DeferredShape
        <3>12. ActiveShape(t) BY <3>2, <3>8 DEF ActiveShape
        <3>. DEFINE z == Stage("message", <<r.index, "thinking">>, r.index + 1, <<>>)
        <3>13. ChatStage(t) = z
            <4>1. t.stopped = r.stopped /\ t.terminal = r.terminal /\ t.begun = r.begun
                BY <3>8 DEF Keeps, Same, Kept
            <4>2. ~r.stopped BY <3>1 DEF Shape, PhaseShape, Live
            <4>. QED BY <3>1, <3>6, <3>8, <3>9, <4>1, <4>2 DEF ChatStage, Live
        <3>14. /\ z.phase = "message" /\ z.open = <<r.index, "thinking">> /\ z.next = r.index + 1
               /\ z.told = <<>>
            BY StageFields
        <3>15. Allowed("chat", z, delta, z)
            <4>1. "thinking" \in Promised!Deltas["thinking"] BY DEF Promised!Deltas
            <4>. HIDE DEF z
            <4>. QED BY <3>14, <4>1, AllowedSteps
        <3>16. Path("chat", ChatStage(r), q, z)
            <4>1. CASE r.thinking
                <5>1. q = <<delta>> BY <4>1, AppendedShort DEF q
                <5>2. ChatStage(r) = z BY <3>1, <4>1, LiveStage
                <5>. HIDE DEF z, delta
                <5>. QED BY <3>15, <5>1, <5>2, PathOne
            <4>2. CASE ~r.thinking
                <5>1. q = <<BlockStart(r.index, "thinking", <<>>), delta>>
                    <6>. HIDE DEF delta
                    <6>. QED BY <4>2, AppendedShort DEF q
                <5>2. ChatStage(r) = Stage("message", <<>>, r.index, <<>>) BY <3>1, <3>2, <4>2, LiveStage
                <5>3. /\ ChatStage(r).phase = "message" /\ ChatStage(r).open = <<>>
                      /\ ChatStage(r).next = r.index /\ ChatStage(r).told = <<>>
                    BY <5>2, StageFields
                <5>4. Allowed("chat", ChatStage(r), BlockStart(r.index, "thinking", <<>>), z)
                    BY <5>3, AllowedSteps
                <5>. HIDE DEF z, delta
                <5>. QED BY <3>15, <5>1, <5>4, PathTwo
            <4>. QED BY <4>1, <4>2
        <3>17. Output(a, r, t)
            <4>. HIDE DEF z
            <4>. QED BY <2>3, <3>1, <3>6, <3>7, <3>8, <3>9, <3>10, <3>11, <3>12, <3>13, <3>16, StepGood
        <3>18. Output(a, s, t) BY <2>3, <3>17, OutputAgain
        <3>. QED BY <3>2, <3>8, <3>18 DEF Same
    <2>. QED BY <2>4, <2>5
<1>. QED BY <1>1, <1>2, <1>3

LEMMA StartToolGood ==
    ASSUME NEW a, NEW s, NEW i, NEW t, Good(a, s), Going(s), s.ok, i \in DOMAIN s.tools,
           t = StartTool(s, i)
    PROVE  Output(a, s, t) /\ Calm(s, t) /\ Same(s, t, {"deferred"})
<1>1. CASE s.active # 0 \/ s.tools[i].started \/ ~Ready(s.tools[i])
    <2>1. t = Fail(s) BY <1>1 DEF StartTool
    <2>2. Output(a, s, t) /\ Same(s, t, ChatFields \ {"ok"}) BY <2>1, FailGood
    <2>3. t.thinking = s.thinking /\ t.tools = s.tools /\ t.deferred = s.deferred
        BY <2>2 DEF Same, ChatFields
    <2>. QED BY <2>2, <2>3 DEF Calm, Same
<1>2. CASE ~ (s.active # 0 \/ s.tools[i].started \/ ~Ready(s.tools[i]))
    <2>. DEFINE h == CloseThinking(s)
                c == CloseBlock(h)
                tool == c.tools[i]
                args == [k \in DOMAIN tool.buffered |-> BlockDelta(c.index, "input_json", tool.buffered[k])]
                start == <<BlockStart(c.index, "tool_use", <<tool.id>>)>>
                q == start \o args
                e == Emit(c, q)
                new == [tool EXCEPT !.block = c.index, !.started = TRUE, !.buffered = <<>>]
    <2>1. t = [e EXCEPT !.tools[i] = new, !.active = i, !.open = TRUE]
        BY <1>2 DEF StartTool
    <2>2. h = CloseThinking(s) /\ c = CloseBlock(h) OBVIOUS
    <2>. HIDE DEF h
    <2>3. /\ Good(a, h) /\ Keeps(s, h) /\ Same(s, h, {"tools", "deferred", "active", "open"})
          /\ h.ok /\ ~h.thinking
        BY <2>2, CloseThinkingNow
    <2>. HIDE DEF c
    <2>4. /\ Good(a, c) /\ Keeps(h, c) /\ ~c.open /\ c.active = 0
          /\ Same(h, c, {"ok", "tools", "deferred", "thinking", "spent"})
        BY <2>2, <2>3, CloseBlockGood
    <2>5. c.tools = s.tools /\ c.deferred = s.deferred /\ ~c.thinking /\ c.ok
        BY <2>3, <2>4 DEF Same
    <2>6. Output(a, s, c)
        <3>1. Keeps(s, c) BY <2>3, <2>4 DEF Keeps, Same
        <3>. QED BY <2>4, <3>1 DEF Output
    <2>7. Going(c) /\ Shape(c) /\ IsRec(ChatFields, c) /\ c.index \in Nat /\ Live(c)
        BY <2>4, <2>6, GoingKept DEF Output, Good, Shape, NumberShape, Going
    <2>8. e = Emit(c, q) OBVIOUS
    <2>. HIDE DEF e, q
    <2>9. IsRec(ChatFields, e) /\ Differ(ChatFields, c, e, {"out"}) /\ e.out = c.out \o q
        BY <2>7, <2>8, EmitChat
    <2>10. e.tools = c.tools BY <2>9 DEF Differ, ChatFields
    <2>. HIDE DEF new
    <2>11. /\ IsRec(ChatFields, t) /\ t.open = TRUE /\ t.active = i /\ t.tools = [c.tools EXCEPT ![i] = new]
           /\ Same(e, t, ChatFields \ {"open", "active", "tools"})
        BY ZenonT(60), <2>1, <2>9, <2>10 DEF IsRec, ChatFields, Same
    <2>12. t.out = c.out \o q /\ Same(c, t, ChatFields \ {"open", "active", "tools", "out"})
        BY <2>9, <2>11 DEF Differ, Same, ChatFields
    <2>13. /\ Keeps(c, t) /\ Same(c, t, {"ok", "spent"}) /\ t.deferred = c.deferred /\ t.index = c.index
        BY <2>12 DEF Keeps, Same, Kept, ChatFields
    <2>14. ~t.thinking BY <2>5, <2>12 DEF Same, ChatFields
    <2>15. IsSeq(t.tools) /\ DOMAIN t.tools = DOMAIN c.tools
        <3>1. PICK S : c.tools \in Seq(S) BY <2>7 DEF Shape, ToolsShape, IsSeq
        <3>2. c.tools \in Seq(S \union {new}) /\ new \in S \union {new} /\ i \in 1 .. Len(c.tools)
            BY <2>5, <3>1
        <3>3. t.tools \in Seq(S \union {new}) BY <2>11, <3>2, ExceptSeq
        <3>. QED BY <2>11, <3>3 DEF IsSeq
    <2>16. /\ t.tools[i] = new /\ IsTool(tool) /\ tool = c.tools[i] /\ i \in DOMAIN c.tools
           /\ \A j \in DOMAIN c.tools : j # i => t.tools[j] = c.tools[j]
        BY <2>5, <2>7, <2>11 DEF Shape, ToolsShape
    <2>17. IsTool(new) /\ new.block = c.index
        <3>1. IsRec(ToolFields, tool) BY <2>16 DEF IsTool
        <3>. HIDE DEF tool
        <3>2. IsRec(ToolFields, new) /\ new.block = c.index /\ new.buffered = <<>>
            BY <3>1 DEF IsRec, ToolFields, new
        <3>. QED BY <2>7, <3>2, ShortSeqs DEF IsTool
    <2>18. ToolsShape(t)
        <3>. SUFFICES ASSUME NEW j \in DOMAIN c.tools
                      PROVE  /\ IsTool(t.tools[j])
                             /\ t.tools[j].block < t.index \/ (t.open /\ t.tools[j].block = t.index)
            BY <2>15 DEF ToolsShape
        <3>1. CASE j = i BY <2>11, <2>13, <2>16, <2>17, <3>1
        <3>2. CASE j # i
            <4>1. IsTool(c.tools[j]) /\ c.tools[j].block < c.index BY <2>4, <2>7 DEF Shape, ToolsShape
            <4>. QED BY <2>13, <2>16, <3>2, <4>1
        <3>. QED BY <3>1, <3>2
    <2>19. DeferredShape(t) BY <2>7, <2>13, <2>15 DEF Shape, DeferredShape
    <2>20. ActiveShape(t) BY <2>11, <2>13, <2>15, <2>16, <2>17 DEF ActiveShape
    <2>21. ToolOpen(t) BY <2>11, <2>13, <2>15, <2>16, <2>17 DEF ToolOpen
    <2>. DEFINE z == Stage("message", <<c.index, "tool_use">>, c.index + 1, <<>>)
    <2>22. ChatStage(t) = z
        <3>1. t.stopped = c.stopped /\ t.terminal = c.terminal /\ t.begun = c.begun
            BY <2>13 DEF Keeps, Same, Kept
        <3>2. ~c.stopped BY <2>7 DEF Shape, PhaseShape, Live
        <3>. QED BY <2>7, <2>11, <2>13, <2>14, <2>21, <3>1, <3>2 DEF ChatStage, Live
    <2>23. z.phase = "message" /\ z.open = <<c.index, "tool_use">> /\ z.next = c.index + 1 /\ z.told = <<>>
        BY StageFields
    <2>24. ChatStage(c) = Stage("message", <<>>, c.index, <<>>) BY <2>4, <2>5, <2>7, LiveStage
    <2>25. /\ ChatStage(c).phase = "message" /\ ChatStage(c).open = <<>> /\ ChatStage(c).next = c.index
           /\ ChatStage(c).told = <<>>
        BY <2>24, StageFields
    <2>26. Path("chat", ChatStage(c), start, z)
        <3>. DEFINE b == BlockStart(c.index, "tool_use", <<tool.id>>)
        <3>1. Allowed("chat", ChatStage(c), b, z) BY <2>25, AllowedSteps
        <3>2. start = <<b>> OBVIOUS
        <3>. HIDE DEF b, z, start
        <3>. QED BY <3>1, <3>2, PathOne
    <2>27. Path("chat", z, args, z)
        <3>1. IsSeq(tool.buffered) BY <2>16 DEF IsTool
        <3>. DEFINE w == tool.buffered
        <3>2. IsSeq(args) /\ DOMAIN args = DOMAIN w
            <4>1. Len(w) \in Nat /\ DOMAIN w = 1 .. Len(w) BY <3>1, SeqFacts
            <4>2. args \in Seq({BlockDelta(c.index, "input_json", w[k]) : k \in DOMAIN w})
                <5>. HIDE DEF w
                <5>. SUFFICES [k \in 1 .. Len(w) |-> BlockDelta(c.index, "input_json", w[k])]
                                  \in Seq({BlockDelta(c.index, "input_json", w[k]) : k \in 1 .. Len(w)})
                    BY <4>1 DEF w
                <5>. QED BY <4>1
            <4>. QED BY <4>2 DEF IsSeq
        <3>3. "input_json" \in Promised!Deltas["tool_use"] BY DEF Promised!Deltas
        <3>4. \A k \in DOMAIN args : Allowed("chat", z, args[k], z)
            <4>1. \A k \in DOMAIN args : args[k] = BlockDelta(c.index, "input_json", w[k]) OBVIOUS
            <4>. HIDE DEF z, args, w
            <4>. QED BY <2>23, <3>3, <4>1, AllowedSteps
        <3>. HIDE DEF args, z
        <3>. QED BY <3>2, <3>4, PathLoop
    <2>28. Path("chat", ChatStage(c), q, z)
        <3>. HIDE DEF start, args, z
        <3>. QED BY <2>26, <2>27, PathJoin DEF q
    <2>29. Output(a, c, t)
        <3>. HIDE DEF z
        <3>. QED BY <2>4, <2>7, <2>11, <2>12, <2>13, <2>14, <2>18, <2>19, <2>20, <2>22, <2>28, StepGood
    <2>30. Output(a, s, t) BY <2>6, <2>29, OutputAgain
    <2>. QED BY <2>5, <2>13, <2>14, <2>15, <2>30 DEF Calm, Same
<1>. QED BY <1>1, <1>2

LEMMA StartFrontGood ==
    ASSUME NEW a, NEW s, NEW t, Good(a, s), Going(s), s.ok, t = StartFront(s)
    PROVE  Output(a, s, t) /\ Calm(s, t)
<1>1. CASE /\ s.active = 0 /\ s.deferred # <<>>
           /\ Head(s.deferred).kind = "tool" /\ Ready(s.tools[Head(s.deferred).tool])
    <2>. DEFINE d == s.deferred
                i == Head(d).tool
                q == Tail(d)
                r == [s EXCEPT !.deferred = q]
    <2>1. t = StartTool(r, i) BY <1>1 DEF StartFront
    <2>2. /\ IsSeq(d) /\ DOMAIN d = 1 .. Len(d) /\ Len(d) \in Nat
          /\ \A k \in DOMAIN d : /\ IsRec({"kind", "body", "tool"}, d[k])
                                 /\ d[k].kind = "tool" => d[k].tool \in DOMAIN s.tools
        BY SeqFacts DEF Good, Shape, DeferredShape
    <2>3. /\ IsSeq(q) /\ Len(q) = Len(d) - 1 /\ Head(d) = d[1] /\ Len(d) # 0
          /\ \A k \in 1 .. Len(d) - 1 : q[k] = d[k + 1]
        BY <1>1, <2>2, SeqFacts
    <2>4. i \in DOMAIN s.tools
        <3>1. 1 \in DOMAIN d BY <2>2, <2>3
        <3>. QED BY <1>1, <2>2, <2>3, <3>1
    <2>. HIDE DEF q, d
    <2>5. \A k \in DOMAIN q : /\ IsRec({"kind", "body", "tool"}, q[k])
                              /\ q[k].kind = "tool" => q[k].tool \in DOMAIN s.tools
        <3>1. DOMAIN q = 1 .. Len(q) BY <2>3, SeqFacts
        <3>2. \A k \in DOMAIN q : k + 1 \in DOMAIN d /\ q[k] = d[k + 1] BY <2>2, <2>3, <3>1
        <3>. QED BY <2>2, <3>2
    <2>6. r = [s EXCEPT !.deferred = q] OBVIOUS
    <2>. HIDE DEF r, i
    <2>7. Output(a, s, r) /\ Same(s, r, ChatFields \ {"deferred"})
        BY <2>3, <2>5, <2>6, DeferGood
    <2>8. r.tools = s.tools /\ (r.thinking <=> s.thinking) /\ r.ok = s.ok
        BY <2>7 DEF Same, ChatFields
    <2>9. Good(a, r) /\ Going(r) BY <2>7, GoingKept DEF Output
    <2>10. Output(a, r, t) /\ Calm(r, t) BY <2>1, <2>4, <2>8, <2>9, StartToolGood
    <2>11. Output(a, s, t) BY <2>7, <2>10, OutputAgain
    <2>. QED BY <2>8, <2>10, <2>11 DEF Calm
<1>2. CASE ~ (/\ s.active = 0 /\ s.deferred # <<>>
              /\ Head(s.deferred).kind = "tool" /\ Ready(s.tools[Head(s.deferred).tool]))
    <2>1. t = s BY <1>2 DEF StartFront
    <2>. QED BY <2>1 DEF Output, Calm, Keeps, Same
<1>. QED BY <1>1, <1>2

LEMMA CloseBlockOutput ==
    ASSUME NEW a, NEW s, NEW t, Good(a, s), t = CloseBlock(s)
    PROVE  /\ Output(a, s, t) /\ Calm(s, t) /\ ~t.open
           /\ Same(s, t, {"ok", "tools", "deferred", "thinking"})
<1>1. /\ Good(a, t) /\ Keeps(s, t) /\ ~t.open
      /\ Same(s, t, {"ok", "tools", "deferred", "thinking", "spent"})
    BY CloseBlockGood
<1>2. Same(s, t, {"ok", "tools", "deferred", "thinking"}) BY <1>1 DEF Same
<1>3. (t.ok <=> s.ok) /\ (t.thinking <=> s.thinking) /\ t.tools = s.tools BY <1>1 DEF Same
<1>. QED BY <1>1, <1>2, <1>3 DEF Output, Calm

LEMMA ScheduleOpaqueGood ==
    ASSUME NEW a, NEW s, NEW g, NEW t, Good(a, s), Going(s), s.ok, IsSeq(g),
           t = ScheduleOpaque(s, g)
    PROVE  Output(a, s, t) /\ Same(s, t, {"tools"})
<1>1. CASE g = <<>>
    <2>1. t = s BY <1>1 DEF ScheduleOpaque
    <2>. QED BY <2>1 DEF Output, Keeps, Same
<1>2. CASE g # <<>> /\ s.thinking
    <2>1. t = CloseThinkingWith(s, g) BY <1>2 DEF ScheduleOpaque
    <2>2. /\ Good(a, t) /\ Keeps(s, t) /\ (t.ok => s.ok)
          /\ Same(s, t, {"tools", "deferred", "active", "open"})
        BY <2>1, CloseThinkingGood
    <2>. QED BY <2>2 DEF Output, Same
<1>3. CASE g # <<>> /\ ~s.thinking
    <2>. DEFINE r == Reserve(s, 1 + Len(g))
                d == Deferred("opaque", g, 0)
                q == Append(r.deferred, d)
    <2>1. r = Reserve(s, 1 + Len(g)) /\ 1 + Len(g) \in Nat BY SeqFacts
    <2>2. t = IF ~r.ok THEN r ELSE IF Busy(r) THEN [r EXCEPT !.deferred = q]
              ELSE EmitOpaque(CloseBlock(r), g)
        BY <1>3 DEF ScheduleOpaque, Then
    <2>. HIDE DEF r
    <2>3. Output(a, s, r) /\ Calm(s, r) /\ Going(r) /\ Same(s, r, ChatFields \ {"ok", "spent"})
        BY ZenonT(60), <2>1, ReserveOutput
    <2>3a. r.tools = s.tools BY <2>3 DEF Same, ChatFields
    <2>4. Good(a, r) BY <2>3 DEF Output
    <2>5. CASE r.ok /\ Busy(r)
        <3>1. /\ IsSeq(r.deferred) /\ DOMAIN r.deferred = 1 .. Len(r.deferred) /\ Len(r.deferred) \in Nat
              /\ \A i \in DOMAIN r.deferred :
                    /\ IsRec({"kind", "body", "tool"}, r.deferred[i])
                    /\ r.deferred[i].kind = "tool" => r.deferred[i].tool \in DOMAIN r.tools
            BY <2>4, SeqFacts DEF Good, Shape, DeferredShape
        <3>2. IsRec({"kind", "body", "tool"}, d) /\ d.kind # "tool" BY DEF Deferred, IsRec
        <3>. HIDE DEF d
        <3>3. /\ IsSeq(q) /\ Len(q) = Len(r.deferred) + 1
              /\ \A i \in 1 .. Len(r.deferred) + 1 :
                    q[i] = IF i = Len(r.deferred) + 1 THEN d ELSE r.deferred[i]
            BY <3>1, SeqFacts
        <3>4. DOMAIN q = 1 .. Len(r.deferred) + 1 BY <3>3, SeqFacts
        <3>. HIDE DEF q
        <3>5. \A i \in DOMAIN q : /\ IsRec({"kind", "body", "tool"}, q[i])
                                  /\ q[i].kind = "tool" => q[i].tool \in DOMAIN r.tools
            <4>1. \A i \in DOMAIN q : i = Len(r.deferred) + 1 \/ i \in DOMAIN r.deferred
                BY <3>1, <3>4
            <4>. QED BY <3>1, <3>2, <3>3, <3>4, <4>1
        <3>6. t = [r EXCEPT !.deferred = q] BY <2>2, <2>5
        <3>7. Output(a, r, t) /\ Same(r, t, ChatFields \ {"deferred"})
            BY <2>3, <2>4, <3>3, <3>5, <3>6, DeferGood
        <3>8. t.tools = r.tools BY <3>7 DEF Same, ChatFields
        <3>9. Output(a, s, t) BY <2>3, <3>7, OutputAgain
        <3>. QED BY <2>3a, <3>8, <3>9 DEF Same
    <2>6. CASE r.ok /\ ~Busy(r)
        <3>. DEFINE c == CloseBlock(r)
        <3>1. c = CloseBlock(r) OBVIOUS
        <3>. HIDE DEF c
        <3>2. Output(a, r, c) /\ ~c.open /\ Same(r, c, {"ok", "tools", "deferred", "thinking"})
            BY <2>4, <3>1, CloseBlockOutput
        <3>3. ~c.thinking BY <1>3, <2>3, <3>2 DEF Calm, Same
        <3>4. Good(a, c) /\ Going(c) BY <2>3, <3>2, GoingKept DEF Output
        <3>5. t = EmitOpaque(c, g) BY <2>2, <2>6, <3>1
        <3>6. Output(a, c, t) /\ Same(c, t, {"deferred", "tools"})
            BY <3>2, <3>3, <3>4, <3>5, EmitOpaqueGood
        <3>7. Output(a, s, t) BY <2>3, <3>2, <3>6, OutputAgain
        <3>. QED BY <2>3a, <3>2, <3>6, <3>7 DEF Same
    <2>7. CASE ~r.ok BY <2>2, <2>3, <2>3a, <2>7 DEF Same
    <2>. QED BY <2>5, <2>6, <2>7
<1>. QED BY <1>1, <1>2, <1>3

LEMMA FlushOneGood ==
    ASSUME NEW a, NEW s, NEW d, NEW t, Good(a, s), Going(s), t = FlushOne(s, d),
           d.kind = "tool" => d.tool \in DOMAIN s.tools, ~s.thinking
    PROVE  Output(a, s, t) /\ Calm(s, t) /\ Same(s, t, {"deferred"})
<1>1. CASE ~s.ok
    <2>1. t = s BY <1>1 DEF FlushOne, Then
    <2>. QED BY <2>1 DEF Output, Calm, Keeps, Same
<1>2. CASE s.ok /\ d.kind \in {"tool", "opaque"}
    <2>. DEFINE c == CloseBlock(s)
    <2>1. c = CloseBlock(s) OBVIOUS
    <2>. HIDE DEF c
    <2>2. /\ Output(a, s, c) /\ Calm(s, c) /\ ~c.open
          /\ Same(s, c, {"ok", "tools", "deferred", "thinking"})
        BY <2>1, CloseBlockOutput
    <2>3. Good(a, c) /\ Going(c) /\ c.ok /\ c.tools = s.tools /\ c.deferred = s.deferred /\ ~c.thinking
        BY <1>2, <2>2, GoingKept DEF Output, Same
    <2>4. CASE d.kind = "tool"
        <3>. DEFINE u == StartTool(c, d.tool)
        <3>1. t = IF u.ok THEN CloseBlock(u) ELSE u BY <1>2, <2>1, <2>4 DEF FlushOne, Then
        <3>2. u = StartTool(c, d.tool) OBVIOUS
        <3>. HIDE DEF u
        <3>3. Output(a, c, u) /\ Calm(c, u) /\ Same(c, u, {"deferred"}) BY <2>3, <2>4, <3>2, StartToolGood
        <3>4. Output(a, u, t) /\ Calm(u, t) /\ Same(u, t, {"deferred"})
            <4>1. CASE u.ok
                <5>1. Good(a, u) /\ t = CloseBlock(u) BY <3>1, <3>3, <4>1 DEF Output
                <5>2. Output(a, u, t) /\ Calm(u, t) /\ Same(u, t, {"ok", "tools", "deferred", "thinking"})
                    BY <5>1, CloseBlockOutput
                <5>. QED BY <5>2 DEF Same
            <4>2. CASE ~u.ok
                <5>1. t = u BY <3>1, <4>2
                <5>. QED BY <3>3, <5>1 DEF Output, Calm, Keeps, Same
            <4>. QED BY <4>1, <4>2
        <3>5. Output(a, s, t) BY <2>2, <3>3, <3>4, OutputAgain
        <3>. QED BY <2>2, <2>3, <3>3, <3>4, <3>5 DEF Calm, Same
    <2>5. CASE d.kind = "opaque"
        <3>1. t = EmitOpaque(c, d.body) BY <1>2, <2>1, <2>5 DEF FlushOne, Then
        <3>2. Output(a, c, t) /\ Calm(c, t) /\ Same(c, t, {"deferred", "tools"})
            BY <2>2, <2>3, <3>1, EmitOpaqueGood
        <3>3. Output(a, s, t) BY <2>2, <3>2, OutputAgain
        <3>. QED BY <2>2, <2>3, <3>2, <3>3 DEF Calm, Same
    <2>. QED BY <1>2, <2>4, <2>5
<1>3. CASE s.ok /\ d.kind \notin {"tool", "opaque"}
    <2>. DEFINE from == d.kind = "content"
                paid == TRUE
    <2>1. t = EmitText(s, d.body, from, paid) BY <1>3 DEF FlushOne, Then
    <2>2. paid \/ IsSeq(d.body) OBVIOUS
    <2>. HIDE DEF from, paid
    <2>3. Output(a, s, t) /\ Calm(s, t) /\ Same(s, t, {"deferred", "tools"})
        BY <1>3, <2>1, <2>2, EmitTextGood
    <2>. QED BY <2>3 DEF Same
<1>. QED BY <1>1, <1>2, <1>3

LEMMA InductTo ==
    ASSUME NEW n \in Nat, NEW T, 0 \in T, \A k \in 1 .. n : k - 1 \in T => k \in T
    PROVE  n \in T /\ \A k \in 0 .. n : k \in T
<1>. DEFINE Missing == {k \in 0 .. n : k \notin T}
<1>. SUFFICES ASSUME Missing # {} PROVE FALSE OBVIOUS
<1>0. Missing \subseteq Nat OBVIOUS
<1>1. PICK k \in Missing : k \in Nat /\ \A m \in Missing : k <= m
    <2>. HIDE DEF Missing
    <2>. QED BY <1>0, LeastNumber
<1>2. k \in 1 .. n /\ k \notin T
    <2>1. k \in 0 .. n /\ k \notin T BY DEF Missing
    <2>. QED BY <2>1
<1>3. k - 1 \in 0 .. n /\ ~ (k <= k - 1) BY <1>2
<1>4. k - 1 \in T BY <1>1, <1>3
<1>. QED BY <1>2, <1>4

LEMMA FlushedCourse ==
    ASSUME NEW s, NEW ds, ds = s.deferred, Len(ds) \in Nat
    PROVE  \E f : /\ f[0] = s
                  /\ \A k \in 1 .. Len(ds) : f[k] = FlushOne(f[k - 1], ds[k])
                  /\ FlushDeferred(s) = [f[Len(ds)] EXCEPT !.deferred = <<>>]
<1>. DEFINE n == Len(ds)
            C(g, j) == g = [k \in 0 .. j |-> IF k = 0 THEN s ELSE FlushOne(g[k - 1], ds[k])]
            T == {j \in 0 .. n : \E g : C(g, j)}
<1>1. C([k \in 0 .. 0 |-> s], 0) OBVIOUS
<1>2. 0 \in T
    <2>. HIDE DEF C
    <2>. QED BY <1>1
<1>3. ASSUME NEW j \in 1 .. n, j - 1 \in T PROVE j \in T
    <2>1. PICK g : C(g, j - 1) BY <1>3
    <2>2. C([k \in 0 .. j |-> IF k = j THEN FlushOne(g[j - 1], ds[j]) ELSE g[k]], j) BY <2>1
    <2>. HIDE DEF C
    <2>. QED BY <2>2
<1>4. n \in T
    <2>. HIDE DEF T, n
    <2>1. n \in Nat BY DEF n
    <2>. QED BY <1>2, <1>3, <2>1, InductTo
<1>. DEFINE f == CHOOSE g : C(g, n)
<1>5. C(f, n) BY <1>4
<1>6. FlushDeferred(s) = [f[n] EXCEPT !.deferred = <<>>] BY DEF FlushDeferred
<1>. HIDE DEF f
<1>7. f[0] = s /\ \A k \in 1 .. n : f[k] = FlushOne(f[k - 1], ds[k]) BY SMTT(20), <1>5
<1>. QED BY <1>6, <1>7

LEMMA FlushDeferredGood ==
    ASSUME NEW a, NEW s, NEW t, Good(a, s), Going(s), s.ok, ~s.thinking, t = FlushDeferred(s)
    PROVE  Output(a, s, t) /\ Calm(s, t) /\ t.deferred = <<>>
<1>. DEFINE ds == s.deferred  n == Len(ds)
<1>1. /\ n \in Nat /\ DOMAIN ds = 1 .. n
      /\ \A k \in 1 .. n : ds[k].kind = "tool" => ds[k].tool \in DOMAIN s.tools
    BY SeqFacts DEF Good, Shape, DeferredShape
<1>2. PICK f : /\ f[0] = s
               /\ \A k \in 1 .. n : f[k] = FlushOne(f[k - 1], ds[k])
               /\ t = [f[n] EXCEPT !.deferred = <<>>]
    BY <1>1, FlushedCourse
<1>. DEFINE T == {k \in 0 .. n : Output(a, s, f[k]) /\ Calm(s, f[k])}
<1>3. 0 \in T BY <1>1, <1>2 DEF Output, Calm, Keeps, Same
<1>4. ASSUME NEW k \in 1 .. n, k - 1 \in T PROVE k \in T
    <2>. DEFINE u == f[k - 1]  v == f[k]  d == ds[k]
    <2>1. Output(a, s, u) /\ Calm(s, u) BY <1>4
    <2>2. v = FlushOne(u, d) BY <1>2
    <2>3. d.kind = "tool" => d.tool \in DOMAIN s.tools BY <1>1
    <2>. HIDE DEF u, v, d
    <2>4. Good(a, u) /\ Going(u) /\ ~u.thinking /\ DOMAIN u.tools = DOMAIN s.tools
        BY <2>1, GoingKept DEF Output, Calm
    <2>5. Output(a, u, v) /\ Calm(u, v) BY <2>2, <2>3, <2>4, FlushOneGood
    <2>6. Output(a, s, v) BY <2>1, <2>5, OutputAgain
    <2>. QED BY <2>1, <2>5, <2>6 DEF Calm, v
<1>5. n \in T
    <2>. HIDE DEF T, n
    <2>. QED BY <1>1, <1>3, <1>4, InductTo
<1>. DEFINE u == f[n]
<1>6. Output(a, s, u) /\ Calm(s, u) /\ t = [u EXCEPT !.deferred = <<>>] BY <1>2, <1>5
<1>. HIDE DEF u
<1>7. Good(a, u) /\ Going(u) BY <1>6, GoingKept DEF Output
<1>. DEFINE e == <<>>
<1>8. IsSeq(e) /\ DOMAIN e = {} BY ShortSeqs
<1>9. t = [u EXCEPT !.deferred = e] BY <1>6
<1>9a. \A i \in DOMAIN e : /\ IsRec({"kind", "body", "tool"}, e[i])
                           /\ e[i].kind = "tool" => e[i].tool \in DOMAIN u.tools
    BY <1>8
<1>. HIDE DEF e
<1>10. Output(a, u, t) /\ Same(u, t, ChatFields \ {"deferred"})
    BY <1>7, <1>8, <1>9, <1>9a, DeferGood
<1>10a. t.deferred = e
    <2>1. IsRec(ChatFields, u) BY <1>7 DEF Good, Shape
    <2>. QED BY <1>9, <2>1 DEF IsRec, ChatFields
<1>11. (t.thinking <=> u.thinking) /\ t.tools = u.tools BY <1>10 DEF Same, ChatFields
<1>12. Output(a, s, t) BY <1>6, <1>10, OutputAgain
<1>. QED BY <1>6, <1>10, <1>10a, <1>11, <1>12 DEF Calm, e

LEMMA SetFacts ==
    ASSUME NEW q, NEW i, NEW x, NEW r, IsSeq(q), i \in DOMAIN q, r = [q EXCEPT ![i] = x]
    PROVE  /\ IsSeq(r) /\ DOMAIN r = DOMAIN q /\ r[i] = x
           /\ \A j \in DOMAIN q : j # i => r[j] = q[j]
<1>1. PICK S : q \in Seq(S) BY DEF IsSeq
<1>2. q \in Seq(S \union {x}) /\ x \in S \union {x} /\ i \in 1 .. Len(q) BY <1>1
<1>3. r \in Seq(S \union {x}) BY <1>2, ExceptSeq
<1>. QED BY <1>3 DEF IsSeq

LEMMA ToolsGood ==
    ASSUME NEW a, NEW s, NEW q, NEW t, Good(a, s), Going(s), t = [s EXCEPT !.tools = q],
           IsSeq(q), DOMAIN s.tools \subseteq DOMAIN q,
           \A i \in DOMAIN q : IsTool(q[i]),
           \A i \in DOMAIN s.tools : q[i].block = s.tools[i].block,
           \A i \in DOMAIN q \ DOMAIN s.tools : q[i].block = -1
    PROVE  Output(a, s, t) /\ Same(s, t, ChatFields \ {"tools"})
<1>0. Shape(s) /\ IsRec(ChatFields, s) /\ s.index \in Nat BY DEF Good, Shape, NumberShape
<1>1. IsRec(ChatFields, t) /\ t.tools = q /\ Same(s, t, ChatFields \ {"tools"})
    BY <1>0 DEF IsRec, ChatFields, Same
<1>2. /\ Keeps(s, t) /\ t.index = s.index /\ Same(s, t, {"ok", "spent"})
      /\ t.deferred = s.deferred /\ t.out = s.out /\ t.active = s.active
    BY <1>1 DEF Keeps, Same, Kept, ChatFields
<1>3. (t.open <=> s.open) /\ (t.thinking <=> s.thinking) BY <1>1 DEF Same, ChatFields
<1>4. t.index \in Nat /\ ~ (t.open /\ t.thinking)
    BY <1>0, <1>2, <1>3 DEF Shape, PhaseShape, NumberShape
<1>5. ToolsShape(t)
    <2>. SUFFICES ASSUME NEW i \in DOMAIN q
                  PROVE  q[i].block < s.index \/ (s.open /\ q[i].block = s.index)
        BY <1>1, <1>2, <1>3 DEF ToolsShape
    <2>1. CASE i \in DOMAIN s.tools BY <1>0, <2>1 DEF Shape, ToolsShape
    <2>2. CASE i \notin DOMAIN s.tools BY <1>0, <2>2
    <2>. QED BY <2>1, <2>2
<1>6. DeferredShape(t) BY <1>0, <1>1, <1>2 DEF Shape, DeferredShape
<1>7. ActiveShape(t) BY <1>0, <1>1, <1>2, <1>3 DEF Shape, ActiveShape
<1>8. ToolOpen(t) <=> ToolOpen(s)
    <2>1. \A i \in DOMAIN q : q[i].block = s.index => i \in DOMAIN s.tools BY <1>0
    <2>. QED BY <1>1, <1>2, <1>3, <2>1 DEF ToolOpen
<1>9. ChatStage(t) = ChatStage(s)
    <2>1. (t.stopped <=> s.stopped) /\ (t.terminal <=> s.terminal) /\ (t.begun <=> s.begun)
        BY <1>1 DEF Same, ChatFields
    <2>2. t.pendingUsage = s.pendingUsage BY <1>1 DEF Same, ChatFields
    <2>. QED BY <1>2, <1>3, <1>8, <2>1, <2>2 DEF ChatStage
<1>10. Path("chat", ChatStage(s), <<>>, ChatStage(t)) BY <1>9, PathEmpty
<1>11. Path("chat", a, t.out, ChatStage(t)) BY <1>2, <1>9 DEF Good
<1>12. /\ t.begun = s.begun /\ t.terminal = s.terminal /\ t.pending = s.pending
       /\ t.stopped = s.stopped /\ t.spent = s.spent /\ t.ok = s.ok /\ t.usage = s.usage
       /\ t.pendingUsage = s.pendingUsage /\ t.content = s.content /\ t.refusal = s.refusal
    BY <1>1 DEF Same, ChatFields
<1>13. PhaseShape(t) BY <1>0, <1>3, <1>12 DEF PhaseShape, Going, Live, Shape
<1>14. NumberShape(t) BY <1>0, <1>2, <1>12 DEF NumberShape, Shape
<1>. QED BY <1>1, <1>2, <1>5, <1>6, <1>7, <1>11, <1>12, <1>13, <1>14 DEF Shape, Good, Output

\* One call replaced by itself with another name, other arguments.
LEMMA OneToolGood ==
    ASSUME NEW a, NEW s, NEW i, NEW x, NEW t, Good(a, s), Going(s), i \in DOMAIN s.tools,
           IsTool(x), x.block = s.tools[i].block, t = [s EXCEPT !.tools = [s.tools EXCEPT ![i] = x]]
    PROVE  Output(a, s, t) /\ Same(s, t, ChatFields \ {"tools"}) /\ DOMAIN t.tools = DOMAIN s.tools
<1>. DEFINE q == [s.tools EXCEPT ![i] = x]
<1>1. Shape(s) /\ IsRec(ChatFields, s) /\ IsSeq(s.tools) /\ \A j \in DOMAIN s.tools : IsTool(s.tools[j])
    BY DEF Good, Shape, ToolsShape
<1>2. q = [s.tools EXCEPT ![i] = x] /\ t = [s EXCEPT !.tools = q] OBVIOUS
<1>. HIDE DEF q
<1>3. IsSeq(q) /\ DOMAIN q = DOMAIN s.tools /\ q[i] = x /\ \A j \in DOMAIN s.tools : j # i => q[j] = s.tools[j]
    BY <1>1, <1>2, SetFacts
<1>4. /\ \A j \in DOMAIN q : IsTool(q[j])
      /\ \A j \in DOMAIN s.tools : q[j].block = s.tools[j].block
      /\ \A j \in DOMAIN q \ DOMAIN s.tools : q[j].block = -1
    BY <1>1, <1>3
<1>5. Output(a, s, t) /\ Same(s, t, ChatFields \ {"tools"}) BY <1>2, <1>3, <1>4, ToolsGood
<1>6. t.tools = q BY <1>1, <1>2 DEF IsRec, ChatFields
<1>. QED BY <1>3, <1>5, <1>6

LEMMA MergeTool ==
    ASSUME NEW tool, NEW d, IsTool(tool)
    PROVE  IsTool(Merge(tool, d)) /\ Merge(tool, d).block = tool.block
BY DEF Merge, IsTool, IsRec, ToolFields

LEMMA ToolArgumentsGood ==
    ASSUME NEW a, NEW s, NEW d, NEW t, Good(a, s), Going(s), s.ok, d.index \in DOMAIN s.tools,
           t = ToolArguments(s, d)
    PROVE  Output(a, s, t) /\ Same(s, t, {"ok"}) /\ DOMAIN t.tools = DOMAIN s.tools
<1>1. CASE d.args = <<>>
    <2>1. t = s BY <1>1 DEF ToolArguments
    <2>. QED BY <2>1 DEF Output, Keeps, Same
<1>2. CASE d.args # <<>>
    <2>. DEFINE i == d.index
                x == [s.tools[i] EXCEPT !.args = @ \o d.args]
                u == [s EXCEPT !.tools = [s.tools EXCEPT ![i] = x]]
    <2>1. t = IF u.active = i
              THEN Emit(u, <<BlockDelta(u.tools[i].block, "input_json", d.args)>>)
              ELSE [u EXCEPT !.tools[i].buffered = Append(@, d.args)]
        BY <1>2 DEF ToolArguments
    <2>2. IsTool(s.tools[i]) BY DEF Good, Shape, ToolsShape
    <2>3. IsTool(x) /\ x.block = s.tools[i].block BY <2>2 DEF IsTool, IsRec, ToolFields
    <2>4. u = [s EXCEPT !.tools = [s.tools EXCEPT ![i] = x]] OBVIOUS
    <2>4a. i \in DOMAIN s.tools OBVIOUS
    <2>. HIDE DEF x, u, i
    <2>5. Output(a, s, u) /\ Same(s, u, ChatFields \ {"tools"}) /\ DOMAIN u.tools = DOMAIN s.tools
        BY <2>3, <2>4, <2>4a, OneToolGood
    <2>. USE DEF i
    <2>6. Good(a, u) /\ Going(u) /\ u.ok
        BY <2>5, GoingKept DEF Output, Same, ChatFields
    <2>7. /\ Shape(u) /\ IsRec(ChatFields, u) /\ u.index \in Nat /\ Live(u)
          /\ IsTool(u.tools[i]) /\ ~ (u.open /\ u.thinking)
        BY <2>5, <2>6 DEF Good, Shape, NumberShape, PhaseShape, ToolsShape, Going
    <2>8. CASE u.active = i
        <3>. DEFINE delta == BlockDelta(u.tools[i].block, "input_json", d.args)
                    q == <<delta>>
        <3>1. t = Emit(u, q) BY <2>1, <2>8
        <3>2. u.active # 0
            <4>1. IsSeq(s.tools) /\ i \in DOMAIN s.tools BY DEF Good, Shape, ToolsShape
            <4>. QED BY <2>8, <4>1, SeqFacts
        <3>3. u.open /\ u.tools[i].block = u.index /\ ToolOpen(u)
            BY <2>7, <2>8, <3>2 DEF Shape, ActiveShape, ToolOpen
        <3>4. ChatStage(u) = Stage("message", <<u.index, "tool_use">>, u.index + 1, <<>>)
            BY <2>7, <3>3, LiveStage
        <3>5. Allowed("chat", ChatStage(u), delta, ChatStage(u))
            <4>1. "input_json" \in Promised!Deltas["tool_use"] BY DEF Promised!Deltas
            <4>2. ChatStage(u).phase = "message" /\ ChatStage(u).open = <<u.index, "tool_use">>
                BY <3>4, StageFields
            <4>. QED BY <3>3, <4>1, <4>2, AllowedSteps
        <3>. HIDE DEF delta
        <3>6. IsRec(ChatFields, t) /\ Differ(ChatFields, u, t, {"out"}) /\ t.out = u.out \o q
            BY <2>7, <3>1, EmitChat
        <3>7. Shape(t) /\ ChatStage(t) = ChatStage(u)
            BY <2>7, <3>6, SameShape
        <3>8. Path("chat", a, t.out, ChatStage(t)) BY <2>6, <3>5, <3>6, <3>7, PathAnd DEF Good
        <3>9. Keeps(u, t) /\ Same(u, t, {"ok", "tools"})
            BY <3>6 DEF Differ, Keeps, Same, Kept, ChatFields
        <3>10. Output(a, u, t) BY <3>7, <3>8, <3>9 DEF Good, Output, Same
        <3>11. Output(a, s, t) BY <2>5, <3>10, OutputAgain
        <3>12. t.ok = u.ok /\ t.tools = u.tools /\ u.ok = s.ok BY <2>5, <3>9 DEF Same, ChatFields
        <3>. QED BY <2>5, <3>11, <3>12 DEF Same
    <2>9. CASE u.active # i
        <3>. DEFINE y == [u.tools[i] EXCEPT !.buffered = Append(@, d.args)]
        <3>1. t = [u EXCEPT !.tools = [u.tools EXCEPT ![i] = y]] BY <2>1, <2>9
        <3>2. IsSeq(u.tools[i].buffered) BY <2>7 DEF IsTool
        <3>3. IsSeq(Append(u.tools[i].buffered, d.args)) BY <3>2, SeqFacts
        <3>4. IsTool(y) /\ y.block = u.tools[i].block
            BY <2>7, <3>3 DEF IsTool, IsRec, ToolFields
        <3>. HIDE DEF y
        <3>5. Output(a, u, t) /\ Same(u, t, ChatFields \ {"tools"}) /\ DOMAIN t.tools = DOMAIN u.tools
            BY SMTT(20), <2>5, <2>6, <3>1, <3>4, OneToolGood
        <3>6. Output(a, s, t) BY <2>5, <3>5, OutputAgain
        <3>7. t.ok = u.ok /\ u.ok = s.ok BY <2>5, <3>5 DEF Same, ChatFields
        <3>. QED BY <2>5, <3>5, <3>6, <3>7 DEF Same
    <2>. QED BY <2>8, <2>9
<1>. QED BY <1>1, <1>2

\* An output more that waits.
LEMMA DeferMore ==
    ASSUME NEW a, NEW s, NEW x, NEW t, Good(a, s), Going(s),
           IsRec({"kind", "body", "tool"}, x), x.kind = "tool" => x.tool \in DOMAIN s.tools,
           t = [s EXCEPT !.deferred = Append(@, x)]
    PROVE  Output(a, s, t) /\ Same(s, t, ChatFields \ {"deferred"})
<1>. DEFINE d == s.deferred  q == Append(d, x)
<1>1. IsSeq(d) /\ \A i \in DOMAIN d : /\ IsRec({"kind", "body", "tool"}, d[i])
                                      /\ d[i].kind = "tool" => d[i].tool \in DOMAIN s.tools
    BY DEF Good, Shape, DeferredShape
<1>2. q = Append(d, x) /\ t = [s EXCEPT !.deferred = q] OBVIOUS
<1>. HIDE DEF d, q
<1>3. /\ IsSeq(q) /\ Len(q) = Len(d) + 1 /\ Len(d) \in Nat /\ DOMAIN d = 1 .. Len(d)
      /\ \A i \in 1 .. Len(d) + 1 : q[i] = IF i = Len(d) + 1 THEN x ELSE d[i]
    BY <1>1, <1>2, SeqFacts
<1>4. DOMAIN q = 1 .. Len(d) + 1 BY <1>3, SeqFacts
<1>5. \A i \in DOMAIN q : i = Len(d) + 1 \/ i \in DOMAIN d BY <1>3, <1>4
<1>6. \A i \in DOMAIN q : /\ IsRec({"kind", "body", "tool"}, q[i])
                          /\ q[i].kind = "tool" => q[i].tool \in DOMAIN s.tools
    BY <1>1, <1>3, <1>4, <1>5
<1>. QED BY <1>2, <1>3, <1>6, DeferGood

LEMMA ToolPlaceGood ==
    ASSUME NEW a, NEW s, NEW d, NEW t, Good(a, s), Going(s), s.ok, d.index \in DOMAIN s.tools,
           t = ToolPlace(s, d)
    PROVE  Output(a, s, t) /\ DOMAIN t.tools = DOMAIN s.tools
<1>. DEFINE new == Merge(NewTool, d)
<1>1. CASE new.id # Absent /\ new.name # Absent /\ ~Busy(s)
    <2>1. t = StartTool(s, d.index) BY <1>1 DEF ToolPlace
    <2>. QED BY <2>1, StartToolGood DEF Calm
<1>2. CASE ~ (new.id # Absent /\ new.name # Absent /\ ~Busy(s))
    <2>. DEFINE x == Deferred("tool", <<>>, d.index)
    <2>1. t = [s EXCEPT !.deferred = Append(@, x)] BY <1>2 DEF ToolPlace
    <2>2. IsRec({"kind", "body", "tool"}, x) /\ x.kind = "tool" /\ x.tool = d.index
        BY DEF Deferred, IsRec
    <2>. HIDE DEF x
    <2>3. Output(a, s, t) /\ Same(s, t, ChatFields \ {"deferred"}) BY <2>1, <2>2, DeferMore
    <2>4. t.tools = s.tools BY <2>3 DEF Same, ChatFields
    <2>. QED BY <2>3, <2>4
<1>. QED BY <1>1, <1>2

LEMMA MergeGood ==
    ASSUME NEW a, NEW s, NEW d, NEW t, Good(a, s), Going(s), d.index \in DOMAIN s.tools,
           t = [s EXCEPT !.tools[d.index] = Merge(@, d)]
    PROVE  Output(a, s, t) /\ Same(s, t, ChatFields \ {"tools"}) /\ DOMAIN t.tools = DOMAIN s.tools
<1>. DEFINE x == Merge(s.tools[d.index], d)
<1>1. t = [s EXCEPT !.tools = [s.tools EXCEPT ![d.index] = x]] OBVIOUS
<1>2. IsTool(s.tools[d.index]) BY DEF Good, Shape, ToolsShape
<1>3. IsTool(x) /\ x.block = s.tools[d.index].block BY <1>2, MergeTool
<1>. HIDE DEF x
<1>. QED BY <1>1, <1>3, OneToolGood

LEMMA HandleToolGood ==
    ASSUME NEW a, NEW s, NEW d, NEW t, Good(a, s), Going(s), IsSeq(d.args),
           d.index \in Nat \ {0}, First(s, d) => d.index = Len(s.tools) + 1,
           t = HandleTool(s, d)
    PROVE  /\ Output(a, s, t)
           /\ t.ok => Len(t.tools) = IF First(s, d) THEN Len(s.tools) + 1 ELSE Len(s.tools)
<1>. DEFINE i == d.index
            n == IF First(s, d) THEN Len(s.tools) + 1 ELSE Len(s.tools)
            size == ToolBytes(Current(s, d), d)
            r == Reserve(s, size)
            merged(u) == IF First(s, d) THEN [u EXCEPT !.tools = Append(@, Merge(NewTool, d))]
                         ELSE [u EXCEPT !.tools[d.index] = Merge(@, d)]
            placed(u) == IF First(s, d) THEN ToolPlace(u, d) ELSE StartFront(u)
            m == IF r.ok THEN merged(r) ELSE r
            p == IF m.ok THEN placed(m) ELSE m
<1>1. CASE ~s.ok
    <2>1. t = s BY <1>1 DEF HandleTool, Then
    <2>. QED BY <1>1, <2>1 DEF Output, Keeps, Same
<1>2. CASE s.ok
    <2>1. t = IF p.ok THEN StartFront(ToolArguments(p, d)) ELSE p BY <1>2 DEF HandleTool, Then
    <2>2. /\ IsSeq(s.tools) /\ DOMAIN s.tools = 1 .. Len(s.tools) /\ Len(s.tools) \in Nat
          /\ n \in Nat /\ i \in 1 .. n
        BY SeqFacts DEF Good, Shape, ToolsShape, First
    <2>3. size \in Nat
        <3>. DEFINE tool == Current(s, d)
                    k == IF tool.id = Absent /\ d.id # Absent THEN 1 ELSE 0
                    l == IF tool.name = Absent /\ d.name # Absent THEN 1 ELSE 0
                    e == IF d.ext /\ ~tool.ext THEN 1 ELSE 0
        <3>1. Len(d.args) \in Nat BY SeqFacts
        <3>2. k \in Nat /\ l \in Nat /\ e \in Nat OBVIOUS
        <3>3. size = Len(d.args) + k + l + e BY DEF ToolBytes
        <3>. HIDE DEF k, l, e, size
        <3>. QED BY <3>1, <3>2, <3>3
    <2>4. r = Reserve(s, size) OBVIOUS
    <2>. HIDE DEF size, r
    <2>5. Output(a, s, r) /\ Going(r) /\ Same(s, r, ChatFields \ {"ok", "spent"})
        BY <2>3, <2>4, ReserveOutput
    <2>6. Good(a, r) /\ r.tools = s.tools BY <2>5 DEF Output, Same, ChatFields
    <2>7. CASE ~r.ok
        <3>1. t = r BY <2>1, <2>7
        <3>. QED BY <2>5, <2>7, <3>1
    <2>8. CASE r.ok
        <3>0. m = merged(r) BY <2>8
        <3>. HIDE DEF m
        <3>1. Output(a, r, m) /\ (m.ok <=> r.ok) /\ DOMAIN m.tools = 1 .. n
            <4>1. CASE First(s, d)
                <5>. DEFINE x == Merge(NewTool, d)
                            q == Append(r.tools, x)
                <5>1. m = [r EXCEPT !.tools = q] BY <3>0, <4>1
                <5>2. IsTool(NewTool) /\ NewTool.block = -1
                    BY ShortSeqs DEF NewTool, IsTool, IsRec, ToolFields
                <5>3. IsTool(x) /\ x.block = -1 BY <5>2, MergeTool
                <5>. HIDE DEF x
                <5>4. q = Append(r.tools, x) OBVIOUS
                <5>. HIDE DEF q
                <5>5. /\ IsSeq(q) /\ Len(q) = Len(s.tools) + 1
                      /\ \A k \in 1 .. Len(s.tools) + 1 : q[k] = IF k = Len(s.tools) + 1 THEN x ELSE s.tools[k]
                    BY <2>2, <2>6, <5>4, SeqFacts
                <5>6. DOMAIN q = 1 .. Len(s.tools) + 1 BY <5>5, SeqFacts
                <5>7. \A k \in DOMAIN s.tools : IsTool(s.tools[k]) /\ k # Len(s.tools) + 1
                    BY <2>2 DEF Good, Shape, ToolsShape
                <5>8. \A k \in DOMAIN q : k \in DOMAIN s.tools \/ k = Len(s.tools) + 1 BY <2>2, <5>6
                <5>9. /\ DOMAIN r.tools \subseteq DOMAIN q
                      /\ \A k \in DOMAIN q : IsTool(q[k])
                      /\ \A k \in DOMAIN r.tools : q[k].block = r.tools[k].block
                      /\ \A k \in DOMAIN q \ DOMAIN r.tools : q[k].block = -1
                    <6>0. r.tools = s.tools BY <2>6
                    <6>1. \A k \in DOMAIN s.tools : k \in DOMAIN q /\ q[k] = s.tools[k]
                        BY <2>2, <5>5, <5>6, <5>7
                    <6>2. \A k \in DOMAIN q \ DOMAIN s.tools : k = Len(s.tools) + 1 /\ q[k] = x
                        BY <5>5, <5>6, <5>8
                    <6>. QED BY <5>3, <5>7, <6>0, <6>1, <6>2
                <5>10. Output(a, r, m) /\ Same(r, m, ChatFields \ {"tools"})
                    BY <2>5, <2>6, <5>1, <5>5, <5>9, ToolsGood
                <5>11. m.tools = q /\ (m.ok <=> r.ok)
                    <6>1. IsRec(ChatFields, r) BY <2>6 DEF Good, Shape
                    <6>. QED BY <5>1, <6>1 DEF IsRec, ChatFields
                <5>. QED BY <4>1, <5>6, <5>10, <5>11
            <4>2. CASE ~First(s, d)
                <5>1. m = [r EXCEPT !.tools[d.index] = Merge(@, d)] BY <3>0, <4>2
                <5>2. d.index \in DOMAIN r.tools BY <2>2, <2>6, <4>2
                <5>4. Output(a, r, m) /\ Same(r, m, ChatFields \ {"tools"}) /\ DOMAIN m.tools = DOMAIN r.tools
                    BY ZenonT(60), <2>5, <2>6, <5>1, <5>2, MergeGood
                <5>5. m.ok <=> r.ok BY <5>4 DEF Same, ChatFields
                <5>. QED BY <2>2, <2>6, <4>2, <5>4, <5>5
            <4>. QED BY <4>1, <4>2
        <3>2. m.ok /\ Good(a, m) /\ Going(m) /\ i \in DOMAIN m.tools
            BY <2>2, <2>5, <2>8, <3>1, GoingKept DEF Output
        <3>3. p = placed(m) BY <3>2
        <3>. HIDE DEF p
        <3>4. Output(a, m, p) /\ DOMAIN p.tools = 1 .. n
            <4>1. CASE First(s, d)
                <5>1. p = ToolPlace(m, d) BY <3>3, <4>1
                <5>. QED BY <3>1, <3>2, <5>1, ToolPlaceGood
            <4>2. CASE ~First(s, d)
                <5>1. p = StartFront(m) BY <3>3, <4>2
                <5>2. Output(a, m, p) /\ Calm(m, p) BY <3>2, <5>1, StartFrontGood
                <5>. QED BY <3>1, <5>2 DEF Calm
            <4>. QED BY <4>1, <4>2
        <3>5. Output(a, s, p) BY <2>5, <3>1, <3>4, OutputAgain
        <3>6. CASE ~p.ok
            <4>1. t = p BY <2>1, <3>6
            <4>. QED BY <3>5, <3>6, <4>1
        <3>7. CASE p.ok
            <4>. DEFINE v == ToolArguments(p, d)
            <4>1. t = StartFront(v) /\ v = ToolArguments(p, d) BY <2>1, <3>7
            <4>2. Good(a, p) /\ Going(p) /\ i \in DOMAIN p.tools
                BY <2>2, <3>2, <3>4, GoingKept DEF Output
            <4>. HIDE DEF v
            <4>3. Output(a, p, v) /\ Same(p, v, {"ok"}) /\ DOMAIN v.tools = DOMAIN p.tools
                BY <3>7, <4>1, <4>2, ToolArgumentsGood
            <4>4. Good(a, v) /\ Going(v) /\ v.ok
                BY <3>7, <4>2, <4>3, GoingKept DEF Output, Same
            <4>5. Output(a, v, t) /\ Calm(v, t) BY <4>1, <4>4, StartFrontGood
            <4>6. Output(a, s, t) BY <3>5, <4>3, <4>5, OutputAgain
            <4>7. IsSeq(t.tools) /\ DOMAIN t.tools = 1 .. n
                BY <3>4, <4>3, <4>5 DEF Calm, Output, Good, Shape, ToolsShape
            <4>8. Len(t.tools) = n
                <5>1. DOMAIN t.tools = 1 .. Len(t.tools) /\ Len(t.tools) \in Nat BY <4>7, SeqFacts
                <5>2. \A x, y \in Nat : 1 .. x = 1 .. y => x = y
                    <6>. SUFFICES ASSUME NEW x \in Nat, NEW y \in Nat, 1 .. x = 1 .. y PROVE x = y OBVIOUS
                    <6>1. x > 0 => x \in 1 .. y OBVIOUS
                    <6>2. y > 0 => y \in 1 .. x OBVIOUS
                    <6>. QED BY <6>1, <6>2
                <5>. QED BY <2>2, <4>7, <5>1, <5>2
            <4>. QED BY <4>6, <4>8
        <3>. QED BY <3>6, <3>7
    <2>. QED BY <2>7, <2>8
<1>. QED BY <1>1, <1>2

LEMMA KnownFacts ==
    ASSUME NEW s, NEW ds, Len(s.tools) \in Nat, NEW n \in Nat
    PROVE  /\ KnownWith(s, ds, 0) = Len(s.tools)
           /\ KnownWith(s, ds, n) \in Nat /\ Len(s.tools) <= KnownWith(s, ds, n)
           /\ First(s, ds[n + 1]) => KnownWith(s, ds, n + 1) = KnownWith(s, ds, n) + 1
           /\ ~First(s, ds[n + 1]) => KnownWith(s, ds, n + 1) = KnownWith(s, ds, n)
<1>. DEFINE New(k) == {j \in 1 .. k : First(s, ds[j])}
<1>1. \A k \in Nat : IsFiniteSet(New(k)) /\ Cardinality(New(k)) \in Nat
    <2>1. \A k \in Nat : IsFiniteSet(1 .. k) BY FS_Interval
    <2>. QED BY <2>1, FS_Subset, FS_CardinalityType
<1>2. New(0) = {} /\ Cardinality(New(0)) = 0
    <2>1. New(0) = {} OBVIOUS
    <2>. QED BY <2>1, FS_EmptySet
<1>3. Cardinality(New(n + 1)) = Cardinality(New(n)) + IF First(s, ds[n + 1]) THEN 1 ELSE 0
    <2>1. CASE First(s, ds[n + 1])
        <3>1. New(n + 1) = New(n) \union {n + 1} /\ n + 1 \notin New(n) BY <2>1
        <3>. HIDE DEF New
        <3>2. Cardinality(New(n) \union {n + 1}) = Cardinality(New(n)) + 1
            BY <1>1, <3>1, FS_AddElement
        <3>. QED BY <2>1, <3>1, <3>2
    <2>2. CASE ~First(s, ds[n + 1])
        <3>1. New(n + 1) = New(n)
            <4>1. \A j \in 1 .. n + 1 : j \in 1 .. n \/ j = n + 1 OBVIOUS
            <4>2. 1 .. n \subseteq 1 .. n + 1 OBVIOUS
            <4>. QED BY <2>2, <4>1, <4>2
        <3>. HIDE DEF New
        <3>2. Cardinality(New(n)) \in Nat BY <1>1
        <3>. QED BY <2>2, <3>1, <3>2
    <2>. QED BY <2>1, <2>2
<1>4. \A k : KnownWith(s, ds, k) = Len(s.tools) + Cardinality(New(k)) BY DEF KnownWith
<1>. HIDE DEF New
<1>5. KnownWith(s, ds, 0) = Len(s.tools) BY <1>2, <1>4
<1>. DEFINE c == Cardinality(New(n))
<1>6. c \in Nat /\ KnownWith(s, ds, n) = Len(s.tools) + c BY <1>1, <1>4
<1>7. KnownWith(s, ds, n + 1) = Len(s.tools) + (c + IF First(s, ds[n + 1]) THEN 1 ELSE 0)
    BY <1>3, <1>4
<1>. DEFINE l == Len(s.tools)  one == IF First(s, ds[n + 1]) THEN 1 ELSE 0
            k == KnownWith(s, ds, n)
<1>8. k = l + c /\ KnownWith(s, ds, n + 1) = l + (c + one) /\ l \in Nat /\ c \in Nat /\ one \in Nat
    BY <1>6, <1>7
<1>9. k \in Nat /\ l <= k /\ KnownWith(s, ds, n + 1) = k + one
    <2>. HIDE DEF c, l, one, k
    <2>. QED BY <1>8
<1>. HIDE DEF c
<1>. QED BY <1>5, <1>9

LEMMA KnownMore ==
    ASSUME NEW s, NEW ds, NEW k \in Nat \ {0}, Len(s.tools) \in Nat
    PROVE  \E m \in Nat : /\ m = KnownWith(s, ds, k - 1) /\ Len(s.tools) <= m
                          /\ KnownWith(s, ds, k) = IF First(s, ds[k]) THEN m + 1 ELSE m
<1>. DEFINE n == k - 1
<1>1. n \in Nat /\ n + 1 = k OBVIOUS
<1>. HIDE DEF n
<1>2. /\ KnownWith(s, ds, n) \in Nat /\ Len(s.tools) <= KnownWith(s, ds, n)
      /\ First(s, ds[n + 1]) => KnownWith(s, ds, n + 1) = KnownWith(s, ds, n) + 1
      /\ ~First(s, ds[n + 1]) => KnownWith(s, ds, n + 1) = KnownWith(s, ds, n)
    BY <1>1, KnownFacts
<1>. QED BY <1>1, <1>2 DEF n

LEMMA HandledCourse ==
    ASSUME NEW s, NEW ds, Len(ds) \in Nat, ds # <<>>
    PROVE  \E f : /\ f[0] = CloseThinking(s)
                  /\ \A k \in 1 .. Len(ds) : f[k] = HandleTool(f[k - 1], ds[k])
                  /\ HandleTools(s, ds) = f[Len(ds)]
<1>. DEFINE n == Len(ds)
            C(g, j) == g = [k \in 0 .. j |-> IF k = 0 THEN CloseThinking(s)
                                             ELSE HandleTool(g[k - 1], ds[k])]
            T == {j \in 0 .. n : \E g : C(g, j)}
<1>1. C([k \in 0 .. 0 |-> CloseThinking(s)], 0) OBVIOUS
<1>2. 0 \in T
    <2>. HIDE DEF C
    <2>. QED BY <1>1
<1>3. ASSUME NEW j \in 1 .. n, j - 1 \in T PROVE j \in T
    <2>1. PICK g : C(g, j - 1) BY <1>3
    <2>2. C([k \in 0 .. j |-> IF k = j THEN HandleTool(g[j - 1], ds[j]) ELSE g[k]], j) BY <2>1
    <2>. HIDE DEF C
    <2>. QED BY <2>2
<1>4. n \in T
    <2>. HIDE DEF T, n
    <2>1. n \in Nat BY DEF n
    <2>. QED BY <1>2, <1>3, <2>1, InductTo
<1>. DEFINE f == CHOOSE g : C(g, n)
<1>5. C(f, n) BY <1>4
<1>6. HandleTools(s, ds) = f[n] BY DEF HandleTools
<1>. HIDE DEF f
<1>7. f[0] = CloseThinking(s) /\ \A k \in 1 .. n : f[k] = HandleTool(f[k - 1], ds[k]) BY <1>5
<1>. QED BY <1>6, <1>7

\* Deltas whose new calls are numbered on.
InOrder(s, ds) ==
    \A k \in 1 .. Len(ds) :
        /\ IsSeq(ds[k].args) /\ ds[k].index \in Nat \ {0}
        /\ First(s, ds[k]) => ds[k].index = KnownWith(s, ds, k)

LEMMA HandleToolsGood ==
    ASSUME NEW a, NEW s, NEW ds, NEW t, Good(a, s), Going(s), s.ok, Len(ds) \in Nat,
           InOrder(s, ds),
           t = HandleTools(s, ds)
    PROVE  Output(a, s, t)
<1>1. CASE ds = <<>>
    <2>1. t = s BY <1>1 DEF HandleTools
    <2>. QED BY <2>1 DEF Output, Keeps, Same
<1>2. CASE ds # <<>>
    <2>. DEFINE n == Len(ds)
    <2>1. PICK f : /\ f[0] = CloseThinking(s)
                   /\ \A k \in 1 .. n : f[k] = HandleTool(f[k - 1], ds[k])
                   /\ t = f[n]
        BY <1>2, HandledCourse
    <2>2. Len(s.tools) \in Nat BY SeqFacts DEF Good, Shape, ToolsShape
    <2>. DEFINE T == {k \in 0 .. n : /\ Output(a, s, f[k])
                                     /\ f[k].ok => Len(f[k].tools) = KnownWith(s, ds, k)}
    <2>3. 0 \in T
        <3>. DEFINE u == f[0]
        <3>1. u = CloseThinking(s) BY <2>1
        <3>. HIDE DEF u
        <3>2. Output(a, s, u) /\ u.tools = s.tools
            BY <3>1, CloseThinkingNow DEF Output, Same
        <3>3. KnownWith(s, ds, 0) = Len(s.tools) /\ 0 \in 0 .. n
            <4>1. 0 \in Nat OBVIOUS
            <4>. QED BY <2>2, <4>1, KnownFacts
        <3>. QED BY <3>2, <3>3 DEF u
    <2>4. ASSUME NEW k \in 1 .. n, k - 1 \in T PROVE k \in T
        <3>. DEFINE u == f[k - 1]  v == f[k]  d == ds[k]  l == Len(s.tools)
        <3>1. Output(a, s, u) /\ (u.ok => Len(u.tools) = KnownWith(s, ds, k - 1)) BY <2>4
        <3>2. v = HandleTool(u, d) BY <2>1
        <3>3. IsSeq(d.args) /\ d.index \in Nat \ {0} /\ (First(s, d) => d.index = KnownWith(s, ds, k))
            BY DEF InOrder
        <3>. HIDE DEF u, v, d
        <3>5. CASE ~u.ok
            <4>1. v = u BY <3>2, <3>5 DEF HandleTool, Then
            <4>. QED BY <3>1, <3>5, <4>1 DEF v
        <3>6. CASE u.ok
            <4>0. PICK m \in Nat : /\ m = KnownWith(s, ds, k - 1) /\ l <= m
                                   /\ KnownWith(s, ds, k) = IF First(s, d) THEN m + 1 ELSE m
                <5>1. k \in Nat \ {0} OBVIOUS
                <5>2. \E m \in Nat : /\ m = KnownWith(s, ds, k - 1) /\ Len(s.tools) <= m
                                     /\ KnownWith(s, ds, k) = IF First(s, ds[k]) THEN m + 1 ELSE m
                    BY <2>2, <5>1, KnownMore
                <5>. QED BY <5>2 DEF d
            <4>1. Len(u.tools) = m BY <3>1, <3>6, <4>0
            <4>2. First(u, d) <=> First(s, d) BY <2>2, <3>3, <4>0, <4>1 DEF First
            <4>3. First(u, d) => d.index = Len(u.tools) + 1 BY <3>3, <4>0, <4>1, <4>2
            <4>4. Good(a, u) /\ Going(u) BY <3>1, GoingKept DEF Output
            <4>5. /\ Output(a, u, v)
                  /\ v.ok => Len(v.tools) = IF First(u, d) THEN Len(u.tools) + 1 ELSE Len(u.tools)
                BY <3>2, <3>3, <4>3, <4>4, HandleToolGood
            <4>6. Output(a, s, v) BY <3>1, <4>5, OutputAgain
            <4>7. v.ok => Len(v.tools) = KnownWith(s, ds, k) BY <4>0, <4>1, <4>2, <4>5
            <4>. QED BY <4>6, <4>7 DEF v
        <3>. QED BY <3>5, <3>6
    <2>5. n \in T
        <3>. HIDE DEF T, n
        <3>1. n \in Nat BY DEF n
        <3>. QED BY <2>3, <2>4, <3>1, InductTo
    <2>. QED BY <2>1, <2>5
<1>. QED BY <1>1, <1>2

\* Nor what has been read.
LEMMA ReadShape ==
    ASSUME NEW s, NEW t, NEW X, Shape(s), IsRec(ChatFields, t), Differ(ChatFields, s, t, X),
           X \subseteq {"ok", "out", "seen", "chat", "tier", "usageSeen", "content", "refusal", "usage"},
           IsSeq(t.content), IsSeq(t.refusal), IsSeq(t.usage)
    PROVE  Shape(t) /\ ChatStage(t) = ChatStage(s)
<1>1. \A x \in ChatFields \ {"ok", "out", "seen", "chat", "tier", "usageSeen", "content", "refusal", "usage"} :
          t[x] = s[x]
    BY DEF Differ
<1>2. /\ t.tools = s.tools /\ t.deferred = s.deferred /\ t.index = s.index /\ t.spent = s.spent
      /\ t.open = s.open /\ t.thinking = s.thinking /\ t.begun = s.begun /\ t.terminal = s.terminal
      /\ t.stopped = s.stopped /\ t.active = s.active /\ t.pending = s.pending
      /\ t.pendingUsage = s.pendingUsage
    BY <1>1 DEF ChatFields
<1>3. ToolsShape(t) BY <1>2 DEF Shape, ToolsShape
<1>4. DeferredShape(t) BY <1>2 DEF Shape, DeferredShape
<1>5. ActiveShape(t) BY <1>2 DEF Shape, ActiveShape
<1>6. PhaseShape(t) BY <1>2 DEF Shape, PhaseShape
<1>7. NumberShape(t) BY <1>2 DEF Shape, NumberShape
<1>8. ToolOpen(t) = ToolOpen(s) BY <1>2 DEF ToolOpen
<1>9. ChatStage(t) = ChatStage(s) BY <1>2, <1>8 DEF ChatStage
<1>. QED BY <1>3, <1>4, <1>5, <1>6, <1>7, <1>8, <1>9 DEF Shape

LEMMA RestIsSeq ==
    ASSUME NEW q, NEW m \in Nat \ {0}, IsSeq(q)
    PROVE  IsSeq(SubSeq(q, m, Len(q)))
<1>. DEFINE n == Len(q)  r == SubSeq(q, m, n)
<1>1. PICK S : q \in Seq(S) BY DEF IsSeq
<1>2. n \in Nat /\ n = Len(q) BY <1>1
<1>. HIDE DEF n
<1>3. CASE m <= n
    <2>1. r \in Seq(S) BY <1>1, <1>2, <1>3
    <2>. QED BY <1>2, <2>1 DEF IsSeq
<1>4. CASE m > n
    <2>1. r \in Seq(S) BY <1>1, <1>2, <1>4
    <2>. QED BY <1>2, <2>1 DEF IsSeq
<1>. QED BY <1>2, <1>3, <1>4

LEMMA FlushRefusalGood ==
    ASSUME NEW a, NEW s, NEW t, Good(a, s), Going(s), s.ok, t = FlushRefusal(s)
    PROVE  Output(a, s, t) /\ Calm(s, t)
<1>1. CASE s.emitted # s.content
    <2>1. t = Fail(s) BY <1>1 DEF FlushRefusal
    <2>2. Output(a, s, t) /\ Same(s, t, ChatFields \ {"ok"}) BY <2>1, FailGood
    <2>3. (t.thinking <=> s.thinking) /\ t.tools = s.tools BY <2>2 DEF Same, ChatFields
    <2>. QED BY <2>2, <2>3 DEF Calm
<1>2. CASE s.emitted = s.content /\ IsPrefix(s.refusal, s.content)
    <2>1. t = s BY <1>2 DEF FlushRefusal
    <2>. QED BY <2>1 DEF Output, Calm, Keeps, Same
<1>3. CASE s.emitted = s.content /\ ~IsPrefix(s.refusal, s.content)
    <2>. DEFINE m == Len(s.content) + 1
                n == Len(s.refusal)
                text == SubSeq(s.refusal, m, n)
    <2>1. t = EmitText(s, text, FALSE, FALSE) BY <1>3 DEF FlushRefusal
    <2>2. m \in Nat /\ n \in Nat BY SeqFacts DEF Good, Shape, NumberShape
    <2>3. IsSeq(text)
        <3>1. IsSeq(s.refusal) /\ m \in Nat \ {0} BY SeqFacts DEF Good, Shape, NumberShape
        <3>. HIDE DEF m
        <3>. QED BY <3>1, RestIsSeq
    <2>. DEFINE no == FALSE
    <2>4. t = EmitText(s, text, no, no) /\ (no \/ IsSeq(text)) BY <2>1, <2>3
    <2>. HIDE DEF text, no
    <2>. QED BY <2>4, EmitTextGood
<1>. QED BY <1>1, <1>2, <1>3

LEMMA FinishOutputGood ==
    ASSUME NEW a, NEW s, NEW t, Good(a, s), Going(s), s.ok, t = FinishOutput(s)
    PROVE  Output(a, s, t) /\ (t.ok => ~t.open /\ ~t.thinking)
<1>. DEFINE c == CloseThinking(s)
            x == IF ToolOpen(c) THEN CloseBlock(c) ELSE c
            f == FlushDeferred(x)
            g == FlushRefusal(f)
<1>1. t = IF ~f.ok THEN f
          ELSE IF ~ToolsDelivered(f) THEN Fail(f)
          ELSE IF g.ok THEN CloseBlock(g) ELSE g
    BY DEF FinishOutput, Then
<1>2. c = CloseThinking(s) /\ f = FlushDeferred(x) /\ g = FlushRefusal(f) OBVIOUS
<1>3. x = IF ToolOpen(c) THEN CloseBlock(c) ELSE c OBVIOUS
<1>. HIDE DEF c, x, f, g
<1>4. Output(a, s, c) /\ c.ok /\ ~c.thinking BY <1>2, CloseThinkingNow DEF Output
<1>5. Good(a, c) /\ Going(c) BY <1>4, GoingKept DEF Output
<1>6. Output(a, c, x) /\ x.ok /\ ~x.thinking
    <2>1. CASE ToolOpen(c)
        <3>1. x = CloseBlock(c) BY <1>3, <2>1
        <3>2. Output(a, c, x) /\ Calm(c, x) /\ Same(c, x, {"ok", "tools", "deferred", "thinking"})
            BY <1>5, <3>1, CloseBlockOutput
        <3>. QED BY <1>4, <3>2 DEF Same
    <2>2. CASE ~ToolOpen(c)
        <3>1. x = c BY <1>3, <2>2
        <3>. QED BY <1>4, <1>5, <3>1 DEF Output, Keeps, Same
    <2>. QED BY <2>1, <2>2
<1>7. Good(a, x) /\ Going(x) BY <1>5, <1>6, GoingKept DEF Output
<1>8. Output(a, x, f) /\ Calm(x, f) BY <1>2, <1>6, <1>7, FlushDeferredGood
<1>9. Good(a, f) /\ Going(f) /\ ~f.thinking BY <1>6, <1>7, <1>8, GoingKept DEF Output, Calm
<1>10. Output(a, s, f) BY <1>4, <1>6, <1>8, OutputAgain
<1>11. CASE ~f.ok
    <2>1. t = f BY <1>1, <1>11
    <2>. QED BY <1>10, <1>11, <2>1
<1>12. CASE f.ok /\ ~ToolsDelivered(f)
    <2>1. t = Fail(f) BY <1>1, <1>12
    <2>2. Output(a, f, t) /\ ~t.ok BY <1>9, <2>1, FailGood
    <2>3. Output(a, s, t) BY <1>10, <2>2, OutputAgain
    <2>. QED BY <2>2, <2>3
<1>13. CASE f.ok /\ ToolsDelivered(f)
    <2>1. Output(a, f, g) /\ Calm(f, g) BY <1>2, <1>9, <1>13, FlushRefusalGood
    <2>2. Output(a, s, g) BY <1>10, <2>1, OutputAgain
    <2>3. CASE ~g.ok
        <3>1. t = g BY <1>1, <1>13, <2>3
        <3>. QED BY <2>2, <2>3, <3>1
    <2>4. CASE g.ok
        <3>1. t = CloseBlock(g) BY <1>1, <1>13, <2>4
        <3>2. Good(a, g) /\ ~g.thinking BY <1>9, <2>1 DEF Output, Calm
        <3>3. Output(a, g, t) /\ Calm(g, t) /\ ~t.open BY <3>1, <3>2, CloseBlockOutput
        <3>4. Output(a, s, t) BY <2>2, <3>3, OutputAgain
        <3>. QED BY <3>2, <3>3, <3>4 DEF Calm
    <2>. QED BY <2>3, <2>4
<1>. QED BY <1>11, <1>12, <1>13

\* What may be pending is what is known.
UsageSettled(s) == s.pending # Absent => s.pendingUsage = s.usage

LEMMA FinishGood ==
    ASSUME NEW a, NEW s, NEW c, NEW t, Good(a, s), Going(s), s.ok, t = Finish(s, c)
    PROVE  Good(a, t) /\ ~t.terminal /\ t.usage = s.usage /\ UsageSettled(t)
<1>1. CASE c.finish = Absent
    <2>1. t = s BY <1>1 DEF Finish
    <2>. QED BY <2>1 DEF Going, Live, UsageSettled
<1>2. CASE c.finish # Absent
    <2>. DEFINE u == FinishOutput(s)
                reason == StopReason[c.finish]
                told == c.usage # <<>>
    <2>1. t = IF u.ok THEN [u EXCEPT !.pending = reason, !.pendingUsage = u.usage, !.usageSeen = told]
              ELSE u
        BY <1>2 DEF Finish, Then
    <2>2. u = FinishOutput(s) OBVIOUS
    <2>. HIDE DEF u, reason, told
    <2>3. Output(a, s, u) /\ (u.ok => ~u.open /\ ~u.thinking) BY <2>2, FinishOutputGood
    <2>4. Good(a, u) /\ Going(u) /\ u.usage = s.usage
        BY <2>3, GoingKept DEF Output, Keeps, Same, Kept
    <2>5. CASE ~u.ok
        <3>1. t = u BY <2>1, <2>5
        <3>. QED BY <2>4, <3>1 DEF Going, Live, UsageSettled
    <2>6. CASE u.ok
        <3>1. Shape(u) /\ IsRec(ChatFields, u) BY <2>4 DEF Good, Shape
        <3>2. t = [u EXCEPT !.pending = reason, !.pendingUsage = u.usage, !.usageSeen = told]
            BY <2>1, <2>6
        <3>3. /\ IsRec(ChatFields, t) /\ t.pendingUsage = u.usage
              /\ Same(u, t, ChatFields \ {"pending", "pendingUsage", "usageSeen"})
            BY <3>1, <3>2 DEF IsRec, ChatFields, Same
        <3>4. /\ t.tools = u.tools /\ t.deferred = u.deferred /\ t.index = u.index /\ t.spent = u.spent
              /\ t.active = u.active /\ t.content = u.content /\ t.refusal = u.refusal
              /\ t.usage = u.usage /\ t.out = u.out
            BY <3>3 DEF Same, ChatFields
        <3>5. /\ (t.open <=> u.open) /\ (t.thinking <=> u.thinking) /\ (t.begun <=> u.begun)
              /\ (t.terminal <=> u.terminal) /\ (t.stopped <=> u.stopped)
            BY <3>3 DEF Same, ChatFields
        <3>6. /\ ~t.open /\ ~t.thinking /\ t.begun /\ ~t.terminal /\ ~t.stopped
            BY <2>3, <2>4, <2>6, <3>1, <3>5 DEF Going, Live, Shape, PhaseShape
        <3>7. ToolsShape(t) BY <3>1, <3>4, <3>5 DEF Shape, ToolsShape
        <3>8. DeferredShape(t) BY <3>1, <3>4 DEF Shape, DeferredShape
        <3>9. ActiveShape(t) BY <3>1, <3>4, <3>5 DEF Shape, ActiveShape
        <3>10. PhaseShape(t) BY <3>6 DEF PhaseShape
        <3>11. NumberShape(t) BY <3>1, <3>3, <3>4 DEF Shape, NumberShape
        <3>12. Shape(t) BY <3>3, <3>7, <3>8, <3>9, <3>10, <3>11 DEF Shape
        <3>13. ChatStage(t) = ChatStage(u)
            <4>1. ToolOpen(t) <=> ToolOpen(u) BY <3>4, <3>5 DEF ToolOpen
            <4>. QED BY <3>4, <3>5, <3>6, <4>1 DEF ChatStage
        <3>. QED BY <2>4, <3>3, <3>4, <3>6, <3>12, <3>13 DEF Good, UsageSettled
    <2>. QED BY <2>5, <2>6
<1>. QED BY <1>1, <1>2

LEMMA BeginMessageGood ==
    ASSUME NEW a, NEW s, NEW t, Good(a, s), ~s.terminal, s.pending = Absent, t = BeginMessage(s)
    PROVE  /\ Good(a, t) /\ Same(s, t, Kept \ {"begun"}) /\ t.tools = s.tools
           /\ t.ok => s.ok /\ Going(t)
<1>1. CASE s.begun
    <2>1. t = s BY <1>1 DEF BeginMessage
    <2>. QED BY <1>1, <2>1 DEF Going, Live, Same
<1>2. CASE ~s.begun
    <2>. DEFINE n == IF s.tier = Absent THEN 0 ELSE 1
                r == Reserve(s, n)
                q == <<MessageStart>>
                e == Emit(r, q)
    <2>1. n \in Nat /\ r = Reserve(s, n) OBVIOUS
    <2>2. t = IF r.ok THEN [e EXCEPT !.begun = TRUE] ELSE r BY <1>2 DEF BeginMessage, Then
    <2>. HIDE DEF n, r
    <2>3. Good(a, r) /\ Keeps(s, r) /\ Same(s, r, ChatFields \ {"ok", "spent"}) /\ (r.ok => s.ok)
        BY <2>1, ReserveGood
    <2>4. Same(s, r, Kept \ {"begun"}) /\ r.tools = s.tools BY <2>3 DEF Keeps, Same, ChatFields
    <2>5. ~r.terminal /\ r.pending = Absent /\ ~r.begun BY <1>2, <2>3 DEF Keeps, Same, Kept
    <2>6. CASE ~r.ok
        <3>1. t = r BY <2>2, <2>6
        <3>. QED BY <2>3, <2>4, <2>6, <3>1
    <2>7. CASE r.ok
        <3>1. Shape(r) /\ IsRec(ChatFields, r) BY <2>3 DEF Good, Shape
        <3>2. e = Emit(r, q) OBVIOUS
        <3>. HIDE DEF e, q
        <3>3. IsRec(ChatFields, e) /\ Differ(ChatFields, r, e, {"out"}) /\ e.out = r.out \o q
            BY <3>1, <3>2, EmitChat
        <3>4. t = [e EXCEPT !.begun = TRUE] BY <2>2, <2>7
        <3>5. IsRec(ChatFields, t) /\ t.begun = TRUE /\ Same(e, t, ChatFields \ {"begun"})
            BY <3>3, <3>4 DEF IsRec, ChatFields, Same
        <3>6. t.out = r.out \o q /\ Same(r, t, ChatFields \ {"begun", "out"})
            BY <3>3, <3>5 DEF Differ, Same, ChatFields
        <3>7. /\ t.tools = r.tools /\ t.deferred = r.deferred /\ t.index = r.index /\ t.spent = r.spent
              /\ t.active = r.active /\ t.content = r.content /\ t.refusal = r.refusal
              /\ t.usage = r.usage /\ t.pending = r.pending /\ t.pendingUsage = r.pendingUsage
            BY <3>6 DEF Same, ChatFields
        <3>8. /\ (t.open <=> r.open) /\ (t.thinking <=> r.thinking) /\ (t.ok <=> r.ok)
              /\ (t.terminal <=> r.terminal) /\ (t.stopped <=> r.stopped)
            BY <3>6 DEF Same, ChatFields
        <3>9. ~t.open /\ ~t.thinking /\ ~r.open /\ ~r.thinking /\ ~t.terminal /\ ~r.stopped /\ ~t.stopped
            BY <2>5, <3>1, <3>8 DEF Shape, PhaseShape
        <3>10. ToolsShape(t) BY <3>1, <3>7, <3>8 DEF Shape, ToolsShape
        <3>11. DeferredShape(t) BY <3>1, <3>7 DEF Shape, DeferredShape
        <3>12. ActiveShape(t) BY <3>1, <3>7, <3>8 DEF Shape, ActiveShape
        <3>13. PhaseShape(t) BY <2>5, <3>7, <3>9 DEF PhaseShape
        <3>14. NumberShape(t) BY <3>1, <3>7 DEF Shape, NumberShape
        <3>15. Shape(t) BY <3>5, <3>10, <3>11, <3>12, <3>13, <3>14 DEF Shape
        <3>16. ChatStage(r) = Stage("before", <<>>, r.index, <<>>) BY <2>5, <3>9 DEF ChatStage
        <3>17. ChatStage(t) = Stage("message", <<>>, r.index, <<>>) BY <3>5, <3>7, <3>9 DEF ChatStage
        <3>18. Allowed("chat", ChatStage(r), MessageStart, ChatStage(t))
            BY <3>16, <3>17, StageFields DEF Allowed, MessageStart, Event
        <3>. DEFINE m == MessageStart
        <3>19. q = <<m>> BY DEF q
        <3>20. Allowed("chat", ChatStage(r), m, ChatStage(t)) BY <3>18
        <3>. HIDE DEF m
        <3>21. Path("chat", a, t.out, ChatStage(t)) BY <2>3, <3>6, <3>19, <3>20, PathAnd DEF Good
        <3>22. Same(s, t, Kept \ {"begun"})
            <4>1. Same(r, t, Kept \ {"begun"}) BY <3>6 DEF Same, Kept, ChatFields
            <4>. QED BY <2>4, <4>1 DEF Same
        <3>. QED BY <2>3, <2>4, <2>5, <3>5, <3>7, <3>8, <3>9, <3>15, <3>21, <3>22 DEF Good, Going, Live
    <2>. QED BY <2>6, <2>7
<1>. QED BY <1>1, <1>2

LEMMA TerminateGood ==
    ASSUME NEW a, NEW s, NEW kind, NEW t, Good(a, s), ~s.terminal, t = Terminate(s, kind)
    PROVE  Good(a, t) /\ t.terminal /\ ~t.stopped
<1>. DEFINE u == [s EXCEPT !.ok = TRUE]
            h == CloseThinking(u)
            w == CloseBlock(h)
            q == <<ErrorEvent(kind)>>
            e == Emit(w, q)
<1>1. t = [e EXCEPT !.active = 0, !.tools = <<>>, !.deferred = <<>>,
                    !.pending = Absent, !.pendingUsage = <<>>, !.terminal = TRUE]
    BY DEF Terminate
<1>2. u = [s EXCEPT !.ok = TRUE] /\ h = CloseThinking(u) /\ w = CloseBlock(h) /\ e = Emit(w, q)
    OBVIOUS
<1>. HIDE DEF u, h, w, q, e
<1>3. Shape(s) /\ IsRec(ChatFields, s) BY DEF Good, Shape
<1>4. Good(a, u) /\ u.ok /\ ~u.terminal
    <2>1. IsRec(ChatFields, u) /\ Differ(ChatFields, s, u, {"ok"}) /\ u.ok
        BY <1>2, <1>3 DEF IsRec, Differ, ChatFields
    <2>2. Shape(u) /\ ChatStage(u) = ChatStage(s) BY <1>3, <2>1, SameShape
    <2>3. u.out = s.out /\ (u.terminal <=> s.terminal) BY <2>1 DEF Differ, ChatFields
    <2>. QED BY <2>1, <2>2, <2>3 DEF Good
<1>5. Good(a, h) /\ Keeps(u, h) /\ ~h.thinking BY <1>2, <1>4, CloseThinkingNow
<1>6. Good(a, w) /\ Keeps(h, w) /\ ~w.open /\ Same(h, w, {"thinking"})
    BY <1>2, <1>5, CloseBlockGood DEF Same
<1>7. ~w.thinking BY <1>5, <1>6 DEF Same
<1>8. ~w.terminal
    <2>1. (w.terminal <=> h.terminal) /\ (h.terminal <=> u.terminal)
        BY <1>5, <1>6 DEF Keeps, Same, Kept
    <2>. QED BY <1>4, <2>1
<1>9. Shape(w) /\ IsRec(ChatFields, w) /\ ~w.stopped BY <1>6, <1>8 DEF Good, Shape, PhaseShape
<1>10. IsRec(ChatFields, e) /\ Differ(ChatFields, w, e, {"out"}) /\ e.out = w.out \o q
    BY <1>2, <1>9, EmitChat
<1>11. /\ IsRec(ChatFields, t) /\ t.active = 0 /\ t.tools = <<>> /\ t.deferred = <<>>
       /\ t.pending = Absent /\ t.pendingUsage = <<>> /\ t.terminal = TRUE
       /\ Same(e, t, ChatFields \ {"active", "tools", "deferred", "pending", "pendingUsage", "terminal"})
    BY ZenonT(60), <1>1, <1>10 DEF IsRec, ChatFields, Same
<1>12. /\ t.out = w.out \o q
       /\ Same(w, t, ChatFields \ {"active", "tools", "deferred", "pending", "pendingUsage", "terminal", "out"})
    BY <1>10, <1>11 DEF Differ, Same, ChatFields
<1>13. /\ t.index = w.index /\ t.spent = w.spent /\ t.content = w.content /\ t.refusal = w.refusal
       /\ t.usage = w.usage /\ (t.open <=> w.open) /\ (t.thinking <=> w.thinking)
       /\ (t.stopped <=> w.stopped)
    BY <1>12 DEF Same, ChatFields
<1>14. ~t.open /\ ~t.thinking /\ ~t.stopped BY <1>6, <1>7, <1>9, <1>13
<1>15. DOMAIN t.tools = {} /\ DOMAIN t.deferred = {} /\ IsSeq(t.tools) /\ IsSeq(t.deferred)
    BY <1>11, ShortSeqs
<1>16. ToolsShape(t) /\ DeferredShape(t) BY <1>15 DEF ToolsShape, DeferredShape
<1>17. ActiveShape(t) BY <1>11 DEF ActiveShape
<1>18. PhaseShape(t) BY <1>11, <1>14 DEF PhaseShape
<1>19. NumberShape(t) BY <1>9, <1>11, <1>13, ShortSeqs DEF Shape, NumberShape
<1>20. Shape(t) BY <1>11, <1>16, <1>17, <1>18, <1>19 DEF Shape
<1>21. ChatStage(t) = Stage("failed", <<>>, w.index, <<>>) BY <1>11, <1>13, <1>14 DEF ChatStage
<1>. DEFINE phase == IF w.begun THEN "message" ELSE "before"
            b == ErrorEvent(kind)
<1>22. ChatStage(w) = Stage(phase, <<>>, w.index, <<>>)
    BY <1>6, <1>7, <1>8, <1>9 DEF ChatStage
<1>23. Allowed("chat", ChatStage(w), b, ChatStage(t))
    <2>1. phase \in {"before", "message"} OBVIOUS
    <2>. HIDE DEF phase
    <2>2. b.type = "error" BY DEF ErrorEvent, Event
    <2>. HIDE DEF b
    <2>. QED BY <1>21, <1>22, <2>1, <2>2, StageFields DEF Allowed
<1>24. q = <<b>> BY DEF q
<1>. HIDE DEF b
<1>25. Path("chat", a, t.out, ChatStage(t)) BY <1>6, <1>12, <1>23, <1>24, PathAnd DEF Good
<1>. QED BY <1>11, <1>14, <1>20, <1>25 DEF Good

\* A chunk of sequences.
ChunkParts(c) ==
    /\ IsSeq(c.usage) /\ IsSeq(c.content) /\ IsSeq(c.reasoning) /\ IsSeq(c.opaque)
    /\ IsSeq(c.refusal) /\ Len(c.tools) \in Nat

\* What usage is known after it.
Knows(s, c) == IF c.usage = <<>> THEN s.usage ELSE c.usage

LEMMA EstablishGood ==
    ASSUME NEW a, NEW s, NEW c, NEW t, Good(a, s), ChunkParts(c), t = Establish(s, c)
    PROVE  /\ Good(a, t) /\ Same(s, t, ChatFields \ {"chat", "tier", "usage"})
           /\ t.usage = Knows(s, c)
<1>1. Shape(s) /\ IsRec(ChatFields, s) BY DEF Good, Shape
<1>2. /\ IsRec(ChatFields, t) /\ Same(s, t, ChatFields \ {"chat", "tier", "usage"})
      /\ t.usage = Knows(s, c)
    BY <1>1 DEF Establish, IsRec, ChatFields, Same, Knows
<1>3. /\ Differ(ChatFields, s, t, {"chat", "tier", "usage"})
      /\ t.content = s.content /\ t.refusal = s.refusal /\ t.out = s.out
    BY <1>2 DEF Same, Differ, ChatFields
<1>4. IsSeq(t.content) /\ IsSeq(t.refusal) /\ IsSeq(t.usage)
    BY <1>1, <1>2, <1>3 DEF Shape, NumberShape, ChunkParts, Knows
<1>5. Shape(t) /\ ChatStage(t) = ChatStage(s)
    <2>. DEFINE X == {"chat", "tier", "usage"}
    <2>1. Differ(ChatFields, s, t, X)
          /\ X \subseteq {"ok", "out", "seen", "chat", "tier", "usageSeen", "content", "refusal", "usage"}
        BY <1>3
    <2>. HIDE DEF X
    <2>. QED BY <1>1, <1>2, <1>4, <2>1, ReadShape
<1>. QED BY <1>2, <1>3, <1>5 DEF Good

LEMMA InOrderSame ==
    ASSUME NEW s, NEW t, NEW ds, InOrder(s, ds), t.tools = s.tools
    PROVE  InOrder(t, ds)
<1>1. \A d : First(t, d) <=> First(s, d) BY DEF First
<1>2. \A k : KnownWith(t, ds, k) = KnownWith(s, ds, k) BY <1>1 DEF KnownWith
<1>. QED BY <1>1, <1>2 DEF InOrder

LEMMA TakeChoiceGood ==
    ASSUME NEW a, NEW s, NEW c, NEW t, Good(a, s), ~s.terminal, s.pending = Absent,
           ChunkParts(c), InOrder(s, c.tools), t = TakeChoice(s, c)
    PROVE  Good(a, t) /\ ~t.terminal /\ t.usage = s.usage /\ UsageSettled(t)
<1>. DEFINE b == BeginMessage(s)
            noted(u) == [u EXCEPT !.seen = @ \/ HasOutput(c), !.content = @ \o c.content,
                                  !.refusal = @ \o c.refusal]
            thought(u) == IF u.suppress THEN u
                          ELSE Then(Think(u, c.reasoning), LAMBDA v : ScheduleOpaque(v, c.opaque))
            n == IF b.ok THEN noted(b) ELSE b
            h == IF n.ok THEN thought(n) ELSE n
            l == IF h.ok THEN HandleTools(h, c.tools) ELSE h
            yes == TRUE
            x == IF l.ok THEN ScheduleText(l, c.content, yes) ELSE l
<1>0. /\ IsSeq(c.content) /\ IsSeq(c.reasoning) /\ IsSeq(c.opaque) /\ IsSeq(c.refusal)
      /\ Len(c.tools) \in Nat
    BY DEF ChunkParts
<1>1. t = IF x.ok THEN Finish(x, c) ELSE x BY DEF TakeChoice, Then
<1>2. /\ b = BeginMessage(s) /\ n = (IF b.ok THEN noted(b) ELSE b)
      /\ h = (IF n.ok THEN thought(n) ELSE n) /\ l = (IF h.ok THEN HandleTools(h, c.tools) ELSE h)
      /\ x = IF l.ok THEN ScheduleText(l, c.content, yes) ELSE l
    OBVIOUS
<1>. HIDE DEF b, n, h, l, x, yes
<1>3. /\ Good(a, b) /\ Same(s, b, Kept \ {"begun"}) /\ b.tools = s.tools
      /\ b.ok => s.ok /\ Going(b)
    BY <1>2, BeginMessageGood
<1>4. /\ b.usage = s.usage /\ b.pending = Absent /\ ~b.terminal BY <1>3 DEF Same, Kept
<1>5. CASE ~b.ok
    <2>1. n = b BY <1>2, <1>5
    <2>2. h = b BY <1>2, <1>5, <2>1
    <2>3. l = b BY <1>2, <1>5, <2>2
    <2>4. x = b BY <1>2, <1>5, <2>3
    <2>5. t = b BY <1>1, <1>5, <2>4
    <2>. QED BY <1>3, <1>4, <2>5 DEF UsageSettled
<1>6. CASE b.ok
    <2>1. Good(a, n) /\ Going(n) /\ n.ok /\ n.tools = s.tools /\ n.usage = s.usage
        <3>1. Shape(b) /\ IsRec(ChatFields, b) BY <1>3 DEF Good, Shape
        <3>2. n = noted(b) BY <1>2, <1>6
        <3>3. /\ IsRec(ChatFields, n) /\ Same(b, n, ChatFields \ {"seen", "content", "refusal"})
              /\ n.content = b.content \o c.content /\ n.refusal = b.refusal \o c.refusal
            BY <3>1, <3>2 DEF IsRec, ChatFields, Same
        <3>. HIDE DEF noted
        <3>4. /\ Differ(ChatFields, b, n, {"seen", "content", "refusal"})
              /\ n.usage = b.usage /\ n.tools = b.tools /\ n.out = b.out /\ n.pending = b.pending
              /\ (n.begun <=> b.begun) /\ (n.terminal <=> b.terminal) /\ (n.ok <=> b.ok)
            BY <3>3 DEF Same, Differ, ChatFields
        <3>5. IsSeq(n.content) /\ IsSeq(n.refusal) /\ IsSeq(n.usage)
            BY <1>0, <3>1, <3>3, <3>4, JoinFacts DEF Shape, NumberShape
        <3>6. Shape(n) /\ ChatStage(n) = ChatStage(b)
            <4>. DEFINE X == {"seen", "content", "refusal"}
            <4>1. Differ(ChatFields, b, n, X)
                  /\ X \subseteq {"ok", "out", "seen", "chat", "tier", "usageSeen", "content", "refusal", "usage"}
                BY <3>4
            <4>. HIDE DEF X
            <4>. QED BY <3>1, <3>3, <3>5, <4>1, ReadShape
        <3>. QED BY <1>3, <1>4, <1>6, <3>4, <3>6 DEF Good, Going, Live
    <2>2. Output(a, n, h) /\ h.tools = n.tools
        <3>. DEFINE v == Think(n, c.reasoning)
        <3>1. h = IF n.suppress THEN n ELSE IF v.ok THEN ScheduleOpaque(v, c.opaque) ELSE v
            BY <1>2, <2>1 DEF Then
        <3>2. v = Think(n, c.reasoning) OBVIOUS
        <3>. HIDE DEF v
        <3>3. Output(a, n, v) /\ Same(n, v, {"tools"}) BY <1>0, <2>1, <3>2, ThinkGood
        <3>4. CASE n.suppress
            <4>1. h = n BY <3>1, <3>4
            <4>. QED BY <2>1, <4>1 DEF Output, Keeps, Same
        <3>5. CASE ~n.suppress /\ ~v.ok
            <4>1. h = v BY <3>1, <3>5
            <4>. QED BY <3>3, <4>1 DEF Same
        <3>6. CASE ~n.suppress /\ v.ok
            <4>1. h = ScheduleOpaque(v, c.opaque) BY <3>1, <3>6
            <4>2. Good(a, v) /\ Going(v) BY <2>1, <3>3, GoingKept DEF Output
            <4>3. Output(a, v, h) /\ Same(v, h, {"tools"}) BY <1>0, <3>6, <4>1, <4>2, ScheduleOpaqueGood
            <4>4. Output(a, n, h) BY <3>3, <4>3, OutputAgain
            <4>. QED BY <3>3, <4>3, <4>4 DEF Same
        <3>. QED BY <3>4, <3>5, <3>6
    <2>3. Good(a, h) /\ Going(h) BY <2>1, <2>2, GoingKept DEF Output
    <2>4. Output(a, h, l)
        <3>1. CASE h.ok
            <4>1. l = HandleTools(h, c.tools) BY <1>2, <3>1
            <4>2. InOrder(h, c.tools) BY <2>1, <2>2, InOrderSame
            <4>. QED BY <1>0, <2>3, <3>1, <4>1, <4>2, HandleToolsGood
        <3>2. CASE ~h.ok
            <4>1. l = h BY <1>2, <3>2
            <4>. QED BY <2>3, <4>1 DEF Output, Keeps, Same
        <3>. QED BY <3>1, <3>2
    <2>5. Good(a, l) /\ Going(l) BY <2>3, <2>4, GoingKept DEF Output
    <2>6. Output(a, l, x)
        <3>1. CASE l.ok
            <4>1. x = ScheduleText(l, c.content, yes) BY <1>2, <3>1
            <4>. QED BY <1>0, <2>5, <3>1, <4>1, ScheduleTextGood
        <3>2. CASE ~l.ok
            <4>1. x = l BY <1>2, <3>2
            <4>. QED BY <2>5, <4>1 DEF Output, Keeps, Same
        <3>. QED BY <3>1, <3>2
    <2>7. Good(a, x) /\ Going(x) BY <2>5, <2>6, GoingKept DEF Output
    <2>8. Output(a, n, x) BY <2>2, <2>4, <2>6, OutputAgain
    <2>9. x.usage = s.usage BY <2>1, <2>8 DEF Output, Keeps, Same, Kept
    <2>10. CASE x.ok
        <3>1. t = Finish(x, c) BY <1>1, <2>10
        <3>. QED BY <2>7, <2>9, <2>10, <3>1, FinishGood
    <2>11. CASE ~x.ok
        <3>1. t = x BY <1>1, <2>11
        <3>. QED BY <2>7, <2>9, <3>1 DEF Going, Live, UsageSettled
    <2>. QED BY <2>10, <2>11
<1>. QED BY <1>5, <1>6

LEMMA TextIsSeq == \A q \in Text : IsSeq(q)
BY DEF Text, IsSeq

LEMMA ChunkFacts ==
    ASSUME NEW c \in ChunkShape
    PROVE  /\ ChunkParts(c)
           /\ \A k \in 1 .. Len(c.tools) : IsSeq(c.tools[k].args) /\ c.tools[k].index \in Nat \ {0}
<1>1. /\ c.usage \in Text /\ c.content \in Text /\ c.reasoning \in Text /\ c.opaque \in Text
      /\ c.refusal \in Text /\ c.tools \in Seq(ToolDelta)
    BY DEF ChunkShape
<1>2. Len(c.tools) \in Nat /\ \A k \in 1 .. Len(c.tools) : c.tools[k] \in ToolDelta BY <1>1
<1>3. \A d \in ToolDelta : IsSeq(d.args) /\ d.index \in Nat \ {0} BY TextIsSeq DEF ToolDelta
<1>. QED BY <1>1, <1>2, <1>3, TextIsSeq DEF ChunkParts

LEMMA TranslateGood ==
    ASSUME NEW a, NEW s, NEW c \in ChunkShape, NEW t, Good(a, s), ~s.terminal, UsageSettled(s),
           t = Translate(s, c)
    PROVE  /\ Good(a, t) /\ ~t.stopped
           /\ ~t.terminal => UsageSettled(t) /\ t.usage = Knows(s, c)
<1>0. ChunkParts(c) BY ChunkFacts
<1>1. CASE c.kind = "error" \/ ~Valid(s, c)
    <2>. DEFINE kind == IF c.kind = "error" THEN "upstream" ELSE "api_error"
    <2>1. CASE c.kind = "error" 
        <3>1. t = Terminate(s, kind) BY <2>1 DEF Translate
        <3>. HIDE DEF kind
        <3>. QED BY <3>1, TerminateGood
    <2>2. CASE c.kind # "error" /\ ~Valid(s, c)
        <3>1. t = Terminate(s, "api_error") BY <2>2 DEF Translate
        <3>2. t = Terminate(s, kind) BY <2>2, <3>1
        <3>. HIDE DEF kind
        <3>. QED BY <3>2, TerminateGood
    <2>. QED BY <1>1, <2>1, <2>2
<1>2. CASE c.kind # "error" /\ Valid(s, c)
    <2>. DEFINE e == Establish(s, c)
    <2>1. e = Establish(s, c) OBVIOUS
    <2>. HIDE DEF e
    <2>2. /\ Good(a, e) /\ Same(s, e, ChatFields \ {"chat", "tier", "usage"})
          /\ e.usage = Knows(s, c)
        BY <1>0, <2>1, EstablishGood
    <2>3. /\ ~e.terminal /\ ~e.stopped /\ e.pending = s.pending /\ e.tools = s.tools
          /\ e.pendingUsage = s.pendingUsage
        <3>1. e.pending = s.pending /\ e.tools = s.tools /\ e.pendingUsage = s.pendingUsage
              /\ (e.terminal <=> s.terminal)
            BY <2>2 DEF Same, ChatFields
        <3>. QED BY <2>2, <3>1 DEF Good, Shape, PhaseShape
    <2>4. CASE c.kind = "usage"
        <3>1. t = TakeUsage(e, c) BY <1>2, <2>1, <2>4 DEF Translate
        <3>2. CASE e.pending = Absent \/ e.usageSeen
            <4>. DEFINE kind == "api_error"
            <4>1. t = Terminate(e, kind) BY <3>1, <3>2 DEF TakeUsage
            <4>. HIDE DEF kind
            <4>. QED BY <2>2, <2>3, <4>1, TerminateGood
        <3>3. CASE ~ (e.pending = Absent \/ e.usageSeen)
            <4>1. t = [e EXCEPT !.pendingUsage = c.usage, !.usageSeen = TRUE]
                BY <3>1, <3>3 DEF TakeUsage
            <4>2. Shape(e) /\ IsRec(ChatFields, e) BY <2>2 DEF Good, Shape
            <4>3. /\ IsRec(ChatFields, t) /\ t.pendingUsage = c.usage
                  /\ Same(e, t, ChatFields \ {"pendingUsage", "usageSeen"})
                BY <4>1, <4>2 DEF IsRec, ChatFields, Same
            <4>4. /\ t.tools = e.tools /\ t.deferred = e.deferred /\ t.index = e.index
                  /\ t.spent = e.spent /\ t.active = e.active /\ t.content = e.content
                  /\ t.refusal = e.refusal /\ t.usage = e.usage /\ t.out = e.out
                  /\ t.pending = e.pending
                BY <4>3 DEF Same, ChatFields
            <4>5. /\ (t.open <=> e.open) /\ (t.thinking <=> e.thinking) /\ (t.begun <=> e.begun)
                  /\ (t.terminal <=> e.terminal) /\ (t.stopped <=> e.stopped)
                BY <4>3 DEF Same, ChatFields
            <4>6. ToolsShape(t) BY <4>2, <4>4, <4>5 DEF Shape, ToolsShape
            <4>7. DeferredShape(t) BY <4>2, <4>4 DEF Shape, DeferredShape
            <4>8. ActiveShape(t) BY <4>2, <4>4, <4>5 DEF Shape, ActiveShape
            <4>9. PhaseShape(t) BY <4>2, <4>4, <4>5 DEF Shape, PhaseShape
            <4>10. IsSeq(c.usage) BY <1>0 DEF ChunkParts
            <4>11. NumberShape(t) BY <4>2, <4>3, <4>4, <4>10 DEF Shape, NumberShape
            <4>12. Shape(t) BY <4>3, <4>6, <4>7, <4>8, <4>9, <4>11 DEF Shape
            <4>13. ChatStage(t) = ChatStage(e)
                <5>1. ToolOpen(t) <=> ToolOpen(e) BY <4>4, <4>5 DEF ToolOpen
                <5>. QED BY <2>3, <4>4, <4>5, <5>1 DEF ChatStage
            <4>14. Knows(s, c) = c.usage BY <1>2, <2>4 DEF Valid, Knows
            <4>. QED BY <2>2, <2>3, <4>3, <4>4, <4>5, <4>12, <4>13, <4>14 DEF Good, UsageSettled
        <3>. QED BY <3>2, <3>3
    <2>5. CASE c.kind # "usage"
        <3>. DEFINE u == TakeChoice(e, c)
        <3>1. t = OrMalformed(u) /\ u = TakeChoice(e, c) BY <1>2, <2>1, <2>5 DEF Translate
        <3>. HIDE DEF u
        <3>2. c.kind = "choice" /\ e.pending = Absent /\ ToolsFit(s, c.tools)
            BY <1>2, <2>3, <2>5 DEF Valid
        <3>3. InOrder(e, c.tools)
            <4>1. DOMAIN c.tools = 1 .. Len(c.tools) BY DEF ChunkShape
            <4>2. \A i \in DOMAIN c.tools : First(s, c.tools[i]) => c.tools[i].index = KnownWith(s, c.tools, i)
                BY <3>2 DEF ToolsFit
            <4>3. InOrder(s, c.tools) BY <4>1, <4>2, ChunkFacts DEF InOrder
            <4>. QED BY <2>3, <4>3, InOrderSame
        <3>4. Good(a, u) /\ ~u.terminal /\ u.usage = e.usage /\ UsageSettled(u)
            BY <1>0, <2>2, <2>3, <3>1, <3>2, <3>3, TakeChoiceGood
        <3>5. CASE u.ok
            <4>1. t = u BY <3>1, <3>5 DEF OrMalformed
            <4>2. ~u.stopped BY <3>4 DEF Good, Shape, PhaseShape
            <4>. QED BY <2>2, <3>4, <4>1, <4>2
        <3>6. CASE ~u.ok
            <4>. DEFINE kind == "api_error"
            <4>1. t = Terminate(u, kind) BY <3>1, <3>6 DEF OrMalformed
            <4>. HIDE DEF kind
            <4>. QED BY <3>4, <4>1, TerminateGood
        <3>. QED BY <3>5, <3>6
    <2>. QED BY <2>4, <2>5
<1>. QED BY <1>1, <1>2

LEMMA NothingBefore == ASSUME NEW q, IsSeq(q) PROVE <<>> \o q = q
<1>1. PICK S : q \in Seq(S) BY DEF IsSeq
<1>. QED BY <1>1, ConcatEmptySeq

LEMMA FlushGood ==
    ASSUME NEW a, NEW s, NEW t, Good(a, s), ~s.terminal, UsageSettled(s), t = Flush(s)
    PROVE  Good(a, t) /\ t.terminal /\ (t.stopped => t.pendingUsage = s.usage)
<1>. DEFINE n == IF s.tier = Absent THEN 0 ELSE 1
            r == Reserve(s, n)
            kind == "api_error"
<1>1. n \in Nat /\ r = Reserve(s, n) OBVIOUS
<1>2. t = IF s.pending = Absent \/ ~r.ok THEN Terminate(s, kind)
          ELSE [Emit(r, <<MessageDelta(r.pending, r.pendingUsage), MessageStop>>) EXCEPT
                   !.pending = Absent, !.stopped = TRUE, !.terminal = TRUE]
    BY DEF Flush
<1>. HIDE DEF n, r, kind
<1>3. CASE s.pending = Absent \/ ~r.ok
    <2>1. t = Terminate(s, kind) BY <1>2, <1>3
    <2>. QED BY <2>1, TerminateGood
<1>4. CASE s.pending # Absent /\ r.ok
    <2>. DEFINE d == MessageDelta(r.pending, r.pendingUsage)
                m == MessageStop
                q == <<d, m>>
                e == Emit(r, q)
    <2>1. Good(a, r) /\ Same(s, r, ChatFields \ {"ok", "spent"}) BY <1>1, ReserveGood
    <2>2. /\ Shape(r) /\ IsRec(ChatFields, r) /\ r.pending # Absent /\ r.pendingUsage = s.usage
        BY <1>4, <2>1 DEF Good, Shape, UsageSettled, Same, ChatFields
    <2>3. /\ ~r.open /\ ~r.thinking /\ r.begun /\ ~r.terminal /\ ~r.stopped /\ IsSeq(r.pendingUsage)
        BY <2>2 DEF Shape, PhaseShape, NumberShape
    <2>4. t = [e EXCEPT !.pending = Absent, !.stopped = TRUE, !.terminal = TRUE] BY <1>2, <1>4
    <2>5. e = Emit(r, q) /\ q = <<d, m>> OBVIOUS
    <2>6. /\ d.type = "message_delta" /\ d.body = r.pendingUsage /\ m.type = "message_stop"
        BY DEF MessageDelta, MessageStop, Event
    <2>. HIDE DEF d, m, q, e
    <2>7. IsRec(ChatFields, e) /\ Differ(ChatFields, r, e, {"out"}) /\ e.out = r.out \o q
        BY <2>2, <2>5, EmitChat
    <2>8. /\ IsRec(ChatFields, t) /\ t.pending = Absent /\ t.stopped = TRUE /\ t.terminal = TRUE
          /\ Same(e, t, ChatFields \ {"pending", "stopped", "terminal"})
        BY <2>4, <2>7 DEF IsRec, ChatFields, Same
    <2>9. t.out = r.out \o q /\ Same(r, t, ChatFields \ {"pending", "stopped", "terminal", "out"})
        BY <2>7, <2>8 DEF Differ, Same, ChatFields
    <2>10. /\ t.tools = r.tools /\ t.deferred = r.deferred /\ t.index = r.index /\ t.spent = r.spent
           /\ t.active = r.active /\ t.content = r.content /\ t.refusal = r.refusal
           /\ t.usage = r.usage /\ t.pendingUsage = r.pendingUsage
           /\ (t.open <=> r.open) /\ (t.thinking <=> r.thinking)
        BY <2>9 DEF Same, ChatFields
    <2>11. ToolsShape(t) BY <2>2, <2>10 DEF Shape, ToolsShape
    <2>12. DeferredShape(t) BY <2>2, <2>10 DEF Shape, DeferredShape
    <2>13. ActiveShape(t) BY <2>2, <2>10 DEF Shape, ActiveShape
    <2>14. PhaseShape(t) BY <2>3, <2>8, <2>10 DEF PhaseShape
    <2>15. NumberShape(t) BY <2>2, <2>10 DEF Shape, NumberShape
    <2>16. Shape(t) BY <2>8, <2>11, <2>12, <2>13, <2>14, <2>15 DEF Shape
    <2>. DEFINE mid == Stage("stopping", <<>>, r.index, r.pendingUsage)
    <2>17. ChatStage(r) = Stage("message", <<>>, r.index, <<>>) BY <2>3 DEF ChatStage
    <2>18. ChatStage(t) = Stage("stopped", <<>>, r.index, r.pendingUsage)
        BY <2>3, <2>8, <2>10 DEF ChatStage
    <2>19. <<>> \o d.body = r.pendingUsage BY <2>3, <2>6, NothingBefore
    <2>20. Allowed("chat", ChatStage(r), d, mid)
        <3>. DEFINE v == ChatStage(r)
        <3>1. v.phase = "message" /\ v.open = <<>> /\ v.next = r.index /\ v.told = <<>>
            BY <2>17, StageFields
        <3>2. mid = Stage("stopping", <<>>, v.next, v.told \o d.body) BY <2>19, <3>1
        <3>. HIDE DEF v, mid
        <3>3. Allowed("chat", v, d, mid) BY <2>6, <3>1, <3>2 DEF Allowed
        <3>. QED BY <3>3 DEF v
    <2>21. Allowed("chat", mid, m, ChatStage(t)) BY <2>6, <2>18, StageFields DEF Allowed
    <2>. HIDE DEF mid
    <2>22. Path("chat", a, t.out, ChatStage(t)) BY <2>1, <2>5, <2>9, <2>20, <2>21, PathAndTwo DEF Good
    <2>. QED BY <2>2, <2>8, <2>10, <2>16, <2>22 DEF Good
<1>. QED BY <1>3, <1>4


(***************************************************************************)
(* The client                                                              *)
(***************************************************************************)
ViewFields == {"phase", "open", "next", "last", "got", "told", "reason"}

\* Where a client is, as far as its flow is followed.
ViewStage(f, v) ==
    Stage(v.phase, IF f = "responses" THEN <<>> ELSE v.open,
          IF f = "responses" THEN 0 ELSE v.next, v.told)

\* A stream that failed or stopped says nothing more, and it fails with an error.
LEMMA AllowedPhases ==
    ASSUME NEW f, NEW a, NEW e, NEW b, Allowed(f, a, e, b)
    PROVE  a.phase \notin {"stopped", "failed"} /\ (b.phase = "failed" <=> e.type = "error")
BY StageFields DEF Allowed

LEMMA ErrorEnds ==
    ASSUME NEW f, NEW a, NEW q, NEW b, Path(f, a, q, b), a.phase # "failed"
    PROVE  HasError(q) <=> b.phase = "failed"
<1>1. PICK p : /\ p[0] = a /\ p[Len(q)] = b
               /\ \A i \in 1 .. Len(q) : Allowed(f, p[i - 1], q[i], p[i])
    BY DEF Path
<1>2. Len(q) \in Nat /\ DOMAIN q = 1 .. Len(q) BY SeqFacts DEF Path
<1>3. \A i \in 1 .. Len(q) : /\ p[i - 1].phase # "failed"
                             /\ p[i].phase = "failed" <=> q[i].type = "error"
    BY <1>1, AllowedPhases
<1>4. ASSUME HasError(q) PROVE b.phase = "failed"
    <2>1. PICK k \in 1 .. Len(q) : q[k].type = "error" BY <1>2, <1>4 DEF HasError
    <2>2. p[k].phase = "failed" BY <1>3, <2>1
    <2>3. CASE k = Len(q) BY <1>1, <2>2, <2>3
    <2>4. CASE k # Len(q)
        <3>1. k + 1 \in 1 .. Len(q) /\ (k + 1) - 1 = k
            <4>. DEFINE n == Len(q)
            <4>1. n \in Nat /\ k \in 1 .. n /\ k # n BY <1>2, <2>4
            <4>. HIDE DEF n
            <4>2. k + 1 \in 1 .. n /\ (k + 1) - 1 = k BY <4>1
            <4>. QED BY <4>2 DEF n
        <3>. QED BY <1>3, <2>2, <3>1
    <2>. QED BY <2>3, <2>4
<1>5. ASSUME b.phase = "failed" PROVE HasError(q)
    <2>1. Len(q) # 0 BY <1>1, <1>5
    <2>2. Len(q) \in 1 .. Len(q) BY <1>2, <2>1
    <2>3. q[Len(q)].type = "error" BY <1>1, <1>3, <1>5, <2>2
    <2>. QED BY <1>2, <2>2, <2>3 DEF HasError
<1>. QED BY <1>4, <1>5

Moves(v, w, e, phase, open, next, told) ==
    /\ IsRec(ViewFields, w) /\ w.last = e
    /\ w.phase = phase /\ w.open = open /\ w.next = next /\ w.told = told

LEMMA SeeFacts ==
    ASSUME NEW v, NEW e, NEW w, IsRec(ViewFields, v), w = See(v, e)
    PROVE  /\ e.type = "message_start" => Moves(v, w, e, "message", v.open, v.next, e.body)
           /\ e.type = "block_start" =>
                  Moves(v, w, e, v.phase, <<e.index, e.kind>>, e.index + 1, v.told)
           /\ e.type = "block_delta" => Moves(v, w, e, v.phase, v.open, v.next, v.told)
           /\ e.type = "block_stop" => Moves(v, w, e, v.phase, <<>>, v.next, v.told)
           /\ e.type = "message_delta" =>
                  Moves(v, w, e, "stopping", v.open, v.next, v.told \o e.body)
           /\ e.type = "message_stop" => Moves(v, w, e, "stopped", v.open, v.next, v.told)
           /\ e.type = "error" => Moves(v, w, e, "failed", v.open, v.next, v.told)
           /\ e.type = "ping" => Moves(v, w, e, v.phase, v.open, v.next, v.told)
<1>. DEFINE u == [v EXCEPT !.last = e]
<1>1. /\ IsRec(ViewFields, u) /\ u.last = e /\ u.phase = v.phase /\ u.open = v.open
      /\ u.next = v.next /\ u.told = v.told /\ u.got = v.got /\ u.reason = v.reason
    BY DEF IsRec, ViewFields
<1>2. w = CASE e.type = "message_start" -> [u EXCEPT !.phase = "message", !.told = e.body]
            [] e.type = "block_start" ->
                   [u EXCEPT !.open = <<e.index, e.kind>>, !.next = e.index + 1,
                             !.got = Append(@, Block(e.kind, e.body))]
            [] e.type = "block_delta" -> [u EXCEPT !.got[Len(v.got)].body = @ \o e.body]
            [] e.type = "block_stop" -> [u EXCEPT !.open = <<>>]
            [] e.type = "message_delta" ->
                   [u EXCEPT !.phase = "stopping", !.told = @ \o e.body, !.reason = e.kind]
            [] e.type = "message_stop" -> [u EXCEPT !.phase = "stopped"]
            [] e.type = "error" -> [u EXCEPT !.phase = "failed"]
            [] OTHER -> u
    BY DEF See
<1>. HIDE DEF u
<1>3. e.type = "message_start" => Moves(v, w, e, "message", v.open, v.next, e.body)
    BY <1>1, <1>2 DEF Moves, IsRec, ViewFields
<1>4. e.type = "block_start" =>
          Moves(v, w, e, v.phase, <<e.index, e.kind>>, e.index + 1, v.told)
    <2>. DEFINE o == <<e.index, e.kind>>  n == e.index + 1  g == Append(u.got, Block(e.kind, e.body))
    <2>1. e.type = "block_start" => w = [u EXCEPT !.open = o, !.next = n, !.got = g]
        BY <1>2
    <2>. HIDE DEF o, n, g
    <2>2. e.type = "block_start" => Moves(v, w, e, v.phase, o, n, v.told)
        BY <1>1, <2>1 DEF Moves, IsRec, ViewFields
    <2>. QED BY <2>2 DEF o, n
<1>5. e.type = "block_delta" => Moves(v, w, e, v.phase, v.open, v.next, v.told)
    <2>. DEFINE g == [u.got EXCEPT ![Len(v.got)].body = @ \o e.body]
    <2>1. e.type = "block_delta" => w = [u EXCEPT !.got = g]
        BY <1>1, <1>2 DEF IsRec, ViewFields
    <2>. HIDE DEF g
    <2>. QED BY <1>1, <2>1 DEF Moves, IsRec, ViewFields
<1>6. e.type = "block_stop" => Moves(v, w, e, v.phase, <<>>, v.next, v.told)
    BY <1>1, <1>2 DEF Moves, IsRec, ViewFields
<1>7. e.type = "message_delta" => Moves(v, w, e, "stopping", v.open, v.next, v.told \o e.body)
    <2>. DEFINE g == u.told \o e.body
    <2>1. e.type = "message_delta" =>
              w = [u EXCEPT !.phase = "stopping", !.told = g, !.reason = e.kind]
        BY <1>2
    <2>2. g = v.told \o e.body BY <1>1
    <2>. HIDE DEF g
    <2>3. e.type = "message_delta" => Moves(v, w, e, "stopping", v.open, v.next, g)
        BY <1>1, <2>1 DEF Moves, IsRec, ViewFields
    <2>. QED BY <2>2, <2>3
<1>8. e.type = "message_stop" => Moves(v, w, e, "stopped", v.open, v.next, v.told)
    BY <1>1, <1>2 DEF Moves, IsRec, ViewFields
<1>9. e.type = "error" => Moves(v, w, e, "failed", v.open, v.next, v.told)
    BY <1>1, <1>2 DEF Moves, IsRec, ViewFields
<1>10. e.type = "ping" => Moves(v, w, e, v.phase, v.open, v.next, v.told)
    BY <1>1, <1>2 DEF Moves, IsRec, ViewFields
<1>. QED BY <1>3, <1>4, <1>5, <1>6, <1>7, <1>8, <1>9, <1>10

\* An event that is allowed takes the client where it says.
LEMMA SeeAllowed ==
    ASSUME NEW f, NEW v, NEW e, NEW b, IsRec(ViewFields, v), Allowed(f, ViewStage(f, v), e, b)
    PROVE  IsRec(ViewFields, See(v, e)) /\ See(v, e).last = e /\ ViewStage(f, See(v, e)) = b
<1>. DEFINE a == ViewStage(f, v)  w == See(v, e)
<1>1. a.phase = v.phase /\ a.told = v.told /\ (f # "responses" => a.open = v.open /\ a.next = v.next)
      /\ (f = "responses" => a.open = <<>> /\ a.next = 0)
      /\ a = Stage(a.phase, a.open, a.next, a.told)
    BY StageFields DEF ViewStage
<1>2. w = See(v, e) /\ a = ViewStage(f, v) OBVIOUS
<1>. HIDE DEF w, a
<1>3. CASE e.type = "message_start"
    <2>1. Moves(v, w, e, "message", v.open, v.next, e.body) BY <1>2, <1>3, SeeFacts
    <2>2. b = Stage("message", a.open, a.next, e.body) BY <1>2, <1>3 DEF Allowed
    <2>. QED BY <1>1, <1>2, <2>1, <2>2 DEF Moves, ViewStage
<1>4. CASE e.type = "block_start"
    <2>1. Moves(v, w, e, v.phase, <<e.index, e.kind>>, e.index + 1, v.told) BY <1>2, <1>4, SeeFacts
    <2>2. CASE f = "responses"
        <3>1. b = a BY <1>2, <1>4, <2>2 DEF Allowed
        <3>. QED BY <1>1, <1>2, <2>1, <2>2, <3>1 DEF Moves, ViewStage
    <2>3. CASE f # "responses"
        <3>1. b = Stage("message", <<a.next, e.kind>>, a.next + 1, a.told) /\ e.index = a.next
              /\ a.phase = "message"
            BY <1>2, <1>4, <2>3 DEF Allowed
        <3>. QED BY <1>1, <1>2, <2>1, <2>3, <3>1 DEF Moves, ViewStage
    <2>. QED BY <2>2, <2>3
<1>5. CASE e.type \in {"block_delta", "ping"}
    <2>1. Moves(v, w, e, v.phase, v.open, v.next, v.told) BY <1>2, <1>5, SeeFacts
    <2>2. b = a BY <1>2, <1>5 DEF Allowed
    <2>. QED BY <1>1, <1>2, <2>1, <2>2 DEF Moves, ViewStage
<1>6. CASE e.type = "block_stop"
    <2>1. Moves(v, w, e, v.phase, <<>>, v.next, v.told) BY <1>2, <1>6, SeeFacts
    <2>2. CASE f = "responses"
        <3>1. b = a BY <1>2, <1>6, <2>2 DEF Allowed
        <3>. QED BY <1>1, <1>2, <2>1, <2>2, <3>1 DEF Moves, ViewStage
    <2>3. CASE f # "responses"
        <3>1. b = Stage("message", <<>>, a.next, a.told) /\ a.phase = "message"
            BY <1>2, <1>6, <2>3 DEF Allowed
        <3>. QED BY <1>1, <1>2, <2>1, <2>3, <3>1 DEF Moves, ViewStage
    <2>. QED BY <2>2, <2>3
<1>7. CASE e.type = "message_delta"
    <2>1. Moves(v, w, e, "stopping", v.open, v.next, v.told \o e.body) BY <1>2, <1>7, SeeFacts
    <2>2. b = Stage("stopping", <<>>, a.next, a.told \o e.body) /\ a.open = <<>>
        BY <1>2, <1>7 DEF Allowed
    <2>. QED BY <1>1, <1>2, <2>1, <2>2 DEF Moves, ViewStage
<1>8. CASE e.type = "message_stop"
    <2>1. Moves(v, w, e, "stopped", v.open, v.next, v.told) BY <1>2, <1>8, SeeFacts
    <2>2. b = Stage("stopped", a.open, a.next, a.told) BY <1>2, <1>8 DEF Allowed
    <2>. QED BY <1>1, <1>2, <2>1, <2>2 DEF Moves, ViewStage
<1>9. CASE e.type = "error"
    <2>1. Moves(v, w, e, "failed", v.open, v.next, v.told) BY <1>2, <1>9, SeeFacts
    <2>2. b = Stage("failed", a.open, a.next, a.told) BY <1>2, <1>9 DEF Allowed
    <2>. QED BY <1>1, <1>2, <2>1, <2>2 DEF Moves, ViewStage
<1>. QED BY <1>2, <1>3, <1>4, <1>5, <1>6, <1>7, <1>8, <1>9 DEF Allowed

\* To deliver an allowed event is a step of the protocol.
LEMMA SeeImplements ==
    ASSUME NEW b, IsRec(ViewFields, view), flow # "responses", flow' = flow, queue # <<>>,
           NEW e, view' = See(view, e), Allowed(flow, ViewStage(flow, view), e, b)
    PROVE  Promised!Next
<1>. DEFINE a == ViewStage(flow, view)
<1>1. a.phase = view.phase /\ a.told = view.told /\ a.open = view.open /\ a.next = view.next
    BY StageFields DEF ViewStage
<1>2. view'.last = e BY SeeAllowed
<1>3. /\ a = ViewStage(flow, view) /\ b = ViewStage(flow, view')
    BY SeeAllowed
<1>. HIDE DEF a
<1>4. /\ b.phase = view'.phase /\ b.open = view'.open /\ b.next = view'.next
    BY <1>3, StageFields DEF ViewStage
<1>5. Allowed(flow, a, e, b) BY <1>3
<1>6. (flow = "messages") = (flow' = "messages") OBVIOUS
<1>7. CASE e.type = "message_start"
    <2>1. Promised!Start BY <1>1, <1>2, <1>4, <1>5, <1>7, StageFields DEF Allowed, Promised!Start
    <2>. QED BY <1>6, <2>1 DEF Promised!Next
<1>8. CASE e.type = "block_start"
    <2>1. Promised!OpenBlock
        BY <1>1, <1>2, <1>4, <1>5, <1>8, StageFields DEF Allowed, Promised!OpenBlock
    <2>. QED BY <1>6, <2>1 DEF Promised!Next
<1>9. CASE e.type = "block_delta"
    <2>1. Promised!Delta
        BY <1>1, <1>2, <1>4, <1>5, <1>9, StageFields DEF Allowed, Promised!Delta
    <2>. QED BY <1>6, <2>1 DEF Promised!Next
<1>10. CASE e.type = "block_stop"
    <2>1. Promised!CloseBlock
        BY <1>1, <1>2, <1>4, <1>5, <1>10, StageFields DEF Allowed, Promised!CloseBlock
    <2>. QED BY <1>6, <2>1 DEF Promised!Next
<1>11. CASE e.type = "message_delta"
    <2>1. Promised!Complete
        BY <1>1, <1>2, <1>4, <1>5, <1>11, StageFields DEF Allowed, Promised!Complete
    <2>. QED BY <1>6, <2>1 DEF Promised!Next
<1>12. CASE e.type = "message_stop"
    <2>1. Promised!Stop BY <1>1, <1>2, <1>4, <1>5, <1>12, StageFields DEF Allowed, Promised!Stop
    <2>. QED BY <1>6, <2>1 DEF Promised!Next
<1>13. CASE e.type = "error"
    <2>1. Promised!Fail BY <1>1, <1>2, <1>4, <1>5, <1>13, StageFields DEF Allowed, Promised!Fail
    <2>. QED BY <1>6, <2>1 DEF Promised!Next
<1>14. CASE e.type = "ping"
    <2>1. Promised!Ping BY <1>1, <1>2, <1>4, <1>5, <1>14, StageFields DEF Allowed, Promised!Ping
    <2>. QED BY <1>6, <2>1 DEF Promised!Next
<1>. QED BY <1>5, <1>7, <1>8, <1>9, <1>10, <1>11, <1>12, <1>13, <1>14 DEF Allowed


(***************************************************************************)
(* The Chat flow                                                           *)
(***************************************************************************)
\* The client is where the events it has leave it, those not yet written take it to
\* where the translator is, and the flow knows of the tokens the translator knows of.
ChatInv ==
    /\ IsRec(ViewFields, view)
    /\ Shape(st) /\ st.out = <<>> /\ UsageSettled(st)
    /\ Path("chat", ViewStage("chat", view), queue, ChatStage(st))
    /\ conn = "open" <=> ~st.terminal
    /\ conn = "open" => st.usage = usage
    /\ st.stopped => st.pendingUsage = usage
    /\ conn # "ended" => recorded = <<>>
    /\ conn = "ended" => queue = <<>> /\ recorded = <<usage>>

\* The events of a step are taken out of the translator's state.
LEMMA Handed ==
    ASSUME NEW a, NEW t, Good(a, t), NEW s, s = [t EXCEPT !.out = <<>>]
    PROVE  /\ Shape(s) /\ s.out = <<>> /\ Path("chat", a, t.out, ChatStage(s))
           /\ (UsageSettled(t) => UsageSettled(s)) /\ s.usage = t.usage /\ s.pendingUsage = t.pendingUsage
           /\ (s.terminal <=> t.terminal) /\ (s.stopped <=> t.stopped)
<1>1. Shape(t) /\ IsRec(ChatFields, t) BY DEF Good, Shape
<1>2. IsRec(ChatFields, s) /\ Differ(ChatFields, t, s, {"out"}) /\ s.out = <<>>
    BY <1>1 DEF IsRec, ChatFields, Differ
<1>3. Shape(s) /\ ChatStage(s) = ChatStage(t) BY <1>1, <1>2, SameShape
<1>4. /\ s.pending = t.pending /\ s.usage = t.usage /\ s.pendingUsage = t.pendingUsage
      /\ (s.terminal <=> t.terminal) /\ (s.stopped <=> t.stopped)
    BY <1>2 DEF Differ, ChatFields
<1>. QED BY <1>2, <1>3, <1>4 DEF Good, UsageSettled

\* A flow with nothing to write.
LEMMA NothingToWrite ==
    ASSUME ChatInv, conn = "open", queue = <<>>
    PROVE  /\ Good(ViewStage("chat", view), st) /\ ~st.terminal /\ UsageSettled(st) /\ st.usage = usage
           /\ ViewStage("chat", view).phase \in {"before", "message"}
<1>1. ViewStage("chat", view) = ChatStage(st) BY PathOfNothing DEF ChatInv
<1>2. Path("chat", ViewStage("chat", view), st.out, ChatStage(st)) BY <1>1, PathEmpty DEF ChatInv
<1>3. ~st.terminal /\ ~st.stopped BY DEF ChatInv, Shape, PhaseShape
<1>4. ChatStage(st).phase \in {"before", "message"} BY <1>3, StageFields DEF ChatStage
<1>. QED BY <1>1, <1>2, <1>3, <1>4 DEF Good, ChatInv

LEMMA ChatInit == ASSUME Init, flow = "chat" PROVE ChatInv
<1>1. PICK b \in BOOLEAN : st = ChatState(b) BY DEF Init
<1>2. queue = <<>> /\ view = NoView /\ usage = <<>> /\ recorded = <<>> /\ conn = "open" BY DEF Init
<1>3. IsRec(ViewFields, view) BY <1>2 DEF NoView, IsRec, ViewFields
<1>4. IsRec(ChatFields, st) BY <1>1 DEF ChatState, IsRec, ChatFields
<1>5. /\ st.out = <<>> /\ st.tools = <<>> /\ st.deferred = <<>> /\ st.index = 0 /\ st.active = 0
      /\ st.spent = 0 /\ st.content = <<>> /\ st.refusal = <<>> /\ st.usage = <<>>
      /\ st.pendingUsage = <<>> /\ st.pending = Absent
      /\ ~st.open /\ ~st.thinking /\ ~st.begun /\ ~st.terminal /\ ~st.stopped
    BY <1>1 DEF ChatState
<1>6. MaxBytes \in Nat BY MaxBytesAssumption
<1>7. DOMAIN <<>> = {} OBVIOUS
<1>8. ToolsShape(st) BY <1>5, <1>7, ShortSeqs DEF ToolsShape
<1>9. DeferredShape(st) BY <1>5, <1>7, ShortSeqs DEF DeferredShape
<1>10. ActiveShape(st) /\ PhaseShape(st) BY <1>5 DEF ActiveShape, PhaseShape
<1>11. NumberShape(st) BY <1>5, <1>6, ShortSeqs DEF NumberShape
<1>12. Shape(st) BY <1>4, <1>8, <1>9, <1>10, <1>11 DEF Shape
<1>13. ViewStage("chat", view) = ChatStage(st)
    <2>1. ViewStage("chat", view) = Stage("before", <<>>, 0, <<>>) BY <1>2 DEF ViewStage, NoView
    <2>2. ChatStage(st) = Stage("before", <<>>, 0, <<>>) BY <1>5 DEF ChatStage
    <2>. QED BY <2>1, <2>2
<1>14. Path("chat", ViewStage("chat", view), queue, ChatStage(st)) BY <1>2, <1>13, PathEmpty
<1>. QED BY <1>2, <1>3, <1>5, <1>12, <1>14 DEF ChatInv, UsageSettled

\* The translator ends the stream.
LEMMA ChatLeave ==
    ASSUME ChatInv, flow = "chat", conn = "open", queue = <<>>, NEW t, Leave(t),
           Good(ViewStage("chat", view), t), t.terminal, t.stopped => t.pendingUsage = usage,
           UsageSettled(t)
    PROVE  ChatInv'
<1>1. /\ conn' = "cut" /\ queue' = t.out /\ st' = [t EXCEPT !.out = <<>>]
      /\ view' = view /\ usage' = usage /\ recorded' = recorded
    BY DEF Leave
<1>2. /\ Shape(st') /\ st'.out = <<>> /\ Path("chat", ViewStage("chat", view), t.out, ChatStage(st'))
      /\ UsageSettled(st') /\ st'.pendingUsage = t.pendingUsage
      /\ (st'.terminal <=> t.terminal) /\ (st'.stopped <=> t.stopped)
    BY <1>1, Handed
<1>. QED BY <1>1, <1>2 DEF ChatInv

LEMMA ChatReceive ==
    ASSUME ChatInv, flow = "chat", ReceiveChunk
    PROVE  ChatInv'
<1>. DEFINE a == ViewStage("chat", view)
<1>1. conn = "open" /\ queue = <<>> BY DEF ReceiveChunk, Reading, Waiting
<1>2. PICK c \in Chunks :
          LET t == Translate(st, c)
          IN  /\ st' = [t EXCEPT !.out = <<>>] /\ queue' = t.out
              /\ usage' = IF ~st.terminal /\ ~HasError(t.out) /\ c.usage # <<>>
                          THEN c.usage ELSE usage
              /\ conn' = IF HasError(t.out) THEN "closing" ELSE conn
    BY DEF ReceiveChunk
<1>. DEFINE t == Translate(st, c)
<1>3. t = Translate(st, c) /\ a = ViewStage("chat", view) OBVIOUS
<1>4. /\ st' = [t EXCEPT !.out = <<>>] /\ queue' = t.out
      /\ usage' = IF ~st.terminal /\ ~HasError(t.out) /\ c.usage # <<>> THEN c.usage ELSE usage
      /\ conn' = IF HasError(t.out) THEN "closing" ELSE conn
      /\ view' = view /\ recorded' = recorded
    BY <1>2 DEF ReceiveChunk
<1>. HIDE DEF t, a
<1>5. c \in ChunkShape BY ChunksAssumption
<1>6. Good(a, st) /\ ~st.terminal /\ UsageSettled(st) /\ st.usage = usage
      /\ a.phase \in {"before", "message"}
    BY <1>1, <1>3, NothingToWrite
<1>7. /\ Good(a, t) /\ ~t.stopped
      /\ ~t.terminal => UsageSettled(t) /\ t.usage = Knows(st, c)
    BY <1>3, <1>5, <1>6, TranslateGood
<1>8. Shape(t) /\ Path("chat", a, t.out, ChatStage(t)) BY <1>7 DEF Good
<1>9. HasError(t.out) <=> ChatStage(t).phase = "failed" BY <1>6, <1>8, ErrorEnds
<1>10. ChatStage(t).phase = "failed" <=> t.terminal BY <1>7, StageFields DEF ChatStage
<1>11. UsageSettled(t)
    <2>1. t.terminal => t.pending = Absent BY <1>8 DEF Shape, PhaseShape
    <2>. QED BY <1>7, <2>1 DEF UsageSettled
<1>12. /\ Shape(st') /\ st'.out = <<>> /\ Path("chat", a, t.out, ChatStage(st'))
       /\ UsageSettled(st') /\ st'.usage = t.usage
       /\ (st'.terminal <=> t.terminal) /\ ~st'.stopped
    BY <1>4, <1>7, <1>11, Handed
<1>13. conn' = "open" <=> ~t.terminal BY <1>1, <1>4, <1>9, <1>10
<1>14. ~t.terminal => st'.usage = usage' BY <1>4, <1>6, <1>7, <1>9, <1>10, <1>12 DEF Knows
<1>15. conn # "ended" /\ conn' # "ended" /\ recorded' = <<>> BY <1>1, <1>4 DEF ChatInv
<1>. QED BY <1>3, <1>4, <1>12, <1>13, <1>14, <1>15 DEF ChatInv

LEMMA ChatStep ==
    ASSUME ChatInv, flow = "chat", conn # "gone", Next, conn' # "gone"
    PROVE  ChatInv'
<1>. DEFINE a == ViewStage("chat", view)
<1>0. ~Tells BY DEF Tells
<1>1. CASE ReceiveChunk BY <1>1, ChatReceive
<1>2. CASE ReceiveCreated \/ ReceiveItemEvent \/ ReceiveReplay \/ ReceiveTerminal \/ ReceiveFault
    BY <1>0, <1>2 DEF ReceiveCreated, ReceiveItemEvent, ReceiveReplay, ReceiveTerminal,
                      ReceiveFault, Listening
<1>3. CASE ReceiveRelayed BY <1>3 DEF ReceiveRelayed, Reading
<1>4. CASE Heartbeat
    <2>1. /\ conn = "open" /\ queue = <<>> /\ queue' = <<PingFrame>>
          /\ view' = view /\ st' = st /\ usage' = usage /\ recorded' = recorded /\ conn' = conn
        BY <1>4 DEF Heartbeat, Waiting
    <2>2. a.phase \in {"before", "message"} /\ a = ChatStage(st)
        BY <2>1, NothingToWrite, PathOfNothing DEF ChatInv
    <2>3. PingFrame.type = "ping" BY DEF PingFrame, Event
    <2>4. Allowed("chat", a, PingFrame, a) BY <2>2, <2>3 DEF Allowed
    <2>5. Path("chat", a, <<PingFrame>>, ChatStage(st)) BY <2>2, <2>4, PathOne
    <2>. QED BY <2>1, <2>5 DEF ChatInv
<1>5. CASE Interrupt
    <2>. DEFINE kind == "api_error"  t == Terminate(st, kind)
    <2>1. conn = "open" /\ queue = <<>> /\ Leave(t) BY <1>5 DEF Interrupt, Waiting, Interrupted
    <2>2. t = Terminate(st, kind) OBVIOUS
    <2>. HIDE DEF t, kind
    <2>3. Good(a, st) /\ ~st.terminal BY <2>1, NothingToWrite
    <2>4. Good(a, t) /\ t.terminal /\ ~t.stopped
        <3>. HIDE DEF a
        <3>. QED BY <2>2, <2>3, TerminateGood
    <2>5. UsageSettled(t) BY <2>4 DEF Good, Shape, PhaseShape, UsageSettled
    <2>. QED BY <2>1, <2>4, <2>5, ChatLeave
<1>6. CASE EndOfStream
    <2>. DEFINE t == Flush(st)
    <2>1. conn = "open" /\ queue = <<>> /\ Leave(t) BY <1>6 DEF EndOfStream, Waiting
    <2>2. t = Flush(st) OBVIOUS
    <2>. HIDE DEF t
    <2>3. Good(a, st) /\ ~st.terminal /\ UsageSettled(st) /\ st.usage = usage BY <2>1, NothingToWrite
    <2>4. Good(a, t) /\ t.terminal /\ (t.stopped => t.pendingUsage = usage)
        <3>. HIDE DEF a
        <3>. QED BY <2>2, <2>3, FlushGood
    <2>5. UsageSettled(t) BY <2>4 DEF Good, Shape, PhaseShape, UsageSettled
    <2>. QED BY <2>1, <2>4, <2>5, ChatLeave
<1>7. CASE Deliver
    <2>1. /\ queue # <<>> /\ view' = See(view, Head(queue)) /\ queue' = Tail(queue)
          /\ st' = st /\ usage' = usage /\ recorded' = recorded /\ conn' = conn
          /\ conn \in {"open", "closing", "cut"}
        BY <1>7 DEF Deliver
    <2>2. PICK c : Allowed("chat", a, Head(queue), c) /\ Path("chat", c, Tail(queue), ChatStage(st))
        BY <2>1, PathHead DEF ChatInv
    <2>3. IsRec(ViewFields, view') /\ ViewStage("chat", view') = c
        BY <2>1, <2>2, SeeAllowed DEF ChatInv
    <2>4. Path("chat", ViewStage("chat", view'), queue', ChatStage(st')) BY <2>1, <2>2, <2>3
    <2>. QED BY <2>1, <2>3, <2>4 DEF ChatInv
<1>8. CASE Record
    <2>1. /\ queue = <<>> /\ conn \in {"closing", "cut"} /\ recorded' = Append(recorded, usage)
          /\ conn' = "ended" /\ queue' = queue /\ view' = view /\ st' = st /\ usage' = usage
        BY <1>8 DEF Record
    <2>2. recorded = <<>> BY <2>1 DEF ChatInv
    <2>3. recorded' = <<usage>> BY <2>1, <2>2
    <2>. QED BY <2>1, <2>3 DEF ChatInv
<1>9. CASE Disconnect BY <1>9 DEF Disconnect
<1>. QED BY <1>1, <1>2, <1>3, <1>4, <1>5, <1>6, <1>7, <1>8, <1>9 DEF Next

LEMMA ChatTokens == ASSUME ChatInv, flow = "chat" PROVE TokensAccounted
<1>1. ASSUME conn = "ended", view.phase = "stopped" PROVE usage = view.told
    <2>1. ViewStage("chat", view) = ChatStage(st) /\ st.terminal
        BY <1>1, PathOfNothing DEF ChatInv
    <2>2. ChatStage(st).phase = "stopped" /\ ChatStage(st).told = view.told
        BY <1>1, <2>1, StageFields DEF ViewStage
    <2>3. st.stopped BY <2>1, <2>2, StageFields DEF ChatStage
    <2>4. ChatStage(st).told = st.pendingUsage BY <2>3, StageFields DEF ChatStage
    <2>. QED BY <2>2, <2>3, <2>4 DEF ChatInv
<1>. QED BY <1>1 DEF ChatInv, TokensAccounted, Tells


(***************************************************************************)
(* The relayed flow                                                        *)
(***************************************************************************)
LEMMA SeenFacts ==
    ASSUME NEW r, IsSeq(r)
    PROVE  /\ SeenOf(r)[0] = NoView
           /\ \A k \in 1 .. Len(r) : SeenOf(r)[k] = See(SeenOf(r)[k - 1], r[k])
<1>. DEFINE n == Len(r)
            C(g, j) == g = [k \in 0 .. j |-> IF k = 0 THEN NoView ELSE See(g[k - 1], r[k])]
            T == {j \in 0 .. n : \E g : C(g, j)}
<1>0. n \in Nat BY SeqFacts
<1>1. C([k \in 0 .. 0 |-> NoView], 0) OBVIOUS
<1>2. 0 \in T
    <2>. HIDE DEF C
    <2>. QED BY <1>0, <1>1
<1>3. ASSUME NEW j \in 1 .. n, j - 1 \in T PROVE j \in T
    <2>1. PICK g : C(g, j - 1) BY <1>3
    <2>2. C([k \in 0 .. j |-> IF k = j THEN See(g[j - 1], r[j]) ELSE g[k]], j) BY <1>0, <2>1
    <2>. HIDE DEF C
    <2>. QED BY <1>0, <2>2
<1>4. n \in T
    <2>. HIDE DEF T, n
    <2>. QED BY <1>0, <1>2, <1>3, InductTo
<1>. DEFINE f == CHOOSE g : C(g, n)
<1>5. C(f, n) BY <1>4
<1>6. SeenOf(r) = f BY DEF SeenOf
<1>. HIDE DEF f
<1>7. f[0] = NoView /\ \A k \in 1 .. n : f[k] = See(f[k - 1], r[k]) BY <1>0, <1>5
<1>. QED BY <1>6, <1>7

Phases == {"before", "message", "stopping", "stopped", "failed"}

\* What the upstream may send is allowed, and no event leads back to the start.
LEMMA RelayAllowed ==
    ASSUME NEW v, NEW e, IsRec(ViewFields, v), MayRelay(v, e), IsSeq(e.body),
           v.phase \in Phases, v.phase = "before" => v.told = <<>>, NEW a, a = ViewStage("messages", v)
    PROVE  \E b : /\ Allowed("messages", a, e, b) /\ b = ViewStage("messages", See(v, e))
                  /\ b.told = IF e.type \in {"message_start", "message_delta"}
                              THEN v.told \o e.body ELSE v.told
                  /\ b.phase \in {"stopped", "failed"} <=> e.type \in {"message_stop", "error"}
                  /\ b.phase = "before" => a.phase = "before" /\ b.told = v.told
                  /\ b.phase \in Phases
<1>. DEFINE w == See(v, e)  b == ViewStage("messages", w)
<1>1. a.phase = v.phase /\ a.told = v.told /\ a.open = v.open /\ a.next = v.next
    BY StageFields DEF ViewStage
<1>2. w = See(v, e) /\ b = ViewStage("messages", w) OBVIOUS
<1>3. b = Stage(w.phase, w.open, w.next, w.told) BY DEF ViewStage
<1>4. b.phase = w.phase /\ b.told = w.told BY <1>3, StageFields
<1>. HIDE DEF w, b
<1>5. CASE e.type = "message_start"
    <2>1. Moves(v, w, e, "message", v.open, v.next, e.body) BY <1>2, <1>5, SeeFacts
    <2>2. v.phase = "before" BY <1>5 DEF MayRelay
    <2>3. v.told \o e.body = e.body BY <2>2, NothingBefore
    <2>4. Allowed("messages", a, e, b) BY <1>1, <1>3, <1>5, <2>1, <2>2 DEF Allowed, Moves
    <2>. QED BY <1>2, <1>4, <1>5, <2>1, <2>3, <2>4 DEF Moves, Phases
<1>6. CASE e.type = "block_start"
    <2>1. Moves(v, w, e, v.phase, <<e.index, e.kind>>, e.index + 1, v.told) BY <1>2, <1>6, SeeFacts
    <2>2. v.phase = "message" /\ v.open = <<>> /\ e.index = v.next BY <1>6 DEF MayRelay
    <2>3. Allowed("messages", a, e, b) BY <1>1, <1>3, <1>6, <2>1, <2>2 DEF Allowed, Moves
    <2>. QED BY <1>2, <1>4, <1>6, <2>1, <2>2, <2>3 DEF Moves
<1>7. CASE e.type = "block_delta"
    <2>1. Moves(v, w, e, v.phase, v.open, v.next, v.told) BY <1>2, <1>7, SeeFacts
    <2>2. v.phase = "message" /\ v.open # <<>> /\ e.index = v.open[1]
          /\ e.kind \in Promised!Deltas[v.open[2]]
        BY <1>7 DEF MayRelay
    <2>3. b = a BY <1>3, <2>1 DEF ViewStage, Moves
    <2>4. Allowed("messages", a, e, b) BY <1>1, <1>7, <2>2, <2>3 DEF Allowed
    <2>. QED BY <1>2, <1>4, <1>7, <2>1, <2>2, <2>4 DEF Moves
<1>8. CASE e.type = "block_stop"
    <2>1. Moves(v, w, e, v.phase, <<>>, v.next, v.told) BY <1>2, <1>8, SeeFacts
    <2>2. v.phase = "message" /\ v.open # <<>> /\ e.index = v.open[1] BY <1>8 DEF MayRelay
    <2>3. Allowed("messages", a, e, b) BY <1>1, <1>3, <1>8, <2>1, <2>2 DEF Allowed, Moves
    <2>. QED BY <1>2, <1>4, <1>8, <2>1, <2>2, <2>3 DEF Moves
<1>9. CASE e.type = "message_delta"
    <2>1. Moves(v, w, e, "stopping", v.open, v.next, v.told \o e.body) BY <1>2, <1>9, SeeFacts
    <2>2. v.phase = "message" /\ v.open = <<>> BY <1>9 DEF MayRelay
    <2>3. Allowed("messages", a, e, b) BY <1>1, <1>3, <1>9, <2>1, <2>2 DEF Allowed, Moves
    <2>. QED BY <1>2, <1>4, <1>9, <2>1, <2>3 DEF Moves, Phases
<1>10. CASE e.type = "message_stop"
    <2>1. Moves(v, w, e, "stopped", v.open, v.next, v.told) BY <1>2, <1>10, SeeFacts
    <2>2. v.phase = "stopping" BY <1>10 DEF MayRelay
    <2>3. Allowed("messages", a, e, b) BY <1>1, <1>3, <1>10, <2>1, <2>2 DEF Allowed, Moves
    <2>. QED BY <1>2, <1>4, <1>10, <2>1, <2>3 DEF Moves, Phases
<1>11. CASE e.type \notin {"message_start", "block_start", "block_delta", "block_stop",
                           "message_delta", "message_stop"}
    <2>1. e.type \in {"ping", "error"} /\ v.phase \in {"before", "message", "stopping"}
        BY <1>11 DEF MayRelay, Phases
    <2>2. CASE e.type = "ping"
        <3>1. Moves(v, w, e, v.phase, v.open, v.next, v.told) BY <1>2, <2>2, SeeFacts
        <3>2. b = a BY <1>3, <3>1 DEF ViewStage, Moves
        <3>3. Allowed("messages", a, e, b) BY <1>1, <2>1, <2>2, <3>2 DEF Allowed
        <3>. QED BY <1>1, <1>2, <1>4, <2>1, <2>2, <3>1, <3>3 DEF Moves, Phases
    <2>3. CASE e.type = "error"
        <3>1. Moves(v, w, e, "failed", v.open, v.next, v.told) BY <1>2, <2>3, SeeFacts
        <3>2. Allowed("messages", a, e, b) BY <1>1, <1>3, <2>1, <2>3, <3>1 DEF Allowed, Moves
        <3>. QED BY <1>1, <1>2, <1>4, <2>1, <2>3, <3>1, <3>2 DEF Moves, Phases
    <2>. QED BY <2>1, <2>2, <2>3
<1>. QED BY <1>5, <1>6, <1>7, <1>8, <1>9, <1>10, <1>11

\* The client has what was relayed but for what is not yet written, and its tokens
\* are known; an error of the proxy's own may follow.
RelayTarget(b) ==
    /\ Path("messages", ViewStage("messages", view), queue, b)
    /\ b.told = usage
    /\ conn = "open" =>
           /\ b = ViewStage("messages", SeenOf(answer)[sent])
           /\ b.phase \in {"before", "message", "stopping"}
           /\ b.phase = "before" => usage = <<>>

RelayInv ==
    /\ IsRec(ViewFields, view)
    /\ answer \in Relayed /\ sent \in 0 .. Len(answer) /\ IsRec(ViewFields, SeenOf(answer)[sent])
    /\ \E b : RelayTarget(b)
    /\ conn # "ended" => recorded = <<>>
    /\ conn = "ended" => queue = <<>> /\ recorded = <<usage>>

LEMMA RelayedFacts ==
    ASSUME NEW r \in Relayed
    PROVE  /\ IsSeq(r) /\ Len(r) \in Nat
           /\ \A k \in 1 .. Len(r) : MayRelay(SeenOf(r)[k - 1], r[k]) /\ IsSeq(r[k].body)
<1>1. /\ r \in Seq([type : STRING, index : Nat, kind : STRING, body : Text])
      /\ \A k \in 1 .. Len(r) : MayRelay(SeenOf(r)[k - 1], r[k])
    BY RelayedAssumption
<1>2. IsSeq(r) /\ Len(r) \in Nat BY <1>1 DEF IsSeq
<1>. DEFINE S == [type : STRING, index : Nat, kind : STRING, body : Text]
<1>3. \A k \in 1 .. Len(r) : r[k].body \in Text
    <2>1. \A x \in S : x.body \in Text OBVIOUS
    <2>. HIDE DEF S
    <2>2. r \in Seq(S) BY <1>1 DEF S
    <2>3. \A k \in 1 .. Len(r) : r[k] \in S BY <2>2
    <2>. QED BY <2>1, <2>3
<1>. QED BY <1>1, <1>2, <1>3, TextIsSeq

LEMMA NoViewFacts ==
    /\ IsRec(ViewFields, NoView) /\ NoView.phase = "before" /\ NoView.told = <<>>
    /\ ViewStage("messages", NoView) = Stage("before", <<>>, 0, <<>>)
BY DEF NoView, IsRec, ViewFields, ViewStage

LEMMA RelayInit == ASSUME Init, flow = "messages" PROVE RelayInv
<1>1. /\ answer \in Relayed /\ sent = 0 /\ queue = <<>> /\ view = NoView /\ usage = <<>>
      /\ recorded = <<>> /\ conn = "open"
    BY DEF Init, Tells
<1>2. IsSeq(answer) /\ Len(answer) \in Nat BY <1>1, RelayedFacts
<1>3. SeenOf(answer)[sent] = view BY <1>1, <1>2, SeenFacts
<1>. DEFINE b == ViewStage("messages", view)
<1>4. b.phase = "before" /\ b.told = <<>> BY <1>1, NoViewFacts, StageFields
<1>5. Path("messages", b, queue, b) BY <1>1, PathEmpty
<1>6. RelayTarget(b) BY <1>1, <1>3, <1>4, <1>5 DEF RelayTarget
<1>. QED BY <1>1, <1>2, <1>3, <1>6, NoViewFacts DEF RelayInv

LEMMA RelayStep ==
    ASSUME RelayInv, flow = "messages", conn # "gone", Next, conn' # "gone"
    PROVE  RelayInv'
<1>. DEFINE a == ViewStage("messages", view)
<1>0. ~Tells BY DEF Tells
<1>1. PICK b : RelayTarget(b) BY DEF RelayInv
<1>2. ASSUME queue = <<>>, conn = "open"
      PROVE  /\ a = b /\ b.phase \in {"before", "message", "stopping"}
             /\ b = ViewStage("messages", SeenOf(answer)[sent])
             /\ b.phase = "before" => usage = <<>>
    BY <1>1, <1>2, PathOfNothing DEF RelayTarget
<1>3. CASE ReceiveChunk BY <1>3 DEF ReceiveChunk, Reading
<1>4. CASE ReceiveCreated \/ ReceiveItemEvent \/ ReceiveReplay \/ ReceiveTerminal \/ ReceiveFault
    BY <1>0, <1>4 DEF ReceiveCreated, ReceiveItemEvent, ReceiveReplay, ReceiveTerminal,
                      ReceiveFault, Listening
<1>5. CASE ReceiveRelayed
    <2>. DEFINE e == answer[sent + 1]  v == SeenOf(answer)[sent]  w == SeenOf(answer)'[sent']
    <2>1. /\ conn = "open" /\ queue = <<>> /\ queue' = <<e>> /\ sent' = sent + 1
          /\ usage' = IF e.type \in {"message_start", "message_delta"} THEN usage \o e.body
                      ELSE usage
          /\ conn' = IF e.type \in {"message_stop", "error"} THEN "closing" ELSE conn
          /\ view' = view /\ recorded' = recorded /\ answer' = answer /\ sent < Len(answer)
        BY <1>5 DEF ReceiveRelayed, Reading, Waiting
    <2>2. /\ IsSeq(answer) /\ Len(answer) \in Nat /\ sent + 1 \in 1 .. Len(answer)
          /\ (sent + 1) - 1 = sent /\ answer \in Relayed
        BY <2>1, RelayedFacts DEF RelayInv
    <2>3. MayRelay(v, e) /\ IsSeq(e.body) BY <2>2, RelayedFacts
    <2>4. SeenOf(answer)[sent + 1] = See(v, e) BY <2>2, SeenFacts
    <2>5. IsRec(ViewFields, v) BY DEF RelayInv
    <2>6. v = SeenOf(answer)[sent] OBVIOUS
    <2>. HIDE DEF e, v
    <2>7. a = b /\ b = ViewStage("messages", v) /\ b.phase \in {"before", "message", "stopping"}
          /\ b.told = usage /\ (b.phase = "before" => usage = <<>>)
        BY <1>1, <1>2, <2>1, <2>6 DEF RelayTarget
    <2>8. v.phase = b.phase /\ v.told = b.told BY <2>7, StageFields DEF ViewStage
    <2>9. v.phase \in Phases /\ (v.phase = "before" => v.told = <<>>) BY <2>7, <2>8 DEF Phases
    <2>10. PICK c : /\ Allowed("messages", b, e, c) /\ c = ViewStage("messages", See(v, e))
                    /\ c.told = IF e.type \in {"message_start", "message_delta"}
                                THEN v.told \o e.body ELSE v.told
                    /\ c.phase \in {"stopped", "failed"} <=> e.type \in {"message_stop", "error"}
                    /\ c.phase = "before" => b.phase = "before" /\ c.told = v.told
                    /\ c.phase \in Phases
        BY <2>3, <2>5, <2>7, <2>9, RelayAllowed
    <2>11. IsRec(ViewFields, See(v, e)) BY <2>5, <2>7, <2>10, SeeAllowed
    <2>12. Path("messages", b, <<e>>, c) BY <2>10, PathOne
    <2>13. c.told = usage' BY <2>1, <2>7, <2>8, <2>10
    <2>14. conn' = "open" => c.phase \in {"before", "message", "stopping"}
        BY <2>1, <2>10 DEF Phases
    <2>15. c.phase = "before" => usage' = <<>> BY <2>7, <2>8, <2>10, <2>13
    <2>16. SeenOf(answer')[sent'] = See(v, e) BY <2>1, <2>4
    <2>17. RelayTarget(c)' BY <2>1, <2>7, <2>10, <2>12, <2>13, <2>14, <2>15, <2>16 DEF RelayTarget
    <2>18. conn # "ended" /\ conn' # "ended" /\ recorded' = <<>> BY <2>1 DEF RelayInv
    <2>19. sent' \in 0 .. Len(answer') BY <2>1, <2>2
    <2>20. IsRec(ViewFields, SeenOf(answer')[sent']) BY <2>11, <2>16
    <2>. QED BY <2>1, <2>2, <2>17, <2>18, <2>19, <2>20 DEF RelayInv
<1>6. CASE Heartbeat
    <2>1. /\ conn = "open" /\ queue = <<>> /\ queue' = <<PingFrame>> /\ answer' = answer
          /\ sent' = sent /\ view' = view /\ usage' = usage /\ recorded' = recorded /\ conn' = conn
        BY <1>6 DEF Heartbeat, Waiting
    <2>2. PingFrame.type = "ping" BY DEF PingFrame, Event
    <2>3. Allowed("messages", b, PingFrame, b) BY <1>2, <2>1, <2>2 DEF Allowed
    <2>4. Path("messages", a, <<PingFrame>>, b) BY <1>2, <2>1, <2>3, PathOne
    <2>5. RelayTarget(b)' BY <1>1, <2>1, <2>4 DEF RelayTarget
    <2>. QED BY <2>1, <2>5 DEF RelayInv
<1>7. CASE Interrupt \/ EndOfStream
    <2>. DEFINE kind == "api_error"  e == ErrorEvent(kind)  c == Stage("failed", b.open, b.next, b.told)
    <2>1. /\ conn = "open" /\ queue = <<>> /\ queue' = <<e>> /\ conn' = "cut" /\ answer' = answer
          /\ sent' = sent /\ view' = view /\ usage' = usage /\ recorded' = recorded
        BY <1>7 DEF Interrupt, EndOfStream, Leave, Interrupted, Waiting
    <2>2. e.type = "error" BY DEF ErrorEvent, Event
    <2>3. Allowed("messages", b, e, c) BY <1>2, <2>1, <2>2 DEF Allowed
    <2>4. c.told = b.told BY StageFields
    <2>. HIDE DEF e, c
    <2>5. Path("messages", a, <<e>>, c) BY <1>2, <2>1, <2>3, PathOne
    <2>6. RelayTarget(c)' BY <1>1, <2>1, <2>4, <2>5 DEF RelayTarget
    <2>. QED BY <2>1, <2>6 DEF RelayInv
<1>8. CASE Deliver
    <2>1. /\ queue # <<>> /\ view' = See(view, Head(queue)) /\ queue' = Tail(queue)
          /\ answer' = answer /\ sent' = sent
          /\ usage' = usage /\ recorded' = recorded /\ conn' = conn
          /\ conn \in {"open", "closing", "cut"}
        BY <1>8 DEF Deliver
    <2>2. PICK c : Allowed("messages", a, Head(queue), c) /\ Path("messages", c, Tail(queue), b)
        BY <1>1, <2>1, PathHead DEF RelayTarget
    <2>3. IsRec(ViewFields, view') /\ ViewStage("messages", view') = c
        BY <2>1, <2>2, SeeAllowed DEF RelayInv
    <2>4. Path("messages", ViewStage("messages", view'), queue', b) BY <2>1, <2>2, <2>3
    <2>5. RelayTarget(b)' BY <1>1, <2>1, <2>4 DEF RelayTarget
    <2>. QED BY <2>1, <2>3, <2>5 DEF RelayInv
<1>9. CASE Record
    <2>1. /\ queue = <<>> /\ conn \in {"closing", "cut"} /\ recorded' = Append(recorded, usage)
          /\ conn' = "ended" /\ queue' = queue /\ view' = view /\ usage' = usage
          /\ answer' = answer /\ sent' = sent
        BY <1>9 DEF Record
    <2>0. recorded = <<>> BY <2>1 DEF RelayInv
    <2>2. recorded' = <<usage>> BY <2>0, <2>1
    <2>3. RelayTarget(b)' BY <1>1, <2>1 DEF RelayTarget
    <2>. QED BY <2>1, <2>2, <2>3 DEF RelayInv
<1>10. CASE Disconnect BY <1>10 DEF Disconnect
<1>. QED BY <1>3, <1>4, <1>5, <1>6, <1>7, <1>8, <1>9, <1>10 DEF Next

LEMMA RelayTokens == ASSUME RelayInv, flow = "messages" PROVE TokensAccounted
<1>1. ASSUME conn = "ended" PROVE usage = view.told
    <2>1. PICK b : RelayTarget(b) BY DEF RelayInv
    <2>2. ViewStage("messages", view) = b BY <1>1, <2>1, PathOfNothing DEF RelayInv, RelayTarget
    <2>3. ViewStage("messages", view).told = view.told BY StageFields DEF ViewStage
    <2>. QED BY <2>1, <2>2, <2>3 DEF RelayTarget
<1>. QED BY <1>1 DEF RelayInv, TokensAccounted, Tells

(***************************************************************************)
(* The translator of Responses                                             *)
(***************************************************************************)
CoreFields == {"ok", "out", "begun", "completed", "failed", "last", "order"}

\* Events that only the blocks of a message see.
Quiet(q) == IsSeq(q) /\ \A k \in DOMAIN q : q[k].type \in {"block_start", "block_delta", "block_stop"}

\* Items with their arguments.
HasArgs(item) == "args" \in DOMAIN item /\ IsSeq(item.args)
Listed(items) == IsSeq(items) /\ \A k \in DOMAIN items : HasArgs(items[k])

\* An event as the upstream forms it: whatever ends an answer tells the tokens used.
Formed(e) ==
    /\ {"type", "item", "output", "usage"} \subseteq DOMAIN e
    /\ IsSeq(e.item.content) /\ HasArgs(e.item) /\ Listed(e.output) /\ IsSeq(e.usage)
    /\ e.type \in {"completed", "incomplete", "failed"} => e.usage # <<>>
LastTold(l) == l # <<>> => \E e : l = <<e>> /\ Formed(e)

Framed(s) == CoreFields \subseteq DOMAIN s /\ IsSeq(s.order)

\* A step inside a message: nothing but blocks reaches the client.
Follows(s, t) ==
    Framed(s) =>
        /\ Framed(t)
        /\ (t.begun <=> s.begun) /\ (t.completed <=> s.completed) /\ (t.failed <=> s.failed)
        /\ LastTold(s.last) => LastTold(t.last)
        /\ Quiet(s.out) => Quiet(t.out)

\* One that cannot fail.
Steady(s, t) == Follows(s, t) /\ (Framed(s) => (t.ok <=> s.ok))

LEMMA FollowsSelf == \A s : Steady(s, s)
BY DEF Follows, Steady

LEMMA FollowsOn ==
    ASSUME NEW s, NEW t, NEW u, Follows(s, t), Follows(t, u) PROVE Follows(s, u)
BY DEF Follows

LEMMA SteadyOn ==
    ASSUME NEW s, NEW t, NEW u, Steady(s, t), Steady(t, u) PROVE Steady(s, u)
BY DEF Follows, Steady

LEMMA FailFollows == \A s : Follows(s, Fail(s))
BY DEF Follows, Fail, Framed, CoreFields

LEMMA OwnFollows == ASSUME NEW s, NEW o, NEW n, NEW t, t = Own(s, o, n) PROVE Follows(s, t)
<1>. DEFINE v == With(s.owners, o, n)
<1>1. t \in {s, Fail(s), [s EXCEPT !.owners = v]} BY DEF Own
<1>. HIDE DEF v
<1>2. Follows(s, [s EXCEPT !.owners = v]) BY DEF Follows, Framed, CoreFields
<1>. QED BY <1>1, <1>2, FailFollows, FollowsSelf DEF Steady

LEMMA ResizeSteady == ASSUME NEW s, NEW o, NEW n, NEW t, t = Resize(s, o, n) PROVE Steady(s, t)
<1>. DEFINE v == IF n = 0 THEN Without(s.owners, o) ELSE With(s.owners, o, n)
<1>1. t = [s EXCEPT !.owners = v] BY DEF Resize
<1>. HIDE DEF v
<1>. QED BY <1>1 DEF Steady, Follows, Framed, CoreFields

LEMMA DisownFollows == ASSUME NEW s, NEW o, NEW t, t = Disown(s, o) PROVE Follows(s, t)
<1>. DEFINE n == 0  u == Resize(s, o, n)
<1>1. t \in {u, Fail(s)} BY DEF Disown
<1>2. u = Resize(s, o, n) OBVIOUS
<1>. HIDE DEF n, u
<1>3. Follows(s, u) BY <1>2, ResizeSteady DEF Steady
<1>. QED BY <1>1, <1>3, FailFollows

LEMMA DisownAllFollows == ASSUME NEW s, NEW os, NEW t, t = DisownAll(s, os) PROVE Follows(s, t)
<1>. DEFINE v == Restrict(s.owners, DOMAIN s.owners \ os)
<1>1. t \in {Fail(s), [s EXCEPT !.owners = v]} BY DEF DisownAll
<1>. HIDE DEF v
<1>2. Follows(s, [s EXCEPT !.owners = v]) BY DEF Follows, Framed, CoreFields
<1>. QED BY <1>1, <1>2, FailFollows

LEMMA CommitFollows == \A s : Follows(s, Commit(s))
BY FailFollows, FollowsSelf DEF Commit, Steady

LEMMA ReserveFollows == \A s, n : Follows(s, Reserve(s, n))
<1>. SUFFICES ASSUME NEW s, NEW n PROVE Follows(s, Reserve(s, n)) OBVIOUS
<1>. DEFINE v == s.spent + n
<1>1. Reserve(s, n) \in {Fail(s), [s EXCEPT !.spent = v]} BY DEF Reserve
<1>. HIDE DEF v
<1>2. Follows(s, [s EXCEPT !.spent = v]) BY DEF Follows, Framed, CoreFields
<1>. QED BY <1>1, <1>2, FailFollows

LEMMA AtomicFollows == ASSUME NEW s, NEW t, Follows(s, t) PROVE Follows(s, Atomic(s, t))
BY FailFollows DEF Atomic

LEMMA QuietEmit ==
    ASSUME NEW s, NEW q, Quiet(q), NEW t, t = Emit(s, q) PROVE Steady(s, t)
<1>1. ASSUME Quiet(s.out) PROVE Quiet(s.out \o q)
    <2>. DEFINE p == s.out  r == p \o q
    <2>1. IsSeq(p) /\ IsSeq(q) /\ DOMAIN p = 1 .. Len(p) /\ DOMAIN q = 1 .. Len(q) /\ Len(p) \in Nat
          /\ Len(q) \in Nat
        BY <1>1, SeqFacts DEF Quiet
    <2>2. /\ IsSeq(r) /\ Len(r) = Len(p) + Len(q) /\ \A i \in 1 .. Len(p) : r[i] = p[i]
          /\ \A i \in 1 .. Len(q) : r[Len(p) + i] = q[i]
        BY <2>1, JoinFacts
    <2>3. DOMAIN r = 1 .. Len(p) + Len(q) BY <2>2, SeqFacts
    <2>. DEFINE m == Len(p)  n == Len(q)
    <2>. HIDE DEF r, p, m, n
    <2>4. \A k \in 1 .. m + n : k \in 1 .. m \/ (k - m \in 1 .. n /\ k = m + (k - m))
        BY <2>1 DEF m, n
    <2>5. \A k \in DOMAIN r : (k \in DOMAIN p /\ r[k] = p[k]) \/ (k - m \in DOMAIN q /\ r[k] = q[k - m])
        BY <2>1, <2>2, <2>3, <2>4 DEF m, n
    <2>6. Quiet(p) BY <1>1 DEF p
    <2>7. Quiet(r) BY <2>2, <2>5, <2>6 DEF Quiet
    <2>. QED BY <2>7 DEF r, p
<1>. DEFINE r == s.out \o q
<1>2. t = [s EXCEPT !.out = r] BY DEF Emit
<1>3. Quiet(s.out) => Quiet(r) BY <1>1
<1>. HIDE DEF r
<1>. QED BY <1>2, <1>3 DEF Steady, Follows, Framed, CoreFields

\* The blocks.
LEMMA QuietBlocks ==
    /\ \A i : Quiet(<<BlockStop(i)>>)
    /\ \A i, k, b : Quiet(<<BlockStart(i, k, b)>>) /\ Quiet(<<BlockDelta(i, k, b)>>)
    /\ \A i, b, j, c : Quiet(<<BlockDelta(i, "thinking", b), BlockDelta(j, "signature", c)>>)
<1>1. /\ \A i : BlockStop(i).type = "block_stop"
      /\ \A i, k, b : BlockStart(i, k, b).type = "block_start" /\ BlockDelta(i, k, b).type = "block_delta"
    BY DEF BlockStop, BlockStart, BlockDelta, Event
<1>2. \A x : x.type \in {"block_start", "block_delta", "block_stop"} => Quiet(<<x>>)
    <2>. SUFFICES ASSUME NEW x, x.type \in {"block_start", "block_delta", "block_stop"} PROVE Quiet(<<x>>)
        OBVIOUS
    <2>1. IsSeq(<<x>>) /\ <<x>>[1] = x /\ DOMAIN <<x>> = {1} BY ShortSeqs
    <2>. QED BY <2>1 DEF Quiet
<1>3. \A x, y : x.type = "block_delta" /\ y.type = "block_delta" => Quiet(<<x, y>>)
    <2>. SUFFICES ASSUME NEW x, NEW y, x.type = "block_delta" /\ y.type = "block_delta"
                  PROVE Quiet(<<x, y>>)
        OBVIOUS
    <2>1. IsSeq(<<x, y>>) /\ <<x, y>>[1] = x /\ <<x, y>>[2] = y /\ DOMAIN <<x, y>> = {1, 2} BY ShortSeqs
    <2>. QED BY <2>1 DEF Quiet
<1>. QED BY <1>1, <1>2, <1>3

LEMMA CloseOpenSteady == ASSUME NEW s, NEW t, t = CloseOpen(s) PROVE Steady(s, t)
<1>. DEFINE q == <<BlockStop(s.open)>>  u == Emit(s, q)
<1>1. t \in {s, [u EXCEPT !.open = None]} BY DEF CloseOpen
<1>2. Quiet(q) /\ u = Emit(s, q) BY QuietBlocks
<1>. HIDE DEF q, u
<1>3. Steady(s, u) BY <1>2, QuietEmit
<1>4. Steady(u, [u EXCEPT !.open = None]) BY DEF Steady, Follows, Framed, CoreFields
<1>. QED BY <1>1, <1>3, <1>4, SteadyOn, FollowsSelf

LEMMA StartBlockSteady ==
    ASSUME NEW s, NEW i, NEW kind, NEW body, NEW t, t = StartBlock(s, i, kind, body) PROVE Steady(s, t)
<1>. DEFINE c == CloseOpen(s)  q == <<BlockStart(i, kind, body)>>  u == Emit(c, q)
<1>1. t = [u EXCEPT !.open = i] BY DEF StartBlock
<1>2. Quiet(q) /\ u = Emit(c, q) /\ c = CloseOpen(s) BY QuietBlocks
<1>. HIDE DEF q, u, c
<1>3. Steady(s, c) BY <1>2, CloseOpenSteady
<1>4. Steady(c, u) BY <1>2, QuietEmit
<1>5. Steady(u, t) BY <1>1 DEF Steady, Follows, Framed, CoreFields
<1>. QED BY <1>3, <1>4, <1>5, SteadyOn

LEMMA OpenBlockSteady ==
    ASSUME NEW s, NEW key, NEW kind, NEW t, t = OpenBlock(s, key, kind) PROVE Steady(s, t)
<1>. DEFINE new == key \notin DOMAIN s.blockOf
            index == IF new THEN s.next ELSE s.blockOf[key]
            b == With(s.blockOf, key, index)
            n == s.next + 1
            u == IF new THEN [s EXCEPT !.blockOf = b, !.next = n] ELSE s
            body == <<>>
<1>1. t \in {u, StartBlock(u, index, kind, body)} BY DEF OpenBlock
<1>2. u \in {s, [s EXCEPT !.blockOf = b, !.next = n]} OBVIOUS
<1>. HIDE DEF new, index, b, n, u, body
<1>3. Steady(s, u) BY <1>2, FollowsSelf DEF Steady, Follows, Framed, CoreFields
<1>4. Steady(u, StartBlock(u, index, kind, body)) BY StartBlockSteady
<1>. QED BY <1>1, <1>3, <1>4, SteadyOn

LEMMA CloseAllSteady ==
    ASSUME NEW s, NEW t, t = CloseAll(s)
    PROVE  Steady(s, t)
<1>. DEFINE c == CloseOpen(s)
<1>1. t = [c EXCEPT !.owners = Empty, !.blockOf = Empty, !.calls = Empty, !.order = <<>>,
                    !.active = None, !.items = Empty, !.reasoning = Empty, !.text = Empty,
                    !.last = <<>>, !.textParts = 0, !.reasoningParts = 0, !.created = <<>>]
    BY DEF CloseAll
<1>2. c = CloseOpen(s) OBVIOUS
<1>. HIDE DEF c
<1>3. Steady(s, c) BY <1>2, CloseOpenSteady
<1>4. LastTold(<<>>) BY DEF LastTold
<1>5. Steady(c, t) BY <1>1, <1>4, ShortSeqs DEF Steady, Follows, Framed, CoreFields
<1>. QED BY <1>3, <1>5, SteadyOn

LEMMA LateIdFollows ==
    ASSUME NEW s, NEW i, NEW id, NEW t, t = LateId(s, i, id) PROVE Follows(s, t)
<1>. DEFINE o == <<"metadata", i>>  two == 2  r == Resize(s, o, two)
            p == <<"id", i>>  one == 1  v == Own(r, p, one)
            c == <<"reasoning_id", i>>  w == Resize(v, c, one)
            u == IF i \in DOMAIN v.reasoning THEN w ELSE v
            x == [u.items EXCEPT ![i].id = id]
<1>1. t \in {s, Fail(s), [u EXCEPT !.items = x]} BY DEF LateId
<1>2. r = Resize(s, o, two) /\ v = Own(r, p, one) /\ w = Resize(v, c, one) /\ u \in {v, w} OBVIOUS
<1>. HIDE DEF o, two, r, p, one, v, c, w, u, x
<1>3. Follows(s, r) BY <1>2, ResizeSteady DEF Steady
<1>4. Follows(r, v) BY <1>2, OwnFollows
<1>5. Follows(v, w) BY <1>2, ResizeSteady DEF Steady
<1>6. Follows(s, u) BY <1>2, <1>3, <1>4, <1>5, FollowsOn
<1>7. Follows(u, [u EXCEPT !.items = x]) BY DEF Follows, Framed, CoreFields
<1>. QED BY <1>1, <1>6, <1>7, FollowsOn, FollowsSelf, FailFollows DEF Steady

LEMMA ActiveFollows ==
    ASSUME NEW s, NEW e, NEW types, NEW t, t = Active(s, e, types) PROVE Follows(s, t)
<1>. DEFINE l == LateId(s, e.i, e.id)
<1>1. t \in {Fail(s), l, Fail(l), Commit(l)} BY DEF Active, Then
<1>2. l = LateId(s, e.i, e.id) OBVIOUS
<1>. HIDE DEF l
<1>3. Follows(s, l) BY <1>2, LateIdFollows
<1>. QED BY <1>1, <1>3, FollowsOn, CommitFollows, FailFollows

LEMMA PayCallFollows == ASSUME NEW s, NEW i, NEW t, t = PayCall(s, i) PROVE Follows(s, t)
<1>. DEFINE n == 2  o == <<"call", i>>  r == Reserve(s, n)  u == Own(r, o, n)
<1>1. t \in {s, u} BY DEF PayCall
<1>2. r = Reserve(s, n) /\ u = Own(r, o, n) OBVIOUS
<1>. HIDE DEF n, o, r, u
<1>3. Follows(s, r) /\ Follows(r, u) BY <1>2, OwnFollows, ReserveFollows
<1>. QED BY <1>1, <1>3, FollowsOn, FollowsSelf DEF Steady

LEMMA OpenCallFollows ==
    ASSUME NEW s, NEW i, NEW id, NEW t, t = OpenCall(s, i, id)
    PROVE  Follows(s, t) /\ (id = Absent => Steady(s, t))
<1>. DEFINE cs == With(s.calls, i, [block |-> s.next, id |-> id, args |-> <<>>, white |-> 0,
                                    argsDone |-> FALSE, started |-> FALSE, done |-> FALSE])
            o == Append(s.order, i)  n == s.next + 1
            known == IF i \in DOMAIN s.calls THEN s
                     ELSE [s EXCEPT !.calls = cs, !.order = o, !.next = n]
            a == IF known.active = None THEN i ELSE known.active
            u == [known EXCEPT !.hasTool = TRUE, !.active = a]
            block == u.calls[i].block  kind == "tool_use"  body == <<u.calls[i].id>>
            b == StartBlock(u, block, kind, body)
            bs == [b.calls EXCEPT ![i].started = TRUE]
            bad == i \in DOMAIN s.calls /\ id \notin {Absent, s.calls[i].id}
<1>1. t = IF bad THEN Fail(s)
          ELSE IF u.active # i \/ u.calls[i].started THEN u ELSE [b EXCEPT !.calls = bs]
    BY DEF OpenCall
<1>2. /\ known \in {s, [s EXCEPT !.calls = cs, !.order = o, !.next = n]}
      /\ u = [known EXCEPT !.hasTool = TRUE, !.active = a]
      /\ b = StartBlock(u, block, kind, body)
      /\ id = Absent => ~bad
      /\ IsSeq(s.order) => IsSeq(o)
    BY SeqFacts
<1>. HIDE DEF cs, o, n, known, a, u, block, kind, body, b, bs, bad
<1>3. Steady(s, known) BY <1>2, FollowsSelf DEF Steady, Follows, Framed, CoreFields
<1>4. Steady(known, u) BY <1>2 DEF Steady, Follows, Framed, CoreFields
<1>5. Steady(u, b) BY <1>2, StartBlockSteady
<1>6. Steady(b, [b EXCEPT !.calls = bs]) BY DEF Steady, Follows, Framed, CoreFields
<1>7. Steady(s, u) /\ Steady(s, [b EXCEPT !.calls = bs]) BY <1>3, <1>4, <1>5, <1>6, SteadyOn
<1>8. CASE bad BY <1>1, <1>2, <1>8, FailFollows
<1>9. CASE ~bad BY <1>1, <1>7, <1>9 DEF Steady
<1>. QED BY <1>8, <1>9

LEMMA PayArgumentsFollows ==
    ASSUME NEW s, NEW i, NEW old, NEW args, NEW t, t = PayArguments(s, i, old, args) PROVE Follows(s, t)
<1>. DEFINE n == Len(args) - Len(old)  r == Reserve(s, n)
            o == <<"args", i>>  m == Len(args)  z == Resize(r, o, m)
<1>1. t = Commit(z) BY DEF PayArguments
<1>2. r = Reserve(s, n) /\ z = Resize(r, o, m) OBVIOUS
<1>. HIDE DEF n, r, o, m, z
<1>3. Follows(s, r) /\ Follows(r, z) BY <1>2, ReserveFollows, ResizeSteady DEF Steady
<1>. QED BY <1>1, <1>3, FollowsOn, CommitFollows

LEMMA SetArgumentsFollows ==
    ASSUME NEW s, NEW i, NEW args, NEW t, t = SetArguments(s, i, args) PROVE Follows(s, t)
<1>. DEFINE new == SubSeq(args, Len(s.calls[i].args) + 1, Len(args))
            cs == [s.calls EXCEPT ![i].args = args]
            u == [s EXCEPT !.calls = cs]
            q == <<BlockDelta(u.calls[i].block, "input_json", new)>>
<1>1. t \in {u, Emit(u, q)} BY DEF SetArguments
<1>2. u = [s EXCEPT !.calls = cs] /\ Quiet(q) BY QuietBlocks
<1>. HIDE DEF new, cs, u, q
<1>3. Follows(s, u) BY <1>2 DEF Follows, Framed, CoreFields
<1>4. Follows(u, Emit(u, q)) BY <1>2, QuietEmit DEF Steady
<1>. QED BY <1>1, <1>3, <1>4, FollowsOn

LEMMA ReleaseCallFollows == ASSUME NEW s, NEW i, NEW t, t = ReleaseCall(s, i) PROVE Follows(s, t)
<1>. DEFINE os == {<<"call", i>>} \union (IF s.calls[i].args = <<>> THEN {} ELSE {<<"args", i>>})
<1>1. t = DisownAll(s, os) BY DEF ReleaseCall
<1>. HIDE DEF os
<1>. QED BY <1>1, DisownAllFollows

LEMMA EndCallFollows == ASSUME NEW s, NEW i, NEW t, t = EndCall(s, i) PROVE Follows(s, t)
<1>. DEFINE u == IF s.open = s.calls[i].block THEN CloseOpen(s) ELSE s  cs == Without(u.calls, i)
<1>1. t = [u EXCEPT !.calls = cs, !.active = None] BY DEF EndCall
<1>2. u \in {s, CloseOpen(s)} OBVIOUS
<1>. HIDE DEF u, cs
<1>3. Follows(s, u) BY <1>2, CloseOpenSteady, FollowsSelf DEF Steady
<1>4. Follows(u, t) BY <1>1 DEF Follows, Framed, CoreFields
<1>. QED BY <1>3, <1>4, FollowsOn

LEMMA ActivateFollows == ASSUME NEW s, NEW i, NEW t, t = Activate(s, i) PROVE Follows(s, t)
<1>. DEFINE args == s.calls[i].args
            a == [s EXCEPT !.active = i]
            b == OpenCall(a, i, Absent)
            q == <<BlockDelta(b.calls[i].block, "input_json", args)>>
            u == IF args = <<>> THEN b ELSE Emit(b, q)
            r == ReleaseCall(u, i)
<1>1. t \in {s, u, r, EndCall(r, i)} BY DEF Activate, Then
<1>2. /\ a = [s EXCEPT !.active = i] /\ b = OpenCall(a, i, Absent) /\ u \in {b, Emit(b, q)}
      /\ r = ReleaseCall(u, i) /\ Quiet(q)
    BY QuietBlocks
<1>. HIDE DEF args, a, b, q, u, r
<1>3. Follows(s, a) BY <1>2 DEF Follows, Framed, CoreFields
<1>4. Follows(a, b) BY <1>2, OpenCallFollows
<1>5. Follows(b, Emit(b, q)) BY <1>2, QuietEmit DEF Steady
<1>6. Follows(s, u) BY <1>2, <1>3, <1>4, <1>5, FollowsOn
<1>7. Follows(u, r) /\ Follows(r, EndCall(r, i)) BY <1>2, ReleaseCallFollows, EndCallFollows
<1>8. Follows(s, r) /\ Follows(s, EndCall(r, i)) BY <1>6, <1>7, FollowsOn
<1>. QED BY <1>1, <1>6, <1>8, FollowsSelf DEF Steady

\* The active call, if there is one, has ended.
Unblocked(s) ==
    IF s.active = None THEN s
    ELSE Then(ReleaseCall(s, s.active), LAMBDA u : EndCall(u, u.active))

LEMMA AdvancedCourse ==
    ASSUME NEW s, NEW t, NEW os, os = t.order, Len(os) \in Nat, t = Unblocked(s)
    PROVE  \E f : /\ f[0] = t
                  /\ \A k \in 1 .. Len(os) : f[k] = Activate(f[k - 1], os[k])
                  /\ Advance(s) = f[Len(os)]
<1>. DEFINE n == Len(os)
            C(g, j) == g = [k \in 0 .. j |-> IF k = 0 THEN t ELSE Activate(g[k - 1], os[k])]
            T == {j \in 0 .. n : \E g : C(g, j)}
<1>1. C([k \in 0 .. 0 |-> t], 0) OBVIOUS
<1>2. 0 \in T
    <2>. HIDE DEF C
    <2>. QED BY <1>1
<1>3. ASSUME NEW j \in 1 .. n, j - 1 \in T PROVE j \in T
    <2>1. PICK g : C(g, j - 1) BY <1>3
    <2>2. C([k \in 0 .. j |-> IF k = j THEN Activate(g[j - 1], os[j]) ELSE g[k]], j) BY <2>1
    <2>. HIDE DEF C
    <2>. QED BY <2>2
<1>4. n \in T
    <2>. HIDE DEF T, n
    <2>1. n \in Nat BY DEF n
    <2>. QED BY <1>2, <1>3, <2>1, InductTo
<1>. DEFINE f == CHOOSE g : C(g, n)
<1>5. C(f, n) BY <1>4
<1>6. Advance(s) = f[n] BY DEF Advance, Unblocked
<1>. HIDE DEF f
<1>7. f[0] = t /\ \A k \in 1 .. n : f[k] = Activate(f[k - 1], os[k]) BY SMTT(20), <1>5
<1>. QED BY <1>6, <1>7

LEMMA AdvanceFollows == ASSUME NEW s, NEW t, t = Advance(s) PROVE Follows(s, t)
<1>. DEFINE r == ReleaseCall(s, s.active)
            u == IF s.active = None THEN s ELSE IF r.ok THEN EndCall(r, r.active) ELSE r
<1>1. u \in {s, r, EndCall(r, r.active)} /\ r = ReleaseCall(s, s.active) OBVIOUS
<1>2. u = Unblocked(s) BY DEF Unblocked, Then
<1>. HIDE DEF r, u
<1>3. Follows(s, u) BY <1>1, ReleaseCallFollows, EndCallFollows, FollowsOn, FollowsSelf DEF Steady
<1>. SUFFICES ASSUME Framed(s) PROVE Follows(s, t) BY DEF Follows
<1>. DEFINE os == u.order  n == Len(os)
<1>4. IsSeq(os) BY <1>3 DEF Follows, Framed
<1>5. n \in Nat BY <1>4, SeqFacts
<1>6. PICK f : /\ f[0] = u
               /\ \A k \in 1 .. n : f[k] = Activate(f[k - 1], os[k])
               /\ t = f[n]
    BY <1>2, <1>5, AdvancedCourse
<1>. HIDE DEF os, n
<1>. DEFINE T == {k \in 0 .. n : Follows(s, f[k])}
<1>7. 0 \in T BY <1>3, <1>5, <1>6
<1>8. ASSUME NEW k \in 1 .. n, k - 1 \in T PROVE k \in T
    <2>1. Follows(s, f[k - 1]) BY <1>8
    <2>2. Follows(f[k - 1], f[k]) BY <1>6, ActivateFollows
    <2>3. Follows(s, f[k]) BY <2>1, <2>2, FollowsOn
    <2>. QED BY <2>3
<1>9. n \in T
    <2>. HIDE DEF T
    <2>. QED BY <1>5, <1>7, <1>8, InductTo
<1>. QED BY <1>6, <1>9

LEMMA FinishCallsFollows == ASSUME NEW s, NEW t, t = FinishCalls(s) PROVE Follows(s, t)
<1>. DEFINE cs == [i \in DOMAIN s.calls |-> [s.calls[i] EXCEPT !.done = TRUE]]
            u == [s EXCEPT !.calls = cs]
<1>1. t \in {s, Advance(u)} BY DEF FinishCalls
<1>2. u = [s EXCEPT !.calls = cs] OBVIOUS
<1>. HIDE DEF cs, u
<1>3. Follows(s, u) BY <1>2 DEF Follows, Framed, CoreFields
<1>. QED BY <1>1, <1>3, AdvanceFollows, FollowsOn, FollowsSelf DEF Steady

LEMMA PayTextFollows ==
    ASSUME NEW s, NEW key, NEW body, NEW t, t = PayText(s, key, body) PROVE Follows(s, t)
<1>. DEFINE n == Len(body)  r == Reserve(s, n)
            o == <<"text_key", key>>  one == 1  w == Own(r, o, one)
            u == IF key \notin DOMAIN s.text THEN w ELSE r
            p == <<"text", key>>  m == Len(TextAt(s, key).text) + Len(body)
            v == Resize(u, p, m)
            c == <<"block_key", key>>  x == Own(v, c, one)
<1>1. t \in {Fail(s), v, x} BY DEF PayText
<1>2. r = Reserve(s, n) /\ w = Own(r, o, one) /\ u \in {w, r} /\ v = Resize(u, p, m) /\ x = Own(v, c, one)
    OBVIOUS
<1>. HIDE DEF n, r, o, one, w, u, p, m, v, c, x
<1>3. Follows(s, r) /\ Follows(r, w) BY <1>2, ReserveFollows, OwnFollows
<1>4. Follows(s, u) BY <1>2, <1>3, FollowsOn
<1>5. Follows(u, v) /\ Follows(v, x) BY <1>2, ResizeSteady, OwnFollows DEF Steady
<1>6. Follows(s, v) /\ Follows(s, x) BY <1>4, <1>5, FollowsOn
<1>. QED BY <1>1, <1>6, FailFollows

LEMMA AppendTextFollows ==
    ASSUME NEW s, NEW key, NEW body, NEW t, t = AppendText(s, key, body) PROVE Follows(s, t)
<1>. DEFINE p == PayText(s, key, body)  c == Commit(p)
            x == With(c.text, key, [TextAt(c, key) EXCEPT !.text = @ \o body])
            n == IF key \notin DOMAIN c.text THEN c.textParts + 1 ELSE c.textParts
            u == [c EXCEPT !.text = x, !.textParts = n]
            kind == "text"  v == OpenBlock(u, key, kind)
            q == <<BlockDelta(v.blockOf[key], kind, body)>>
<1>1. t \in {c, u, Emit(v, q)} BY DEF AppendText, Then
<1>2. /\ p = PayText(s, key, body) /\ c = Commit(p) /\ u = [c EXCEPT !.text = x, !.textParts = n]
      /\ v = OpenBlock(u, key, kind) /\ Quiet(q)
    BY QuietBlocks
<1>. HIDE DEF p, c, x, n, u, kind, v, q
<1>3. Follows(s, p) /\ Follows(p, c) BY <1>2, PayTextFollows, CommitFollows
<1>4. Follows(c, u) BY <1>2 DEF Follows, Framed, CoreFields
<1>5. Follows(u, v) /\ Follows(v, Emit(v, q)) BY <1>2, OpenBlockSteady, QuietEmit DEF Steady
<1>6. Follows(s, c) /\ Follows(s, u) BY <1>3, <1>4, FollowsOn
<1>7. Follows(s, Emit(v, q)) BY <1>5, <1>6, FollowsOn
<1>. QED BY <1>1, <1>6, <1>7

LEMMA ExtendTextFollows ==
    ASSUME NEW s, NEW key, NEW body, NEW t, t = ExtendText(s, key, body) PROVE Follows(s, t)
<1>. DEFINE old == TextAt(s, key)  rest == SubSeq(body, Len(old.text) + 1, Len(body))
            u == AppendText(s, key, rest)
<1>1. t \in {s, Fail(s), u} BY DEF ExtendText
<1>2. u = AppendText(s, key, rest) OBVIOUS
<1>. HIDE DEF old, rest, u
<1>. QED BY <1>1, <1>2, AppendTextFollows, FailFollows, FollowsSelf DEF Steady

LEMMA ReleaseTextFollows == ASSUME NEW s, NEW i, NEW t, t = ReleaseText(s, i) PROVE Follows(s, t)
<1>. DEFINE keys == {k \in DOMAIN s.text : k[1] = i}
            owned(k) == {<<"text_key", k>>}
                        \union (IF s.text[k].text = <<>> THEN {} ELSE {<<"text", k>>})
                        \union (IF k \in DOMAIN s.blockOf THEN {<<"block_key", k>>} ELSE {})
            os == UNION {owned(k) : k \in keys}
            d == DisownAll(s, os)
            x == Restrict(d.text, DOMAIN d.text \ keys)  y == Restrict(d.blockOf, DOMAIN d.blockOf \ keys)
<1>1. t \in {d, [d EXCEPT !.text = x, !.blockOf = y]} BY DEF ReleaseText, Then
<1>2. d = DisownAll(s, os) OBVIOUS
<1>. HIDE DEF os, d, x, y
<1>3. Follows(s, d) BY <1>2, DisownAllFollows
<1>4. Follows(d, [d EXCEPT !.text = x, !.blockOf = y]) BY DEF Follows, Framed, CoreFields
<1>. QED BY <1>1, <1>3, <1>4, FollowsOn

LEMMA ExtendedCourse ==
    ASSUME NEW s, NEW i, NEW item, NEW cs, cs = item.content, Len(cs) \in Nat
    PROVE  \E f : /\ f[0] = s
                  /\ \A k \in 1 .. Len(cs) : f[k] = IF f[k - 1].ok
                            THEN ExtendText(f[k - 1], <<i, k - 1>>, cs[k]) ELSE f[k - 1]
                  /\ ExtendMessage(s, i, item) \in {Fail(s), f[Len(cs)]}
<1>. DEFINE n == Len(cs)
            Next1(x, k) == IF x.ok THEN ExtendText(x, <<i, k - 1>>, cs[k]) ELSE x
            C(g, j) == g = [k \in 0 .. j |-> IF k = 0 THEN s ELSE Next1(g[k - 1], k)]
            T == {j \in 0 .. n : \E g : C(g, j)}
<1>1. C([k \in 0 .. 0 |-> s], 0) OBVIOUS
<1>2. 0 \in T
    <2>. HIDE DEF C
    <2>. QED BY <1>1
<1>3. ASSUME NEW j \in 1 .. n, j - 1 \in T PROVE j \in T
    <2>1. PICK g : C(g, j - 1) BY <1>3
    <2>. HIDE DEF Next1
    <2>2. C([k \in 0 .. j |-> IF k = j THEN Next1(g[j - 1], j) ELSE g[k]], j) BY <2>1
    <2>. HIDE DEF C
    <2>. QED BY <2>2
<1>4. n \in T
    <2>. HIDE DEF T, n
    <2>1. n \in Nat BY DEF n
    <2>. QED BY <1>2, <1>3, <2>1, InductTo
<1>. DEFINE f == CHOOSE g : C(g, n)
<1>5. C(f, n) BY <1>4
<1>6. ExtendMessage(s, i, item) \in {Fail(s), f[n]} BY DEF ExtendMessage, Then
<1>. HIDE DEF f
<1>7. f[0] = s /\ \A k \in 1 .. n : f[k] = Next1(f[k - 1], k)
    <2>. HIDE DEF Next1
    <2>. QED BY SMTT(40), <1>5
<1>. QED BY <1>6, <1>7

LEMMA ExtendMessageFollows ==
    ASSUME NEW s, NEW i, NEW item, IsSeq(item.content), NEW t, t = ExtendMessage(s, i, item)
    PROVE  Follows(s, t)
<1>. DEFINE cs == item.content  n == Len(cs)
<1>2. n \in Nat BY SeqFacts
<1>3. PICK f : /\ f[0] = s
               /\ \A k \in 1 .. n : f[k] = IF f[k - 1].ok
                         THEN ExtendText(f[k - 1], <<i, k - 1>>, cs[k]) ELSE f[k - 1]
               /\ t \in {Fail(s), f[n]}
    BY <1>2, ExtendedCourse
<1>. HIDE DEF n, cs
<1>. DEFINE T == {k \in 0 .. n : Follows(s, f[k])}
<1>4. 0 \in T BY <1>2, <1>3, FollowsSelf DEF Steady
<1>5. ASSUME NEW k \in 1 .. n, k - 1 \in T PROVE k \in T
    <2>. DEFINE key == <<i, k - 1>>  body == cs[k]
    <2>1. Follows(s, f[k - 1]) BY <1>5
    <2>2. f[k] \in {f[k - 1], ExtendText(f[k - 1], key, body)} BY <1>3
    <2>. HIDE DEF key, body
    <2>3. Follows(f[k - 1], ExtendText(f[k - 1], key, body)) BY ExtendTextFollows
    <2>4. Follows(s, f[k]) BY <2>1, <2>2, <2>3, FollowsOn
    <2>. QED BY <2>4
<1>6. n \in T
    <2>. HIDE DEF T
    <2>. QED BY <1>2, <1>4, <1>5, InductTo
<1>. QED BY <1>3, <1>6, FailFollows

LEMMA AddItemFollows == ASSUME NEW s, NEW e, NEW t, t = AddItem(s, e) PROVE Follows(s, t)
<1>. DEFINE i == e.i  id == EventId(e)  one == 1  two == 2
            po == <<"pending", i>>  mo == <<"metadata", i>>  io == <<"id", i>>  ro == <<"reasoning_id", i>>
            n == IF id = Absent THEN 1 ELSE 2
            p == Own(s, po, one)  a == Own(p, mo, n)
            b == IF id = Absent THEN a ELSE Own(a, io, one)
            c == IF id = Absent \/ e.item.type # "reasoning" THEN b ELSE Own(b, ro, one)
            init == InitialArguments(e.item)  none == <<>>
            y == PayCall(c, i)
            d == IF CallStarts(e.item) THEN PayArguments(y, i, none, init) ELSE Commit(c)
            g == Atomic(s, d)
            x == With(g.items, i, Known(e.item, id))
            r == IF e.item.type = "reasoning" THEN With(g.reasoning, i, [summary |-> Empty, content |-> Empty])
                 ELSE g.reasoning
            h == [g EXCEPT !.items = x, !.reasoning = r]
            call == e.item.call
            o == OpenCall(h, i, call)  w == SetArguments(o, i, init)
<1>1. t \in {s, Fail(s), g, h, o, w} BY SMTT(60) DEF AddItem, Then
<1>2. /\ p = Own(s, po, one) /\ a = Own(p, mo, n) /\ b \in {a, Own(a, io, one)}
      /\ c \in {b, Own(b, ro, one)} /\ y = PayCall(c, i)
      /\ d \in {PayArguments(y, i, none, init), Commit(c)}
      /\ g = Atomic(s, d) /\ h = [g EXCEPT !.items = x, !.reasoning = r]
      /\ o = OpenCall(h, i, call) /\ w = SetArguments(o, i, init)
    OBVIOUS
<1>. HIDE DEF i, id, one, two, po, mo, io, ro, n, p, a, b, c, init, none, y, d, g, x, r, h, call, o, w
<1>3. Follows(s, p) /\ Follows(p, a) /\ Follows(a, Own(a, io, one)) /\ Follows(b, Own(b, ro, one))
    BY <1>2, OwnFollows
<1>4. Follows(s, b) BY <1>2, <1>3, FollowsOn
<1>5. Follows(s, c) BY <1>2, <1>3, <1>4, FollowsOn
<1>6. Follows(s, y) BY <1>2, <1>5, PayCallFollows, FollowsOn
<1>7. Follows(s, PayArguments(y, i, none, init)) /\ Follows(s, Commit(c))
    BY <1>5, <1>6, PayArgumentsFollows, CommitFollows, FollowsOn
<1>8. Follows(s, g) BY <1>2, <1>7, AtomicFollows
<1>9. Follows(g, h) BY <1>2 DEF Follows, Framed, CoreFields
<1>10. Follows(s, h) BY <1>8, <1>9, FollowsOn
<1>11. Follows(s, o) BY <1>2, <1>10, OpenCallFollows, FollowsOn
<1>12. Follows(s, w) BY <1>2, <1>11, SetArgumentsFollows, FollowsOn
<1>. QED BY <1>1, <1>8, <1>10, <1>11, <1>12, FollowsSelf, FailFollows DEF Steady

LEMMA CompleteFollows == ASSUME NEW s, NEW e, NEW t, t = Complete(s, e) PROVE Follows(s, t)
<1>. DEFINE i == e.i  id == EventId(e)
            Done(u, x) == [u EXCEPT !.items = x]
            l == LateId(s, i, id)  po == <<"pending", i>>  d == Disown(l, po)
            dx == [[d.items EXCEPT ![i].done = TRUE] EXCEPT ![i].final = e.item]
            dy == [dx EXCEPT ![i].incomplete = ~e.item.complete]
            mo == <<"metadata", i>>  m == IF id = Absent THEN 1 ELSE 2  a == Own(s, mo, m)
            io == <<"id", i>>  n == IF id = Absent THEN 0 ELSE 1  b == Own(a, io, n)
            x == With(b.items, i, Known(e.item, id))  c == [b EXCEPT !.items = x]
            cx == [[c.items EXCEPT ![i].done = TRUE] EXCEPT ![i].final = e.item]
            cy == [cx EXCEPT ![i].incomplete = ~e.item.complete]
<1>1. t \in {l, Fail(s), [[[d EXCEPT !.items[i].done = TRUE] EXCEPT !.items[i].final = e.item]
                             EXCEPT !.items[i].incomplete = ~e.item.complete],
             [[[c EXCEPT !.items[i].done = TRUE] EXCEPT !.items[i].final = e.item]
                             EXCEPT !.items[i].incomplete = ~e.item.complete]}
    BY DEF Complete, Then
<1>2. /\ l = LateId(s, i, id) /\ d = Disown(l, po) /\ a = Own(s, mo, m) /\ b = Own(a, io, n)
      /\ c = [b EXCEPT !.items = x]
    OBVIOUS
<1>. HIDE DEF l, d, a, b, c, x, po, mo, m, io, n, id
<1>3. \A u, v, w, z : Follows(u, [[[u EXCEPT !.items[v].done = TRUE] EXCEPT !.items[v].final = w]
                                      EXCEPT !.items[v].incomplete = z])
    <2>. SUFFICES ASSUME NEW u, NEW v, NEW w, NEW z
                  PROVE Follows(u, [[[u EXCEPT !.items[v].done = TRUE] EXCEPT !.items[v].final = w]
                                      EXCEPT !.items[v].incomplete = z])
        OBVIOUS
    <2>. DEFINE p == [u.items EXCEPT ![v].done = TRUE]  ru == [u EXCEPT !.items = p]
                q == [ru.items EXCEPT ![v].final = w]   rv == [ru EXCEPT !.items = q]
                r == [rv.items EXCEPT ![v].incomplete = z]  rw == [rv EXCEPT !.items = r]
    <2>1. rw = [[[u EXCEPT !.items[v].done = TRUE] EXCEPT !.items[v].final = w]
                                      EXCEPT !.items[v].incomplete = z]
        OBVIOUS
    <2>2. ru = [u EXCEPT !.items = p] /\ rv = [ru EXCEPT !.items = q] /\ rw = [rv EXCEPT !.items = r]
        OBVIOUS
    <2>. HIDE DEF p, q, r, ru, rv, rw
    <2>3. Follows(u, ru) /\ Follows(ru, rv) /\ Follows(rv, rw) BY <2>2 DEF Follows, Framed, CoreFields
    <2>4. Follows(u, rw) BY <2>3, FollowsOn
    <2>. QED BY <2>1, <2>4
<1>4. Follows(s, l) /\ Follows(l, d) /\ Follows(s, a) /\ Follows(a, b)
    BY <1>2, LateIdFollows, DisownFollows, OwnFollows
<1>5. Follows(b, c) BY <1>2 DEF Follows, Framed, CoreFields
<1>6. Follows(s, d) /\ Follows(s, b) BY <1>4, FollowsOn
<1>7. Follows(s, c) BY <1>5, <1>6, FollowsOn
<1>8. Follows(s, [[[d EXCEPT !.items[i].done = TRUE] EXCEPT !.items[i].final = e.item]
                             EXCEPT !.items[i].incomplete = ~e.item.complete])
    BY <1>3, <1>6, FollowsOn
<1>9. Follows(s, [[[c EXCEPT !.items[i].done = TRUE] EXCEPT !.items[i].final = e.item]
                             EXCEPT !.items[i].incomplete = ~e.item.complete])
    BY <1>3, <1>7, FollowsOn
<1>. QED BY <1>1, <1>4, <1>8, <1>9, FailFollows

LEMMA DoneMessageFollows ==
    ASSUME NEW s, NEW e, IsSeq(e.item.content), NEW t, t = DoneMessage(s, e) PROVE Follows(s, t)
<1>. DEFINE c == Complete(s, e)  i == e.i  item == e.item
            x == ExtendMessage(c, i, item)  m == Commit(x)  a == Atomic(s, m)
<1>1. t \in {a, ReleaseText(a, i)} BY DEF DoneMessage, Then
<1>2. c = Complete(s, e) /\ x = ExtendMessage(c, i, item) /\ m = Commit(x) /\ a = Atomic(s, m)
      /\ IsSeq(item.content)
    OBVIOUS
<1>. HIDE DEF c, i, item, x, m, a
<1>3. Follows(s, c) /\ Follows(c, x) /\ Follows(x, m)
    BY <1>2, CompleteFollows, ExtendMessageFollows, CommitFollows
<1>4. Follows(s, m) BY <1>3, FollowsOn
<1>5. Follows(s, a) BY <1>2, <1>4, AtomicFollows
<1>6. Follows(s, ReleaseText(a, i)) BY <1>5, ReleaseTextFollows, FollowsOn
<1>. QED BY <1>1, <1>5, <1>6

LEMMA DoneCallFollows == ASSUME NEW s, NEW e, NEW t, t = DoneCall(s, e) PROVE Follows(s, t)
<1>. DEFINE i == e.i
            prior == IF i \in DOMAIN s.items THEN s.items[i].initial ELSE e.item
            call == IF e.item.call # Absent THEN e.item.call ELSE prior.call
            id == ToolUseId(call, IF e.item.id # Absent THEN e.item.id ELSE prior.id, i)
            old == IF i \in DOMAIN s.calls THEN s.calls[i].args ELSE <<>>
            args == Arguments(e.item)
            c == Complete(s, e)  p == PayCall(c, i)  q == PayArguments(p, i, old, args)
            paid == IF c.ok THEN q ELSE c  a == Atomic(s, paid)
            u == OpenCall(a, i, id)  w == SetArguments(u, i, args)
            cs == [w.calls EXCEPT ![i].done = TRUE]  v == [w EXCEPT !.calls = cs]
<1>1. t \in {Fail(s), a, u, v, Advance(v)} BY DEF DoneCall, Then
<1>2. /\ c = Complete(s, e) /\ p = PayCall(c, i) /\ q = PayArguments(p, i, old, args)
      /\ paid \in {q, c} /\ a = Atomic(s, paid) /\ u = OpenCall(a, i, id)
      /\ w = SetArguments(u, i, args) /\ v = [w EXCEPT !.calls = cs]
    OBVIOUS
<1>. HIDE DEF i, prior, call, id, old, args, c, p, q, paid, a, u, w, cs, v
<1>3. Follows(s, c) BY <1>2, CompleteFollows
<1>4. Follows(s, p) BY <1>2, <1>3, PayCallFollows, FollowsOn
<1>5. Follows(s, q) BY <1>2, <1>4, PayArgumentsFollows, FollowsOn
<1>6. Follows(s, a) BY <1>2, <1>3, <1>5, AtomicFollows
<1>7. Follows(s, u) BY <1>2, <1>6, OpenCallFollows, FollowsOn
<1>8. Follows(s, w) BY <1>2, <1>7, SetArgumentsFollows, FollowsOn
<1>9. Follows(w, v) BY <1>2 DEF Follows, Framed, CoreFields
<1>10. Follows(s, v) BY <1>8, <1>9, FollowsOn
<1>11. Follows(s, Advance(v)) BY <1>10, AdvanceFollows, FollowsOn
<1>. QED BY <1>1, <1>6, <1>7, <1>10, <1>11, FailFollows

LEMMA ThinkingBlockFollows ==
    ASSUME NEW s, NEW i, NEW text, NEW carrier, NEW t, t = ThinkingBlock(s, i, text, carrier)
    PROVE  Follows(s, t)
<1>. DEFINE key == <<i, 0>>  kind == "thinking"  o == OpenBlock(s, key, kind)
            q == <<BlockDelta(o.open, "thinking", text), BlockDelta(o.open, "signature", <<carrier>>)>>
<1>1. t = Emit(o, q) /\ o = OpenBlock(s, key, kind) /\ Quiet(q) BY QuietBlocks DEF ThinkingBlock
<1>. HIDE DEF key, kind, o, q
<1>2. Follows(s, o) /\ Follows(o, t) BY <1>1, OpenBlockSteady, QuietEmit DEF Steady
<1>. QED BY <1>2, FollowsOn

LEMMA PayThinkingFollows ==
    ASSUME NEW s, NEW i, NEW bytes, NEW t, t = PayThinking(s, i, bytes) PROVE Follows(s, t)
<1>. DEFINE r == Reserve(s, bytes)  o == <<"block_key", <<i, 0>>>>  one == 1  u == Own(r, o, one)
<1>1. t = Commit(u) /\ r = Reserve(s, bytes) /\ u = Own(r, o, one) BY DEF PayThinking
<1>. HIDE DEF r, o, one, u
<1>2. Follows(s, r) /\ Follows(r, u) /\ Follows(u, t) BY <1>1, ReserveFollows, OwnFollows, CommitFollows
<1>. QED BY <1>2, FollowsOn

LEMMA DoneCompactionFollows == ASSUME NEW s, NEW e, NEW t, t = DoneCompaction(s, e) PROVE Follows(s, t)
<1>. DEFINE i == e.i  two == 2  c == Complete(s, e)  p == PayThinking(c, i, two)
            d == IF c.ok THEN p ELSE c  a == Atomic(s, d)
            text == <<Placeholder>>  carrier == e.item.carrier  u == ThinkingBlock(a, i, text, carrier)
<1>1. t \in {a, u} BY DEF DoneCompaction, Then
<1>2. /\ c = Complete(s, e) /\ p = PayThinking(c, i, two) /\ d \in {p, c} /\ a = Atomic(s, d)
      /\ u = ThinkingBlock(a, i, text, carrier)
    OBVIOUS
<1>. HIDE DEF i, two, c, p, d, a, text, carrier, u
<1>3. Follows(s, c) /\ Follows(c, p) BY <1>2, CompleteFollows, PayThinkingFollows
<1>4. Follows(s, d) BY <1>2, <1>3, FollowsOn
<1>5. Follows(s, a) BY <1>2, <1>4, AtomicFollows
<1>6. Follows(s, u) BY <1>2, <1>5, ThinkingBlockFollows, FollowsOn
<1>. QED BY <1>1, <1>5, <1>6

LEMMA ReleaseReasoningFollows ==
    ASSUME NEW s, NEW i, NEW t, t = ReleaseReasoning(s, i) PROVE Follows(s, t)
<1>. DEFINE r == s.reasoning[i]
            os == {<<"summary", i, k>> : k \in {k \in DOMAIN r.summary : r.summary[k].text # <<>>}}
                  \union {<<"content", i, k>> : k \in {k \in DOMAIN r.content : r.content[k] # <<>>}}
                  \union (IF s.items[i].id = Absent THEN {} ELSE {<<"reasoning_id", i>>})
            d == DisownAll(s, os)  x == Without(d.reasoning, i)
<1>1. t \in {s, [d EXCEPT !.reasoning = x]} BY DEF ReleaseReasoning
<1>2. d = DisownAll(s, os) OBVIOUS
<1>. HIDE DEF r, os, d, x
<1>3. Follows(s, d) BY <1>2, DisownAllFollows
<1>4. Follows(d, [d EXCEPT !.reasoning = x]) BY DEF Follows, Framed, CoreFields
<1>. QED BY <1>1, <1>3, <1>4, FollowsOn, FollowsSelf DEF Steady

LEMMA DoneReasoningFollows == ASSUME NEW s, NEW e, NEW t, t = DoneReasoning(s, e) PROVE Follows(s, t)
<1>. DEFINE i == e.i  c == Complete(s, e)  l == ReleaseReasoning(c, i)
            released == IF c.ok THEN l ELSE c  m == Commit(released)
            Payd(n) == IF released.ok THEN PayThinking(released, i, n) ELSE released
            Told(n, text) == ThinkingBlock(Atomic(s, Payd(n)), i, text, e.item.carrier)
            o == <<"block_key", <<i, 0>>>>
            Left(n, text) == Disown(Told(n, text), o)
            known == i \in DOMAIN s.reasoning
            r == IF known THEN s.reasoning[i] ELSE [summary |-> Empty, content |-> Empty]
            summary == PartTexts([k \in DOMAIN r.summary |-> r.summary[k].text])
            content == PartTexts(r.content)
            shown == FlattenSeq((IF e.item.summary = <<>> THEN summary ELSE e.item.summary)
                                \o (IF e.item.reasons = <<>> THEN content ELSE e.item.reasons))
            txt == IF shown = <<>> THEN <<Placeholder>> ELSE shown
            bytes == Len(txt) + 1
            u == Left(bytes, txt)  x == Without(u.blockOf, <<i, 0>>)
            p == Payd(bytes)  a == Atomic(s, p)  carrier == e.item.carrier
            th == ThinkingBlock(a, i, txt, carrier)
<1>1. t \in {Fail(s), Atomic(s, m), a, [u EXCEPT !.blockOf = x]} BY DEF DoneReasoning, Then
<1>2. /\ c = Complete(s, e) /\ l = ReleaseReasoning(c, i) /\ released \in {l, c}
      /\ m = Commit(released) /\ p \in {PayThinking(released, i, bytes), released}
      /\ a = Atomic(s, p) /\ th = ThinkingBlock(a, i, txt, carrier) /\ u = Disown(th, o)
    OBVIOUS
<1>. HIDE DEF i, c, l, released, m, o, txt, bytes, u, x, p, a, carrier, th
<1>3. Follows(s, c) /\ Follows(c, l) BY <1>2, CompleteFollows, ReleaseReasoningFollows
<1>4. Follows(s, released) BY <1>2, <1>3, FollowsOn
<1>5. Follows(released, m) /\ Follows(released, PayThinking(released, i, bytes))
    BY <1>2, CommitFollows, PayThinkingFollows
<1>6. Follows(s, m) /\ Follows(s, p) BY <1>2, <1>4, <1>5, FollowsOn
<1>7. Follows(s, Atomic(s, m)) /\ Follows(s, a) BY <1>2, <1>6, AtomicFollows
<1>8. Follows(a, th) /\ Follows(th, u) BY <1>2, ThinkingBlockFollows, DisownFollows
<1>9. Follows(u, [u EXCEPT !.blockOf = x]) BY DEF Follows, Framed, CoreFields
<1>10. Follows(s, [u EXCEPT !.blockOf = x]) BY <1>7, <1>8, <1>9, FollowsOn
<1>. QED BY <1>1, <1>7, <1>10, FailFollows

LEMMA CompleteItemFollows ==
    ASSUME NEW s, NEW e, IsSeq(e.item.content), NEW t, t = CompleteItem(s, e) PROVE Follows(s, t)
<1>. DEFINE c == Complete(s, e)  m == Commit(c)
<1>1. t \in {s, Fail(s), DoneMessage(s, e), DoneCall(s, e), DoneCompaction(s, e),
             DoneReasoning(s, e), Atomic(s, m)}
    BY DEF CompleteItem
<1>2. c = Complete(s, e) /\ m = Commit(c) OBVIOUS
<1>. HIDE DEF c, m
<1>3. Follows(s, c) /\ Follows(c, m) BY <1>2, CompleteFollows, CommitFollows
<1>4. Follows(s, Atomic(s, m)) BY <1>3, FollowsOn, AtomicFollows
<1>. QED BY <1>1, <1>4, FollowsSelf, FailFollows, DoneMessageFollows, DoneCallFollows,
            DoneCompactionFollows, DoneReasoningFollows DEF Steady

LEMMA ArgumentsDoneFollows == ASSUME NEW s, NEW e, NEW t, t = ArgumentsDone(s, e) PROVE Follows(s, t)
<1>. DEFINE types == {"function_call"}  a == Active(s, e, types)  i == e.i  body == e.body
            old == a.calls[e.i].args  p == PayArguments(a, i, old, body)
            w == SetArguments(p, i, body)  cs == [w.calls EXCEPT ![i].argsDone = TRUE]
<1>1. t \in {a, Fail(a), p, [w EXCEPT !.calls = cs]} BY DEF ArgumentsDone, Then
<1>2. a = Active(s, e, types) /\ p = PayArguments(a, i, old, body) /\ w = SetArguments(p, i, body)
    OBVIOUS
<1>. HIDE DEF types, a, i, body, old, p, w, cs
<1>3. Follows(s, a) BY <1>2, ActiveFollows
<1>4. Follows(a, p) /\ Follows(p, w) BY <1>2, PayArgumentsFollows, SetArgumentsFollows
<1>5. Follows(w, [w EXCEPT !.calls = cs]) BY DEF Follows, Framed, CoreFields
<1>6. Follows(s, p) /\ Follows(s, Fail(a)) BY <1>3, <1>4, FollowsOn, FailFollows
<1>7. Follows(s, [w EXCEPT !.calls = cs]) BY <1>4, <1>5, <1>6, FollowsOn
<1>. QED BY <1>1, <1>3, <1>6, <1>7

LEMMA TextDeltaFollows == ASSUME NEW s, NEW e, NEW t, t = TextDelta(s, e) PROVE Follows(s, t)
<1>. DEFINE types == {"message"}  a == Active(s, e, types)  key == <<e.i, e.part>>  body == e.body
<1>1. t \in {a, AppendText(a, key, body)} BY DEF TextDelta, Then
<1>2. a = Active(s, e, types) OBVIOUS
<1>. HIDE DEF types, a, key, body
<1>3. Follows(s, a) BY <1>2, ActiveFollows
<1>. QED BY <1>1, <1>3, AppendTextFollows, FollowsOn

LEMMA TextDoneFollows == ASSUME NEW s, NEW e, NEW t, t = TextDone(s, e) PROVE Follows(s, t)
<1>. DEFINE types == {"message"}  a == Active(s, e, types)  key == <<e.i, e.part>>  body == e.body
            x == ExtendText(a, key, body)  y == [x.text EXCEPT ![key].done = TRUE]
<1>1. t \in {a, Fail(a), x, [x EXCEPT !.text = y]} BY DEF TextDone, Then
<1>2. a = Active(s, e, types) /\ x = ExtendText(a, key, body) OBVIOUS
<1>. HIDE DEF types, a, key, body, x, y
<1>3. Follows(s, a) BY <1>2, ActiveFollows
<1>4. Follows(s, x) BY <1>2, <1>3, ExtendTextFollows, FollowsOn
<1>5. Follows(x, [x EXCEPT !.text = y]) BY DEF Follows, Framed, CoreFields
<1>. QED BY <1>1, <1>3, <1>4, <1>5, FollowsOn, FailFollows

LEMMA SlotFollows ==
    ASSUME NEW s, NEW e, NEW field, NEW empty, NEW t, t = Slot(s, e, field, empty) PROVE Follows(s, t)
<1>. DEFINE types == {"reasoning"}  a == Active(s, e, types)  n == a.reasoningParts + 1
            r == [a.reasoning EXCEPT ![e.i][field] = With(a.reasoning[e.i][field], e.part, empty)]
<1>1. t \in {a, Fail(a), [a EXCEPT !.reasoningParts = n, !.reasoning = r]}
    <2>1. t = IF a.ok THEN IF e.part \in DOMAIN a.reasoning[e.i][field] THEN a
                           ELSE IF a.reasoningParts >= MaxParts THEN Fail(a)
                           ELSE [a EXCEPT !.reasoningParts = @ + 1,
                                          !.reasoning[e.i][field] = With(@, e.part, empty)]
              ELSE a
        BY DEF Slot, Then
    <2>. HIDE DEF a
    <2>2. [a EXCEPT !.reasoningParts = @ + 1, !.reasoning[e.i][field] = With(@, e.part, empty)]
          = [a EXCEPT !.reasoningParts = n, !.reasoning = r]
        OBVIOUS
    <2>. QED BY <2>1, <2>2
<1>2. a = Active(s, e, types) OBVIOUS
<1>. HIDE DEF types, a, n, r
<1>3. Follows(s, a) BY <1>2, ActiveFollows
<1>4. Follows(a, [a EXCEPT !.reasoningParts = n, !.reasoning = r]) BY DEF Follows, Framed, CoreFields
<1>. QED BY <1>1, <1>3, <1>4, FollowsOn, FailFollows

LEMMA PartAddedFollows == ASSUME NEW s, NEW e, NEW t, t = PartAdded(s, e) PROVE Follows(s, t)
<1>. DEFINE field == "summary"  empty == NewPart  a == Slot(s, e, field, empty)
            r == [a.reasoning EXCEPT ![e.i].summary[e.part].added = TRUE]
<1>1. t \in {a, Fail(a), [a EXCEPT !.reasoning = r]} BY DEF PartAdded, Then
<1>2. a = Slot(s, e, field, empty) OBVIOUS
<1>. HIDE DEF field, empty, a, r
<1>3. Follows(s, a) BY <1>2, SlotFollows
<1>4. Follows(a, [a EXCEPT !.reasoning = r]) BY DEF Follows, Framed, CoreFields
<1>. QED BY <1>1, <1>3, <1>4, FollowsOn, FailFollows

LEMMA SummaryDeltaFollows == ASSUME NEW s, NEW e, NEW t, t = SummaryDelta(s, e) PROVE Follows(s, t)
<1>. DEFINE field == "summary"  empty == NewPart  a == Slot(s, e, field, empty)
            text == a.reasoning[e.i].summary[e.part].text \o e.body
            r == [a.reasoning EXCEPT ![e.i].summary[e.part].text = text]
            u == [a EXCEPT !.reasoning = r]
            o == <<"summary", e.i, e.part>>  n == Len(text)  z == Resize(u, o, n)
<1>1. t \in {a, Fail(a), Commit(z)} BY DEF SummaryDelta, Then
<1>2. a = Slot(s, e, field, empty) /\ u = [a EXCEPT !.reasoning = r] /\ z = Resize(u, o, n) OBVIOUS
<1>. HIDE DEF field, empty, a, text, r, u, o, n, z
<1>3. Follows(s, a) BY <1>2, SlotFollows
<1>4. Follows(a, u) BY <1>2 DEF Follows, Framed, CoreFields
<1>5. Follows(u, z) /\ Follows(z, Commit(z)) BY <1>2, ResizeSteady, CommitFollows DEF Steady
<1>6. Follows(a, Commit(z)) BY <1>4, <1>5, FollowsOn
<1>. QED BY <1>1, <1>3, <1>6, FollowsOn, FailFollows

LEMMA SummaryDoneFollows == ASSUME NEW s, NEW e, NEW t, t = SummaryDone(s, e) PROVE Follows(s, t)
<1>. DEFINE field == "summary"  empty == NewPart  a == Slot(s, e, field, empty)
            part == a.reasoning[e.i].summary[e.part]
            r == [a.reasoning EXCEPT ![e.i].summary[e.part] = [part EXCEPT !.text = e.body, !.done = TRUE]]
            u == [a EXCEPT !.reasoning = r]
            o == <<"summary", e.i, e.part>>  n == Len(e.body)  z == Resize(u, o, n)
<1>1. t \in {a, Fail(a), Commit(z)} BY DEF SummaryDone, Then
<1>2. a = Slot(s, e, field, empty) /\ u = [a EXCEPT !.reasoning = r] /\ z = Resize(u, o, n) OBVIOUS
<1>. HIDE DEF field, empty, a, part, r, u, o, n, z
<1>3. Follows(s, a) BY <1>2, SlotFollows
<1>4. Follows(a, u) BY <1>2 DEF Follows, Framed, CoreFields
<1>5. Follows(u, z) /\ Follows(z, Commit(z)) BY <1>2, ResizeSteady, CommitFollows DEF Steady
<1>6. Follows(a, Commit(z)) BY <1>4, <1>5, FollowsOn
<1>. QED BY <1>1, <1>3, <1>6, FollowsOn, FailFollows

LEMMA ReasoningDeltaFollows == ASSUME NEW s, NEW e, NEW t, t = ReasoningDelta(s, e) PROVE Follows(s, t)
<1>. DEFINE field == "content"  empty == <<>>  a == Slot(s, e, field, empty)
            text == a.reasoning[e.i].content[e.part] \o e.body
            r == [a.reasoning EXCEPT ![e.i].content[e.part] = text]
            u == [a EXCEPT !.reasoning = r]
            o == <<"content", e.i, e.part>>  n == Len(text)  z == Resize(u, o, n)
<1>1. t \in {a, Commit(z)} BY DEF ReasoningDelta, Then
<1>2. a = Slot(s, e, field, empty) /\ u = [a EXCEPT !.reasoning = r] /\ z = Resize(u, o, n) OBVIOUS
<1>. HIDE DEF field, empty, a, text, r, u, o, n, z
<1>3. Follows(s, a) BY <1>2, SlotFollows
<1>4. Follows(a, u) BY <1>2 DEF Follows, Framed, CoreFields
<1>5. Follows(u, z) /\ Follows(z, Commit(z)) BY <1>2, ResizeSteady, CommitFollows DEF Steady
<1>6. Follows(a, Commit(z)) BY <1>4, <1>5, FollowsOn
<1>. QED BY <1>1, <1>3, <1>6, FollowsOn

(***************************************************************************)
(* How a Responses stream begins and ends                                  *)
(***************************************************************************)
\* A translator that has not ended its stream, and has written at most blocks.
Under(s) == Framed(s) /\ Quiet(s.out) /\ LastTold(s.last) /\ ~s.completed /\ ~s.failed

\* What a step may do to the outer frame of the message.
Begins(t) ==
    /\ Framed(t) /\ LastTold(t.last) /\ t.begun /\ ~t.completed /\ ~t.failed
    /\ \E q : Quiet(q) /\ t.out = q \o <<MessageStart>>
Breaks(t) ==
    /\ Framed(t) /\ LastTold(t.last) /\ t.completed /\ t.failed
    /\ \E q, kind : Quiet(q) /\ t.out = q \o <<ErrorEvent(kind)>>
Finishes(t, known) ==
    /\ Framed(t) /\ LastTold(t.last) /\ t.completed /\ ~t.failed
    /\ \E q, reason : Quiet(q) /\ t.out = q \o <<MessageDelta(reason, known), MessageStop>>

LEMMA UnderFollows ==
    ASSUME NEW s, NEW t, Under(s), Follows(s, t) PROVE Under(t) /\ (t.begun <=> s.begun)
BY DEF Under, Follows

LEMMA TerminateBreaks ==
    ASSUME NEW s, NEW kind, Under(s), NEW t, t = TerminateResponses(s, kind)
    PROVE  Breaks(t) /\ (t.ok <=> s.ok)
<1>. DEFINE c == CloseAll(s)  e == <<ErrorEvent(kind)>>  q == c.out  o == q \o e  u == Emit(c, e)
<1>1. t = [u EXCEPT !.completed = TRUE, !.failed = TRUE] BY DEF TerminateResponses, Under
<1>2. c = CloseAll(s) /\ u = [c EXCEPT !.out = o] BY DEF Emit
<1>3. o = q \o <<ErrorEvent(kind)>> /\ q = c.out OBVIOUS
<1>. HIDE DEF c, e, q, o, u
<1>4. Steady(s, c) /\ Under(c) /\ (c.ok <=> s.ok) BY <1>2, CloseAllSteady, UnderFollows DEF Steady, Under
<1>5. /\ Framed(t) /\ LastTold(t.last) /\ t.completed /\ t.failed /\ t.out = o /\ (t.ok <=> c.ok)
    BY <1>1, <1>2, <1>4 DEF Under, Framed, CoreFields
<1>. QED BY <1>3, <1>4, <1>5 DEF Breaks, Under

LEMMA NumberFollows ==
    ASSUME NEW s, NEW e, Formed(e), NEW t, t = Number(s, e) PROVE Follows(s, t)
<1>. DEFINE f == [e EXCEPT !.seq = "next"]  l == <<f>>  u == [s EXCEPT !.last = l]
            o == <<"snapshot">>  one == 1  z == Resize(u, o, one)
<1>1. t \in {s, Fail(s), Commit(z)} BY DEF Number
<1>2. /\ f.type = e.type /\ f.item = e.item /\ f.output = e.output /\ f.usage = e.usage
      /\ DOMAIN f = DOMAIN e
    BY DEF Formed
<1>3. l = <<f>> /\ u = [s EXCEPT !.last = l] /\ z = Resize(u, o, one) OBVIOUS
<1>. HIDE DEF f, l, u, o, one, z
<1>4. Formed(f) BY <1>2 DEF Formed
<1>5. LastTold(l) BY <1>3, <1>4 DEF LastTold
<1>6. Follows(s, u) BY <1>3, <1>5 DEF Follows, Framed, CoreFields
<1>7. Follows(u, z) /\ Follows(z, Commit(z)) BY <1>3, ResizeSteady, CommitFollows DEF Steady
<1>8. Follows(s, Commit(z)) BY <1>6, <1>7, FollowsOn
<1>. QED BY <1>1, <1>8, FollowsSelf, FailFollows DEF Steady

LEMMA CreateBegins ==
    ASSUME NEW s, NEW e, Under(s), NEW t, t = Create(s, e)
    PROVE  Follows(s, t) \/ (Begins(t) /\ t.ok)
<1>. DEFINE o == <<"response_id">>  one == 1  z == Resize(s, o, one)  c == Commit(z)
            m == <<MessageStart>>  q == c.out  p == q \o m  d == Digests(e.output)
            u == [[c EXCEPT !.out = p] EXCEPT !.begun = TRUE, !.created = d]
<1>1. t = Fail(s) \/ (t = c) \/ (c.ok /\ t = u) BY DEF Create, Then, Emit
<1>2. z = Resize(s, o, one) /\ c = Commit(z) /\ q = c.out /\ p = q \o <<MessageStart>>
      /\ u = [[c EXCEPT !.out = p] EXCEPT !.begun = TRUE, !.created = d]
    OBVIOUS
<1>. HIDE DEF o, one, z, c, m, q, p, d, u
<1>3. Follows(s, z) /\ Follows(z, c) BY <1>2, ResizeSteady, CommitFollows DEF Steady
<1>4. Follows(s, c) BY <1>3, FollowsOn
<1>5. Under(c) BY <1>4, UnderFollows
<1>6. ASSUME c.ok PROVE Begins(u) /\ u.ok
    <2>1. /\ Framed(u) /\ u.last = c.last /\ u.begun /\ (u.completed <=> c.completed)
          /\ (u.failed <=> c.failed) /\ u.out = p /\ (u.ok <=> c.ok)
        BY <1>2, <1>5 DEF Under, Framed, CoreFields
    <2>. QED BY <1>2, <1>5, <1>6, <2>1 DEF Under, Begins
<1>. QED BY <1>1, <1>4, <1>6, FailFollows

LEMMA CompleteFinishes ==
    ASSUME NEW s, NEW e, Under(s), NEW t, t = CompleteResponse(s, e)
    PROVE  Follows(s, t) \/ (Finishes(t, e.usage) /\ t.ok)
<1>. DEFINE f == FinishCalls(s)  c == CloseAll(f)  reason == StopReasonOf(s, e)
            m == <<MessageDelta(reason, e.usage), MessageStop>>  q == c.out  p == q \o m
            u == [[c EXCEPT !.out = p] EXCEPT !.completed = TRUE]
<1>1. t = Fail(s) \/ (t = f) \/ (f.ok /\ t = u) BY DEF CompleteResponse, Then, Emit
<1>2. f = FinishCalls(s) /\ c = CloseAll(f) /\ q = c.out
      /\ p = q \o <<MessageDelta(reason, e.usage), MessageStop>>
      /\ u = [[c EXCEPT !.out = p] EXCEPT !.completed = TRUE]
    OBVIOUS
<1>. HIDE DEF f, c, reason, m, q, p, u
<1>3. Follows(s, f) /\ Steady(f, c) BY <1>2, FinishCallsFollows, CloseAllSteady
<1>4. Under(f) /\ Under(c) BY <1>3, UnderFollows DEF Steady
<1>5. ASSUME f.ok PROVE Finishes(u, e.usage) /\ u.ok
    <2>1. c.ok BY <1>3, <1>4, <1>5 DEF Steady, Under
    <2>2. /\ Framed(u) /\ u.last = c.last /\ u.completed
          /\ (u.failed <=> c.failed) /\ u.out = p /\ (u.ok <=> c.ok)
        BY <1>2, <1>4 DEF Under, Framed, CoreFields
    <2>. QED BY <1>2, <1>4, <2>1, <2>2 DEF Under, Finishes
<1>. QED BY <1>1, <1>3, <1>5, FailFollows

LEMMA ArgumentsDeltaEnds ==
    ASSUME NEW s, NEW e, Under(s), NEW t, t = ArgumentsDelta(s, e)
    PROVE  Follows(s, t) \/ (Breaks(t) /\ t.ok)
<1>. DEFINE types == {"function_call"}  a == Active(s, e, types)  i == e.i
            u == OpenCall(a, i, Absent)  kind == "api_error"
            white == WhiteRun(u.calls[e.i].white, e.body)
            old == u.calls[e.i].args  args == old \o e.body
            cs == [u.calls EXCEPT ![e.i].white = white]  w == [u EXCEPT !.calls = cs]
            p == PayArguments(w, i, old, args)
<1>1. \/ t \in {a, Fail(a), Fail(u), p, SetArguments(p, i, args)}
      \/ a.ok /\ t = TerminateResponses(u, kind)
    BY DEF ArgumentsDelta, Then
<1>2. /\ a = Active(s, e, types) /\ u = OpenCall(a, i, Absent) /\ w = [u EXCEPT !.calls = cs]
      /\ p = PayArguments(w, i, old, args)
    OBVIOUS
<1>. HIDE DEF types, a, i, u, kind, white, old, args, cs, w, p
<1>3. Follows(s, a) BY <1>2, ActiveFollows
<1>4. Steady(a, u) BY <1>2, OpenCallFollows
<1>5. Follows(u, w) BY <1>2 DEF Follows, Framed, CoreFields
<1>6. Follows(w, p) /\ Follows(p, SetArguments(p, i, args))
    BY <1>2, PayArgumentsFollows, SetArgumentsFollows
<1>7. Follows(s, u) BY <1>3, <1>4, FollowsOn DEF Steady
<1>8. Follows(s, p) BY <1>5, <1>6, <1>7, FollowsOn
<1>9. Follows(s, SetArguments(p, i, args)) BY <1>6, <1>8, FollowsOn
<1>10. Follows(s, Fail(a)) /\ Follows(s, Fail(u)) BY <1>3, <1>7, FailFollows, FollowsOn
<1>11. ASSUME a.ok, t = TerminateResponses(u, kind) PROVE Breaks(t) /\ t.ok
    <2>1. Under(a) /\ Under(u) BY <1>3, <1>7, UnderFollows
    <2>2. u.ok BY <1>4, <1>11, <2>1 DEF Steady, Under
    <2>. QED BY <1>11, <2>1, <2>2, TerminateBreaks
<1>. QED BY <1>1, <1>3, <1>8, <1>9, <1>10, <1>11

\* What a handler does.
LEMMA HandleEnds ==
    ASSUME NEW s, NEW e, Under(s), s.ok, Formed(e), NEW t, t = Handle(s, e)
    PROVE  \/ Follows(s, t)
           \/ t.ok /\ Begins(t) /\ e.type = "created"
           \/ t.ok /\ Breaks(t)
           \/ t.ok /\ Finishes(t, e.usage) /\ e.type \in {"completed", "incomplete"}
<1>1. CASE e.type = "created"
    <2>1. t = Create(s, e) BY <1>1 DEF Handle
    <2>. QED BY <1>1, <2>1, CreateBegins
<1>2. CASE e.type = "added"
    <2>1. t = AddItem(s, e) BY <1>2 DEF Handle
    <2>. QED BY <2>1, AddItemFollows
<1>3. CASE e.type = "done"
    <2>1. t = CompleteItem(s, e) /\ IsSeq(e.item.content) BY <1>3 DEF Handle, Formed
    <2>. QED BY <2>1, CompleteItemFollows
<1>4. CASE e.type \in {"text_delta", "text_done"}
    <2>1. t \in {TextDelta(s, e), TextDone(s, e)} BY <1>4 DEF Handle
    <2>. QED BY <2>1, TextDeltaFollows, TextDoneFollows
<1>5. CASE e.type = "args_delta"
    <2>1. t = ArgumentsDelta(s, e) BY <1>5 DEF Handle
    <2>. QED BY <2>1, ArgumentsDeltaEnds
<1>6. CASE e.type \in {"args_done", "part_added"}
    <2>1. t \in {ArgumentsDone(s, e), PartAdded(s, e)} BY <1>6 DEF Handle
    <2>. QED BY <2>1, ArgumentsDoneFollows, PartAddedFollows
<1>7. CASE e.type \in {"summary_delta", "summary_done", "reasoning_delta"}
    <2>1. t \in {SummaryDelta(s, e), SummaryDone(s, e), ReasoningDelta(s, e)} BY <1>7 DEF Handle
    <2>. QED BY <2>1, SummaryDeltaFollows, SummaryDoneFollows, ReasoningDeltaFollows
<1>8. CASE e.type \in {"completed", "incomplete"}
    <2>1. t = CompleteResponse(s, e) BY <1>8 DEF Handle
    <2>. QED BY <1>8, <2>1, CompleteFinishes
<1>9. CASE e.type \in {"failed", "error"}
    <2>. DEFINE kind == "upstream"
    <2>1. t = TerminateResponses(s, kind) BY <1>9 DEF Handle
    <2>. HIDE DEF kind
    <2>. QED BY <2>1, TerminateBreaks
<1>10. CASE e.type \notin {"created", "added", "done", "text_delta", "text_done", "args_delta",
                           "args_done", "part_added", "summary_delta", "summary_done",
                           "reasoning_delta", "completed", "incomplete", "failed", "error"}
    <2>1. t \in {s, Fail(s)} BY <1>10 DEF Handle
    <2>. QED BY <2>1, FollowsSelf, FailFollows DEF Steady
<1>. QED BY <1>1, <1>2, <1>3, <1>4, <1>5, <1>6, <1>7, <1>8, <1>9, <1>10

\* An event begins the message, goes on with it, breaks it off or finishes it; a
\* translator that has ended its stream takes no part in what comes.
LEMMA TranslateEnds ==
    ASSUME NEW s, NEW e, Formed(e), Framed(s), s.out = <<>>, LastTold(s.last), s.failed => s.completed,
           NEW t, t = TranslateEvent(s, e)
    PROVE  \/ t = s
           \/ ~s.completed /\ Under(t) /\ (t.begun <=> s.begun)
           \/ ~s.completed /\ ~s.begun /\ Begins(t)
           \/ ~s.completed /\ Breaks(t)
           \/ ~s.completed /\ s.begun /\ Finishes(t, e.usage) /\ e.type \in {"completed", "incomplete"}
<1>. SUFFICES ASSUME ~s.completed, t # s
              PROVE  \/ Under(t) /\ (t.begun <=> s.begun)
                     \/ ~s.begun /\ Begins(t)
                     \/ Breaks(t)
                     \/ s.begun /\ Finishes(t, e.usage) /\ e.type \in {"completed", "incomplete"}
    BY DEF TranslateEvent
<1>. DEFINE misplaced == IF s.begun THEN e.type = "created"
                         ELSE e.type \notin {"created", "failed", "error"}
            n == Number(s, e)
            h == Handle(n, e)
            r == IF n.ok THEN IF misplaced THEN Fail(n) ELSE h ELSE n
            u == [r EXCEPT !.ok = TRUE, !.out = s.out]  kind == "api_error"
<1>1. t = IF r.ok THEN r ELSE TerminateResponses(u, kind) BY DEF TranslateEvent, OrTerminate, Then
<1>2. /\ n = Number(s, e) /\ h = Handle(n, e) /\ u = [r EXCEPT !.ok = TRUE, !.out = s.out]
      /\ r = IF n.ok THEN IF misplaced THEN Fail(n) ELSE h ELSE n
      /\ ~misplaced => IF s.begun THEN e.type # "created" ELSE e.type \in {"created", "failed", "error"}
    OBVIOUS
<1>. HIDE DEF n, h, r, u, kind, misplaced
<1>3. Under(s)
    <2>1. IsSeq(<<>>) /\ DOMAIN <<>> = {} BY ShortSeqs
    <2>2. Quiet(<<>>) BY <2>1 DEF Quiet
    <2>. QED BY <2>2 DEF Under
<1>4. Follows(s, n) BY <1>2, NumberFollows
<1>5. Under(n) /\ (n.begun <=> s.begun) BY <1>3, <1>4, UnderFollows
<1>6. \/ Follows(s, r)
      \/ r.ok /\ ~s.begun /\ Begins(r)
      \/ r.ok /\ Breaks(r)
      \/ r.ok /\ s.begun /\ Finishes(r, e.usage) /\ e.type \in {"completed", "incomplete"}
    <2>1. CASE n.ok /\ ~misplaced
        <3>1. r = h BY <1>2, <2>1
        <3>2. \/ Follows(n, h)
              \/ h.ok /\ Begins(h) /\ e.type = "created"
              \/ h.ok /\ Breaks(h)
              \/ h.ok /\ Finishes(h, e.usage) /\ e.type \in {"completed", "incomplete"}
            BY <1>2, <1>5, <2>1, HandleEnds
        <3>3. Follows(n, h) => Follows(s, h) BY <1>4, FollowsOn
        <3>. QED BY <1>2, <2>1, <3>1, <3>2, <3>3
    <2>2. CASE n.ok /\ misplaced
        <3>1. r = Fail(n) BY <1>2, <2>2
        <3>. QED BY <1>4, <3>1, FailFollows, FollowsOn
    <2>3. CASE ~n.ok BY <1>2, <1>4, <2>3
    <2>. QED BY <2>1, <2>2, <2>3
<1>7. CASE r.ok
    <2>1. t = r BY <1>1, <1>7
    <2>2. Follows(s, r) => Under(r) /\ (r.begun <=> s.begun) BY <1>3, UnderFollows
    <2>. QED BY <1>6, <2>1, <2>2
<1>8. CASE ~r.ok
    <2>1. Follows(s, r) BY <1>6, <1>8
    <2>2. Under(r) BY <1>3, <2>1, UnderFollows
    <2>3. Under(u) BY <1>2, <1>3, <2>2 DEF Under, Framed, CoreFields
    <2>4. t = TerminateResponses(u, kind) BY <1>1, <1>8
    <2>. QED BY <2>3, <2>4, TerminateBreaks
<1>. QED BY <1>7, <1>8

(***************************************************************************)
(* The Responses flow                                                      *)
(***************************************************************************)
\* Where the translator has taken its client, if u is the usage it told.
ResponsesStage(s, u) ==
    Stage(IF s.failed THEN "failed" ELSE IF s.completed THEN "stopped"
          ELSE IF s.begun THEN "message" ELSE "before",
          <<>>, 0, IF s.completed /\ ~s.failed THEN u ELSE <<>>)

LEMMA QuietPath ==
    ASSUME NEW f, f = "responses", NEW a, NEW q, Quiet(q), a.phase \in {"before", "message"}
    PROVE  Path(f, a, q, a)
<1>1. \A i \in DOMAIN q : Allowed(f, a, q[i], a) BY DEF Quiet, Allowed
<1>2. IsSeq(q) BY DEF Quiet
<1>. QED BY <1>1, <1>2, PathLoop

\* What the events of a step do to a client that is where the translator was.
LEMMA EndsPath ==
    ASSUME NEW s, NEW t, NEW e, NEW u, NEW v, Formed(e), s.out = <<>>, s.failed => s.completed,
           s.completed => s.failed,
           \/ t = s
           \/ ~s.completed /\ Under(t) /\ (t.begun <=> s.begun)
           \/ ~s.completed /\ ~s.begun /\ Begins(t)
           \/ ~s.completed /\ Breaks(t)
           \/ ~s.completed /\ s.begun /\ Finishes(t, e.usage) /\ v = e.usage
    PROVE  Path("responses", ResponsesStage(s, u), t.out, ResponsesStage(t, v))
<1>. DEFINE f == "responses"  a == ResponsesStage(s, u)  b == ResponsesStage(t, v)
<1>. SUFFICES Path(f, a, t.out, b) OBVIOUS
<1>0. f = "responses" /\ a = ResponsesStage(s, u) /\ b = ResponsesStage(t, v) OBVIOUS
<1>. HIDE DEF f, a, b
<1>1. CASE t = s
    <2>1. a = b BY <1>0, <1>1 DEF ResponsesStage
    <2>. QED BY <1>1, <2>1, PathEmpty
<1>2. CASE t # s
    <2>1. ~s.completed /\ ~s.failed BY <1>2
    <2>2. a = Stage(IF s.begun THEN "message" ELSE "before", <<>>, 0, <<>>) BY <1>0, <2>1 DEF ResponsesStage
    <2>3. a.phase \in {"before", "message"} /\ a.open = <<>> /\ a.next = 0 /\ a.told = <<>>
          /\ (s.begun <=> a.phase = "message")
        BY <2>2, StageFields
    <2>4. CASE Under(t) /\ (t.begun <=> s.begun)
        <3>1. b = a BY <1>0, <2>2, <2>4 DEF Under, ResponsesStage
        <3>. QED BY <1>0, <2>3, <2>4, <3>1, QuietPath DEF Under
    <2>5. CASE ~s.begun /\ Begins(t)
        <3>1. b = Stage("message", <<>>, 0, <<>>) BY <1>0, <2>5 DEF Begins, ResponsesStage
        <3>2. PICK q : Quiet(q) /\ t.out = q \o <<MessageStart>> BY <1>0, <2>5 DEF Begins
        <3>3. MessageStart.type = "message_start" /\ MessageStart.body = <<>> BY DEF MessageStart, Event
        <3>4. Allowed(f, a, MessageStart, b) BY <1>0, <2>3, <2>5, <3>1, <3>3 DEF Allowed
        <3>5. Path(f, a, q, a) BY <1>0, <2>3, <3>2, QuietPath
        <3>. QED BY <3>2, <3>4, <3>5, PathAnd
    <2>6. CASE Breaks(t)
        <3>1. b = Stage("failed", <<>>, 0, <<>>) BY <1>0, <2>6 DEF Breaks, ResponsesStage
        <3>2. PICK q, kind : Quiet(q) /\ t.out = q \o <<ErrorEvent(kind)>> BY <1>0, <2>6 DEF Breaks
        <3>3. ErrorEvent(kind).type = "error" BY DEF ErrorEvent, Event
        <3>4. Allowed(f, a, ErrorEvent(kind), b) BY <1>0, <2>3, <3>1, <3>3 DEF Allowed
        <3>5. Path(f, a, q, a) BY <1>0, <2>3, <3>2, QuietPath
        <3>. QED BY <3>2, <3>4, <3>5, PathAnd
    <2>7. CASE s.begun /\ Finishes(t, e.usage) /\ v = e.usage
        <3>1. b = Stage("stopped", <<>>, 0, e.usage) BY <1>0, <2>7 DEF Finishes, ResponsesStage
        <3>2. PICK q, reason : Quiet(q) /\ t.out = q \o <<MessageDelta(reason, e.usage), MessageStop>>
            BY <1>0, <2>7 DEF Finishes
        <3>3. /\ MessageDelta(reason, e.usage).type = "message_delta"
              /\ MessageDelta(reason, e.usage).body = e.usage /\ MessageStop.type = "message_stop"
            BY DEF MessageDelta, MessageStop, Event
        <3>4. <<>> \o e.usage = e.usage BY NothingBefore DEF Formed
        <3>. DEFINE c == Stage("stopping", <<>>, 0, e.usage)
        <3>5. c.phase = "stopping" /\ c.open = <<>> /\ c.next = 0 /\ c.told = e.usage
            BY StageFields
        <3>5a. c = Stage("stopping", <<>>, 0, e.usage) OBVIOUS
        <3>. HIDE DEF c
        <3>6. Allowed(f, a, MessageDelta(reason, e.usage), c)
            BY <1>0, <2>3, <2>7, <3>3, <3>4, <3>5a DEF Allowed
        <3>7. Allowed(f, c, MessageStop, b) BY <1>0, <3>1, <3>3, <3>5 DEF Allowed
        <3>8. Path(f, a, q, a) BY <1>0, <2>3, <3>2, QuietPath
        <3>. QED BY <3>2, <3>6, <3>7, <3>8, PathAndTwo
    <2>. QED BY <1>2, <2>4, <2>5, <2>6, <2>7
<1>. QED BY <1>1, <1>2

\* The client is where the events it has leave it, those not yet written take it to
\* where the translator is; a stream that is left for an answer that ended knows of tokens.
ResponsesInv ==
    /\ answer \in Answers
    /\ IsRec(ViewFields, view)
    /\ Framed(st) /\ st.out = <<>> /\ LastTold(st.last) /\ (st.failed => st.completed)
    /\ Path("responses", ViewStage("responses", view), queue, ResponsesStage(st, usage))
    /\ conn = "open" /\ st.completed => st.failed
    /\ conn = "closing" => usage # <<>>
    /\ conn # "ended" => recorded = <<>>
    /\ conn = "ended" => queue = <<>> /\ recorded = <<usage>>

LEMMA ResponsesInit == ASSUME Init, flow = "responses" PROVE ResponsesInv
<1>1. st = ResponsesState /\ answer \in Answers BY DEF Init
<1>2. queue = <<>> /\ view = NoView /\ usage = <<>> /\ recorded = <<>> /\ conn = "open" BY DEF Init
<1>3. IsRec(ViewFields, view) BY <1>2 DEF NoView, IsRec, ViewFields
<1>4. /\ CoreFields \subseteq DOMAIN st /\ st.order = <<>> /\ st.out = <<>> /\ st.last = <<>>
      /\ ~st.begun /\ ~st.completed /\ ~st.failed
    BY <1>1 DEF ResponsesState, CoreFields
<1>5. Framed(st) /\ LastTold(st.last) BY <1>4, ShortSeqs DEF Framed, LastTold
<1>6. ViewStage("responses", view) = ResponsesStage(st, usage)
    <2>1. ViewStage("responses", view) = Stage("before", <<>>, 0, <<>>) BY <1>2 DEF ViewStage, NoView
    <2>2. ResponsesStage(st, usage) = Stage("before", <<>>, 0, <<>>) BY <1>4 DEF ResponsesStage
    <2>. QED BY <2>1, <2>2
<1>7. Path("responses", ViewStage("responses", view), queue, ResponsesStage(st, usage))
    BY <1>2, <1>6, PathEmpty
<1>. QED BY <1>1, <1>2, <1>3, <1>4, <1>5, <1>7 DEF ResponsesInv

LEMMA ResponsesTokens == ASSUME ResponsesInv, flow = "responses" PROVE TokensAccounted
<1>1. ASSUME conn = "ended", view.phase = "stopped" PROVE usage = view.told
    <2>1. ViewStage("responses", view) = ResponsesStage(st, usage)
        BY <1>1, PathOfNothing DEF ResponsesInv
    <2>2. ResponsesStage(st, usage).phase = "stopped" /\ ResponsesStage(st, usage).told = view.told
        BY <1>1, <2>1, StageFields DEF ViewStage
    <2>. QED BY <2>2, StageFields DEF ResponsesStage
<1>. QED BY <1>1 DEF ResponsesInv, TokensAccounted

\* The state without the events handed on.
LEMMA ResponsesHanded ==
    ASSUME NEW t, Framed(t), LastTold(t.last), NEW s, s = [t EXCEPT !.out = <<>>], NEW u
    PROVE  /\ Framed(s) /\ s.out = <<>> /\ LastTold(s.last) /\ (s.begun <=> t.begun)
           /\ (s.completed <=> t.completed) /\ (s.failed <=> t.failed)
           /\ ResponsesStage(s, u) = ResponsesStage(t, u)
<1>1. /\ Framed(s) /\ s.out = <<>> /\ s.last = t.last /\ (s.begun <=> t.begun)
      /\ (s.completed <=> t.completed) /\ (s.failed <=> t.failed)
    BY DEF Framed, CoreFields
<1>. QED BY <1>1 DEF ResponsesStage

LEMMA ResponsesAccept ==
    ASSUME ResponsesInv, flow = "responses", Waiting, NEW e, Formed(e), AcceptEvent(e)
    PROVE  ResponsesInv'
<1>. DEFINE t == TranslateEvent(st, e)  terminal == e.type \in {"completed", "incomplete", "failed"}
            a == ViewStage("responses", view)
<1>1. /\ conn = "open" /\ queue = <<>> /\ view' = view /\ recorded' = recorded /\ answer' = answer
      /\ st' = [t EXCEPT !.out = <<>>] /\ queue' = t.out
      /\ usage' = IF terminal THEN e.usage ELSE usage
      /\ conn' = IF t.completed /\ (terminal \/ ~t.failed) THEN "closing" ELSE conn
    BY DEF AcceptEvent, Waiting
<1>2. t = TranslateEvent(st, e) /\ terminal = (e.type \in {"completed", "incomplete", "failed"})
      /\ a = ViewStage("responses", view)
    OBVIOUS
<1>. HIDE DEF t, terminal, a
<1>3. a = ResponsesStage(st, usage) BY <1>1, <1>2, PathOfNothing DEF ResponsesInv
<1>4. /\ Framed(st) /\ st.out = <<>> /\ LastTold(st.last) /\ (st.failed => st.completed)
      /\ (st.completed => st.failed)
    BY <1>1 DEF ResponsesInv
<1>5. \/ t = st
      \/ ~st.completed /\ Under(t) /\ (t.begun <=> st.begun)
      \/ ~st.completed /\ ~st.begun /\ Begins(t)
      \/ ~st.completed /\ Breaks(t)
      \/ ~st.completed /\ st.begun /\ Finishes(t, e.usage) /\ e.type \in {"completed", "incomplete"}
    BY <1>2, <1>4, TranslateEnds
<1>6. e.type \in {"completed", "incomplete"} => usage' = e.usage BY <1>1, <1>2
<1>7. Path("responses", a, t.out, ResponsesStage(t, usage'))
    <2>. DEFINE v == usage'
    <2>1. e.type \in {"completed", "incomplete"} => v = e.usage BY <1>6
    <2>. HIDE DEF v
    <2>2. Path("responses", a, t.out, ResponsesStage(t, v)) BY <1>3, <1>4, <1>5, <2>1, EndsPath
    <2>. QED BY <2>2 DEF v
<1>8. /\ Framed(t) /\ LastTold(t.last) /\ (t.failed => t.completed)
      /\ t.completed /\ ~t.failed => terminal
    BY <1>2, <1>4, <1>5 DEF Under, Begins, Breaks, Finishes
<1>9. terminal => e.usage # <<>> BY <1>2 DEF Formed
<1>10. /\ Framed(st') /\ st'.out = <<>> /\ LastTold(st'.last)
       /\ (st'.completed <=> t.completed) /\ (st'.failed <=> t.failed)
       /\ ResponsesStage(st', usage') = ResponsesStage(t, usage')
    BY <1>1, <1>8, ResponsesHanded
<1>11. conn' = "open" => ~(t.completed /\ ~t.failed) BY <1>1, <1>8
<1>12. conn' = "closing" => usage' # <<>> BY <1>1, <1>8, <1>9
<1>13. conn' # "ended" /\ recorded' = <<>> BY <1>1 DEF ResponsesInv
<1>. QED BY <1>1, <1>2, <1>7, <1>8, <1>10, <1>11, <1>12, <1>13 DEF ResponsesInv

EventFields ==
    {"type", "seq", "i", "part", "id", "call", "body", "notes", "item", "output", "end", "usage"}

\* An event that ends nothing.
Plain(e) ==
    /\ IsRec(EventFields, e)
    /\ IsSeq(e.item.content) /\ HasArgs(e.item) /\ Listed(e.output) /\ e.usage = <<>>
    /\ e.type \notin {"completed", "incomplete", "failed"}

LEMMA PlainFormed ==
    ASSUME NEW e, Plain(e), NEW x, NEW f, f = [e EXCEPT !.seq = x] PROVE Formed(f)
<1>1. f.type = e.type /\ f.item = e.item /\ f.output = e.output /\ f.usage = e.usage
      /\ {"type", "item", "output", "usage"} \subseteq DOMAIN f
    BY DEF Plain, IsRec, EventFields
<1>. QED BY <1>1, ShortSeqs DEF Plain, Formed

LEMMA NothingListed == Listed(<<>>)
<1>1. DOMAIN <<>> = {} OBVIOUS
<1>. QED BY <1>1, ShortSeqs DEF Listed

LEMMA BaseFacts ==
    /\ IsRec(EventFields, BaseEvent) /\ BaseEvent.usage = <<>> /\ BaseEvent.output = <<>>
    /\ BaseEvent.item = NoItem /\ NoItem.content = <<>> /\ HasArgs(NoItem)
<1>1. IsRec(EventFields, BaseEvent) BY DEF BaseEvent, IsRec, EventFields
<1>2. HasArgs(NoItem)
    <2>1. NoItem.args = <<>> /\ "args" \in DOMAIN NoItem BY DEF NoItem
    <2>. QED BY <2>1, ShortSeqs DEF HasArgs
<1>. QED BY <1>1, <1>2 DEF BaseEvent, NoItem

Endings == {"completed", "incomplete", "failed"}

LEMMA UpstreamPlain ==
    ASSUME NEW type, type \notin Endings, NEW i, NEW part, NEW body, NEW e,
           e = Upstream(type, i, part, body)
    PROVE  /\ Plain(e)
           /\ \A x : Plain([e EXCEPT !.id = x]) /\ Plain([e EXCEPT !.notes = x])
<1>1. e = [BaseEvent EXCEPT !.type = type, !.i = i, !.part = part, !.body = body] BY DEF Upstream
<1>2. /\ IsRec(EventFields, e) /\ e.usage = <<>> /\ e.item.content = <<>> /\ HasArgs(e.item)
      /\ e.output = <<>> /\ e.type = type
    BY <1>1, BaseFacts DEF IsRec, EventFields
<1>3. Plain(e) BY <1>2, ShortSeqs, NothingListed DEF Plain, Endings
<1>4. ASSUME NEW x PROVE Plain([e EXCEPT !.id = x]) /\ Plain([e EXCEPT !.notes = x])
    BY <1>2, <1>3 DEF Plain, IsRec, EventFields
<1>. QED BY <1>3, <1>4

LEMMA ItemEventPlain ==
    ASSUME NEW type, type \notin Endings, NEW i, NEW item, IsSeq(item.content),
           HasArgs(item)
    PROVE  Plain(ItemEvent(type, i, item))
<1>. DEFINE e == ItemEvent(type, i, item)
<1>1. e = [BaseEvent EXCEPT !.type = type, !.i = i, !.item = item] BY DEF ItemEvent
<1>. HIDE DEF e
<1>2. IsRec(EventFields, e) /\ e.usage = <<>> /\ e.item = item /\ e.output = <<>> /\ e.type = type
    BY <1>1, BaseFacts DEF IsRec, EventFields
<1>3. Plain(e) BY <1>2, NothingListed DEF Plain, Endings
<1>. QED BY <1>3 DEF e

LEMMA ItemSeqs == ASSUME NEW item \in ItemShape PROVE IsSeq(item.content) /\ HasArgs(item)
<1>. DEFINE c == item.content
<1>1. c \in Seq(Text) /\ item.args \in Text /\ "args" \in DOMAIN item BY DEF ItemShape
<1>. HIDE DEF c
<1>2. IsSeq(c) BY <1>1 DEF IsSeq
<1>. QED BY <1>1, <1>2, TextIsSeq DEF c, HasArgs

LEMMA ItemsListed == ASSUME NEW items \in Seq(ItemShape) PROVE Listed(items)
<1>. DEFINE S == ItemShape
<1>1. items \in Seq(S) /\ \A x \in S : HasArgs(x) BY ItemSeqs
<1>. HIDE DEF S
<1>2. IsSeq(items) /\ \A k \in DOMAIN items : items[k] \in S BY <1>1 DEF IsSeq
<1>. QED BY <1>1, <1>2 DEF Listed

\* What the upstream sends of an answer.
LEMMA AnswerPlain ==
    ASSUME NEW k, answer[k] \in ItemShape,
           NEW step \in Announce(k) \union EndItem(k) \union Piece(k) \union EndPart(k) \union Cite(k)
    PROVE  Plain(step.event)
<1>. DEFINE item == answer[k]
<1>0. item \in ItemShape /\ item = answer[k] OBVIOUS
<1>1. IsSeq(item.content) /\ HasArgs(item) BY <1>0, ItemSeqs
<1>. HIDE DEF item
<1>2. CASE step \in Announce(k)
    <2>. DEFINE to(x) == [NotSent EXCEPT !.stage = "added", !.waits = ~CallStarts(x),
                                    !.n = IF x.type = "function_call" THEN Len(x.args) ELSE 0]
    <2>0. Announce(k) = {[event |-> ItemEvent("added", k - 1, x), to |-> to(x)]
                            : x \in Provisional(answer[k])}
        BY DEF Announce
    <2>. HIDE DEF to
    <2>1. PICK x \in Provisional(item) : step.event = ItemEvent("added", k - 1, x)
        BY <1>0, <1>2, <2>0
    <2>2. x.content \in {<<>>, item.content} /\ x.args \in {<<>>, item.args}
          /\ "args" \in DOMAIN x
        BY <1>0, <2>1 DEF Provisional, ItemShape
    <2>. DEFINE type == "added"  i == k - 1
    <2>3. type \notin Endings /\ step.event = ItemEvent(type, i, x) BY <2>1 DEF Endings
    <2>. HIDE DEF type, i
    <2>4. IsSeq(x.content) /\ HasArgs(x) BY <1>1, <2>2, ShortSeqs DEF HasArgs
    <2>. QED BY <2>3, <2>4, ItemEventPlain
<1>3. CASE step \in EndItem(k)
    <2>1. PICK x \in Final(k) : step.event = ItemEvent("done", k - 1, x)
        BY <1>3 DEF EndItem
    <2>2. x.content \in {<<>>, item.content} /\ x.args \in {<<>>, item.args}
          /\ "args" \in DOMAIN x
        BY <1>0, <2>1 DEF Final, ItemShape
    <2>. DEFINE type == "done"  i == k - 1
    <2>3. type \notin Endings /\ step.event = ItemEvent(type, i, x) BY <2>1 DEF Endings
    <2>. HIDE DEF type, i
    <2>4. IsSeq(x.content) /\ HasArgs(x) BY <1>1, <2>2, ShortSeqs DEF HasArgs
    <2>. QED BY <2>3, <2>4, ItemEventPlain
<1>4. CASE step \in Piece(k)
    <2>1. PICK part, i, index, body : step.event = Upstream(PieceType(answer[k], part), i, index, body)
        BY SMTT(20), <1>4 DEF Piece
    <2>2. PieceType(answer[k], part) \notin Endings BY DEF PieceType, Endings
    <2>. QED BY <2>1, <2>2, UpstreamPlain
<1>5. CASE step \in EndPart(k)
    <2>. DEFINE part == sent[k].part  body == PartsOf(answer[k])[part]
                type == EndType(PieceType(answer[k], part))  i == k - 1
                index == PartIndex(answer[k], part)  id == answer[k].id
                e == Upstream(type, i, index, body)
    <2>1. step.event = [e EXCEPT !.id = id] BY <1>5 DEF EndPart
    <2>2. type \notin Endings BY DEF EndType, Endings
    <2>3. e = Upstream(type, i, index, body) OBVIOUS
    <2>. HIDE DEF part, body, type, i, index, id, e
    <2>4. Plain([e EXCEPT !.id = id]) BY <2>2, <2>3, UpstreamPlain
    <2>. QED BY <2>1, <2>4
<1>6. CASE step \in Cite(k)
    <2>. DEFINE p == sent[k]  notes == At(answer[k].notes, p.part)  i == k - 1  index == p.part - 1
                Note(type, body, told) == [Upstream(type, i, index, body) EXCEPT !.notes = told]
                one == {[event |-> Note("annotation", <<>>, <<notes[j]>>), to |-> [p EXCEPT !.notes = j]]
                            : j \in DOMAIN notes \cap {p.notes + 1}}
                all == {[event |-> Note("part_done", answer[k].content[p.part], notes),
                         to |-> [p EXCEPT !.notes = Len(notes) + 1]]}
    <2>1. ASSUME NEW type \in {"annotation", "part_done"}, NEW body, NEW told
          PROVE  Plain(Note(type, body, told))
        <3>. DEFINE e == Upstream(type, i, index, body)
        <3>1. e = Upstream(type, i, index, body) /\ type \notin Endings BY <2>1 DEF Endings
        <3>2. Note(type, body, told) = [e EXCEPT !.notes = told] OBVIOUS
        <3>. HIDE DEF e, i, index, Note
        <3>3. Plain([e EXCEPT !.notes = told]) BY <3>1, UpstreamPlain
        <3>. QED BY <3>2, <3>3
    <2>2. step \in one \/ step \in all BY <1>6 DEF Cite
    <2>3. CASE step \in one
        <3>. HIDE DEF Note
        <3>1. PICK j \in DOMAIN notes : step.event = Note("annotation", <<>>, <<notes[j]>>) BY <2>3
        <3>. QED BY <2>1, <3>1
    <2>4. CASE step \in all
        <3>. HIDE DEF Note
        <3>1. step.event = Note("part_done", answer[k].content[p.part], notes) BY <2>4
        <3>. QED BY <2>1, <3>1
    <2>. QED BY <2>2, <2>3, <2>4
<1>. QED BY <1>2, <1>3, <1>4, <1>5, <1>6

\* What anybody else may send.
LEMMA OthersFormed ==
    /\ \A e \in Faults \union SearchFaults : Formed(e)
    /\ \A output, x : Listed(output) => Formed([Terminal("created", Absent, output, <<>>) EXCEPT !.seq = x])
    /\ \A output, x : Listed(output) => Formed([Terminal("completed", "stop", output, <<"u">>) EXCEPT !.seq = x])
    /\ \A e, x : Formed(e) => Formed([e EXCEPT !.seq = x])
<1>1. ASSUME NEW e \in Faults \union SearchFaults PROVE Formed(e)
    <2>1. e \in EventShape /\ Tallied(e) BY FaultsAssumption
    <2>2. e.item \in ItemShape /\ e.usage \in Text /\ {"type", "item", "output", "usage"} \subseteq DOMAIN e
          /\ e.output \in Seq(ItemShape)
        BY <2>1 DEF EventShape
    <2>3. IsSeq(e.item.content) /\ HasArgs(e.item) BY <2>2, ItemSeqs
    <2>4. Listed(e.output) BY <2>2, ItemsListed
    <2>5. IsSeq(e.usage) BY <2>2, TextIsSeq
    <2>. QED BY <2>1, <2>2, <2>3, <2>4, <2>5 DEF Formed, Tallied
<1>2. ASSUME NEW output, NEW x, Listed(output)
      PROVE Formed([Terminal("created", Absent, output, <<>>) EXCEPT !.seq = x])
    <2>. DEFINE type == "created"  none == <<>>  e == Terminal(type, Absent, output, none)
    <2>1. type \notin Endings /\ none = <<>> BY DEF Endings
    <2>2. e = [BaseEvent EXCEPT !.type = type, !.end = Absent, !.output = output, !.usage = none]
        BY DEF Terminal
    <2>3. e = Terminal(type, Absent, output, none) OBVIOUS
    <2>. HIDE DEF type, none, e
    <2>4. /\ IsRec(EventFields, e) /\ e.usage = <<>> /\ e.item.content = <<>> /\ HasArgs(e.item)
          /\ e.output = output /\ e.type = type
        BY <2>1, <2>2, BaseFacts DEF IsRec, EventFields
    <2>5. Plain(e) BY <1>2, <2>1, <2>4, ShortSeqs DEF Plain, Endings
    <2>6. Formed([e EXCEPT !.seq = x]) BY <2>5, PlainFormed
    <2>. QED BY <2>6 DEF e, type, none
<1>3. ASSUME NEW output, NEW x, Listed(output)
      PROVE Formed([Terminal("completed", "stop", output, <<"u">>) EXCEPT !.seq = x])
    <2>. DEFINE type == "completed"  end == "stop"  u == <<"u">>
                e == Terminal(type, end, output, u)  f == [e EXCEPT !.seq = x]
    <2>1. IsSeq(u) /\ u # <<>> BY ShortSeqs
    <2>2. e = [BaseEvent EXCEPT !.type = type, !.end = end, !.output = output, !.usage = u]
        BY DEF Terminal
    <2>3. f = [e EXCEPT !.seq = x] OBVIOUS
    <2>. HIDE DEF type, end, u, e, f
    <2>4. /\ IsRec(EventFields, e) /\ e.usage = u /\ e.item.content = <<>> /\ HasArgs(e.item)
          /\ e.output = output
        BY <2>2, BaseFacts DEF IsRec, EventFields
    <2>5. /\ {"type", "item", "output", "usage"} \subseteq DOMAIN f /\ f.usage = u
          /\ f.item.content = <<>> /\ HasArgs(f.item) /\ f.output = output
        BY <2>3, <2>4 DEF IsRec, EventFields
    <2>6. Formed(f) BY <1>3, <2>1, <2>5, ShortSeqs DEF Formed
    <2>. QED BY <2>6 DEF type, end, u, e, f
<1>4. ASSUME NEW e, NEW x, Formed(e) PROVE Formed([e EXCEPT !.seq = x])
    <2>. DEFINE f == [e EXCEPT !.seq = x]
    <2>1. /\ f.type = e.type /\ f.item = e.item /\ f.output = e.output /\ f.usage = e.usage
          /\ DOMAIN f = DOMAIN e
        BY <1>4 DEF Formed
    <2>. HIDE DEF f
    <2>2. Formed(f) BY <1>4, <2>1 DEF Formed
    <2>. QED BY <2>2 DEF f
<1>. QED BY <1>1, <1>2, <1>3, <1>4

\* So is every event that is read; another is read only if the client stays.
LEMMA ReadsFormed ==
    ASSUME Tells, answer \in Seq(ItemShape), LastTold(st.last),
           ReceiveCreated \/ ReceiveItemEvent \/ ReceiveReplay \/ ReceiveTerminal \/ ReceiveFault
    PROVE  Waiting /\ \E e : Formed(e) /\ Accept(e)
<1>0. \A output \in {<<>>, answer} : Listed(output) BY ItemsListed, NothingListed
<1>1. CASE ReceiveCreated
    <2>1. PICK output \in {<<>>, answer}, seq \in {"none", "next"} : Accept([Terminal("created", Absent, output, <<>>) EXCEPT !.seq = seq])
        BY <1>1 DEF ReceiveCreated
    <2>. QED BY <1>0, <1>1, <2>1, OthersFormed DEF ReceiveCreated, Listening
<1>2. CASE ReceiveItemEvent
    <2>. DEFINE Steps(k) ==
                    Announce(k) \union EndItem(k) \union Piece(k) \union EndPart(k) \union Cite(k)
    <2>1a. PICK k \in DOMAIN answer : \E step \in Steps(k) : Accept(Numbered(step.event))
        BY <1>2 DEF ReceiveItemEvent
    <2>1. PICK step \in Steps(k) : Accept(Numbered(step.event)) BY <2>1a
    <2>2. answer[k] \in ItemShape
        <3>. DEFINE S == ItemShape
        <3>1. answer \in Seq(S) OBVIOUS
        <3>. HIDE DEF S
        <3>2. answer[k] \in S BY <3>1
        <3>. QED BY <3>2 DEF S
    <2>3. Plain(step.event) BY <2>2, AnswerPlain
    <2>4. Formed(Numbered(step.event)) BY <2>3, PlainFormed DEF Numbered
    <2>. QED BY <1>2, <2>1, <2>4 DEF ReceiveItemEvent, Listening
<1>3. CASE ReceiveReplay
    <2>1. Accept([Head(st.last) EXCEPT !.seq = "same"]) /\ st.last # <<>> BY <1>3 DEF ReceiveReplay
    <2>2. PICK e : st.last = <<e>> /\ Formed(e) BY <2>1 DEF LastTold
    <2>3. Head(st.last) = e BY <2>2
    <2>. QED BY <1>3, <2>1, <2>2, <2>3, OthersFormed DEF ReceiveReplay, Listening
<1>4. CASE ReceiveTerminal
    <2>1. PICK output \in {<<>>, answer} : Accept(Numbered(Terminal("completed", "stop", output, <<"u">>)))
        BY <1>4 DEF ReceiveTerminal
    <2>. QED BY <1>0, <1>4, <2>1, OthersFormed DEF ReceiveTerminal, Listening, Numbered
<1>5. CASE ReceiveFault
    <2>1. PICK e \in Faults \union SearchFaults : Accept(e) BY <1>5 DEF ReceiveFault
    <2>. QED BY <1>5, <2>1, OthersFormed DEF ReceiveFault, Listening
<1>. QED BY <1>1, <1>2, <1>3, <1>4, <1>5

\* The translator is left at an error, or at the end of the upstream's events.
LEMMA ResponsesLeave ==
    ASSUME ResponsesInv, flow = "responses", Waiting, NEW kind,
           NEW t, t = TerminateResponses(st, kind), Leave(t)
    PROVE  ResponsesInv'
<1>. DEFINE a == ViewStage("responses", view)
<1>1. /\ conn = "open" /\ queue = <<>> /\ view' = view /\ recorded' = recorded /\ answer' = answer
      /\ st' = [t EXCEPT !.out = <<>>] /\ queue' = t.out /\ usage' = usage /\ conn' = "cut"
    BY DEF Leave, Waiting
<1>. HIDE DEF a
<1>2. /\ Framed(st) /\ st.out = <<>> /\ LastTold(st.last) /\ (st.failed => st.completed)
      /\ (st.completed => st.failed) /\ a = ResponsesStage(st, usage)
    BY <1>1, PathOfNothing DEF ResponsesInv, a
<1>3. t = st \/ (~st.completed /\ Breaks(t))
    <2>1. CASE st.completed BY <2>1 DEF TerminateResponses
    <2>2. CASE ~st.completed
        <3>1. Under(st) BY <1>2, <2>2, ShortSeqs DEF Under, Quiet
        <3>. QED BY <2>2, <3>1, TerminateBreaks
    <2>. QED BY <2>1, <2>2
<1>4. Path("responses", a, t.out, ResponsesStage(t, usage))
    <2>. DEFINE e == [BaseEvent EXCEPT !.seq = "none"]
    <2>0. Plain(BaseEvent) BY BaseFacts, NothingListed, ShortSeqs DEF Plain, BaseEvent
    <2>1. Formed(e) BY <2>0, PlainFormed
    <2>. HIDE DEF e
    <2>. QED BY <1>2, <1>3, <2>1, EndsPath
<1>5. Framed(t) /\ LastTold(t.last) /\ (t.failed => t.completed) /\ (t.completed => t.failed)
    BY <1>2, <1>3 DEF Breaks
<1>6. /\ Framed(st') /\ st'.out = <<>> /\ LastTold(st'.last)
      /\ (st'.completed <=> t.completed) /\ (st'.failed <=> t.failed)
      /\ ResponsesStage(st', usage') = ResponsesStage(t, usage)
    BY <1>1, <1>5, ResponsesHanded
<1>7. recorded' = <<>> BY <1>1 DEF ResponsesInv
<1>. QED BY <1>1, <1>4, <1>5, <1>6, <1>7 DEF ResponsesInv, a

LEMMA ResponsesStep ==
    ASSUME ResponsesInv, flow = "responses", conn # "gone", Next, conn' # "gone"
    PROVE  ResponsesInv'
<1>. DEFINE a == ViewStage("responses", view)
<1>1. CASE ReceiveChunk \/ ReceiveRelayed BY <1>1 DEF ReceiveChunk, ReceiveRelayed, Reading
<1>2. CASE ReceiveCreated \/ ReceiveItemEvent \/ ReceiveReplay \/ ReceiveTerminal \/ ReceiveFault
    <2>1. answer \in Seq(ItemShape) BY AnswersAssumption DEF ResponsesInv
    <2>2. Waiting /\ \E e : Formed(e) /\ Accept(e)
        BY <1>2, <2>1, ReadsFormed DEF ResponsesInv, Tells
    <2>3. PICK e : Formed(e) /\ AcceptEvent(e) BY <2>2 DEF Accept
    <2>. QED BY <2>2, <2>3, ResponsesAccept
<1>3. CASE Heartbeat
    <2>1. /\ conn = "open" /\ queue = <<>> /\ queue' = <<PingFrame>> /\ ~st.failed /\ answer' = answer
          /\ view' = view /\ st' = st /\ usage' = usage /\ recorded' = recorded /\ conn' = conn
        BY <1>3 DEF Heartbeat, Waiting
    <2>2. a = ResponsesStage(st, usage) /\ ~st.completed
        BY <2>1, PathOfNothing DEF ResponsesInv
    <2>3. a.phase \in {"before", "message"} BY <2>1, <2>2, StageFields DEF ResponsesStage
    <2>4. PingFrame.type = "ping" BY DEF PingFrame, Event
    <2>5. Allowed("responses", a, PingFrame, a) BY <2>3, <2>4 DEF Allowed
    <2>6. Path("responses", a, <<PingFrame>>, ResponsesStage(st, usage)) BY <2>2, <2>5, PathOne
    <2>. QED BY <2>1, <2>6 DEF ResponsesInv
<1>4. CASE Interrupt \/ EndOfStream
    <2>. DEFINE kind == "api_error"  t == TerminateResponses(st, kind)
    <2>1. Waiting /\ Leave(t)
        BY <1>4 DEF Interrupt, EndOfStream, Interrupted
    <2>2. t = TerminateResponses(st, kind) OBVIOUS
    <2>. HIDE DEF t, kind
    <2>. QED BY <2>1, <2>2, ResponsesLeave
<1>5. CASE Deliver
    <2>1. /\ queue # <<>> /\ view' = See(view, Head(queue)) /\ queue' = Tail(queue)
          /\ st' = st /\ usage' = usage /\ recorded' = recorded /\ conn' = conn /\ answer' = answer
          /\ conn \in {"open", "closing", "cut"}
        BY <1>5 DEF Deliver
    <2>2. PICK c : /\ Allowed("responses", a, Head(queue), c)
                   /\ Path("responses", c, Tail(queue), ResponsesStage(st, usage))
        BY <2>1, PathHead DEF ResponsesInv
    <2>3. IsRec(ViewFields, view') /\ ViewStage("responses", view') = c
        BY <2>1, <2>2, SeeAllowed DEF ResponsesInv
    <2>4. Path("responses", ViewStage("responses", view'), queue', ResponsesStage(st', usage'))
        BY <2>1, <2>2, <2>3
    <2>. QED BY <2>1, <2>3, <2>4 DEF ResponsesInv
<1>6. CASE Record
    <2>1. /\ queue = <<>> /\ conn \in {"closing", "cut"} /\ recorded' = Append(recorded, usage)
          /\ conn' = "ended" /\ queue' = queue /\ view' = view /\ st' = st /\ usage' = usage
          /\ answer' = answer
        BY <1>6 DEF Record
    <2>2. recorded = <<>> BY <2>1 DEF ResponsesInv
    <2>3. recorded' = <<usage>> BY <2>1, <2>2
    <2>. QED BY <2>1, <2>3 DEF ResponsesInv
<1>7. CASE Disconnect BY <1>7 DEF Disconnect
<1>. QED BY <1>1, <1>2, <1>3, <1>4, <1>5, <1>6, <1>7 DEF Next


(***************************************************************************)
(* Web search                                                              *)
(***************************************************************************)
(***************************************************************************)
(* Web search                                                              *)
(***************************************************************************)
\* FlattenSeq joins the sequences one after the other.
LEMMA FlattenCourse ==
    ASSUME NEW q, IsSeq(q), Len(q) # 0
    PROVE  \E f : /\ FlattenSeq(q) = f[Len(q)] /\ f[1] = q[1]
                  /\ \A i \in 2 .. Len(q) : f[i] = f[i - 1] \o q[i]
<1>. DEFINE n == Len(q)
            C(g, j) == g = [i \in 1 .. j |-> IF i = 1 THEN q[i] ELSE g[i - 1] \o q[i]]
            T == {j \in 0 .. n : \E g : C(g, j)}
<1>0. n \in Nat /\ n # 0 BY SeqFacts
<1>1. C([i \in 1 .. 0 |-> 0], 0) OBVIOUS
<1>2. 0 \in T
    <2>. HIDE DEF C
    <2>. QED BY <1>0, <1>1
<1>3. ASSUME NEW j \in 1 .. n, j - 1 \in T PROVE j \in T
    <2>1. PICK g : C(g, j - 1) BY <1>3
    <2>. DEFINE x == IF j = 1 THEN q[j] ELSE g[j - 1] \o q[j]
                h == [i \in 1 .. j |-> IF i = j THEN x ELSE g[i]]
    <2>2. \A i \in 1 .. j - 1 : g[i] = IF i = 1 THEN q[i] ELSE g[i - 1] \o q[i] BY <2>1
    <2>3. x = IF j = 1 THEN q[j] ELSE g[j - 1] \o q[j] OBVIOUS
    <2>. HIDE DEF x, C
    <2>4. h[j] = x /\ \A i \in 1 .. j - 1 : h[i] = g[i] BY <1>0
    <2>5. j # 1 => h[j - 1] = g[j - 1] BY <1>0, <2>4
    <2>6. ASSUME NEW i \in 1 .. j PROVE h[i] = IF i = 1 THEN q[i] ELSE h[i - 1] \o q[i]
        <3>1. CASE i = j BY <2>3, <2>4, <2>5, <3>1
        <3>2. CASE i # j
            <4>1. i \in 1 .. j - 1 /\ (i # 1 => i - 1 \in 1 .. j - 1) BY <3>2
            <4>2. h[i] = g[i] /\ (i # 1 => h[i - 1] = g[i - 1]) BY <2>4, <4>1
            <4>. HIDE DEF h
            <4>. QED BY <2>2, <4>1, <4>2
        <3>. QED BY <3>1, <3>2
    <2>7. h = [i \in 1 .. j |-> h[i]] OBVIOUS
    <2>8. C(h, j)
        <3>. HIDE DEF h
        <3>. QED BY <2>6, <2>7 DEF C
    <2>. QED BY <1>0, <2>8
<1>4. n \in T
    <2>. HIDE DEF T, n
    <2>. QED BY <1>0, <1>2, <1>3, InductTo
<1>. DEFINE f == CHOOSE g : C(g, n)
<1>5. C(f, n) BY <1>4
<1>6. FlattenSeq(q) = f[n] BY <1>0 DEF FlattenSeq
<1>. HIDE DEF f
<1>7. \A i \in 1 .. n : f[i] = IF i = 1 THEN q[i] ELSE f[i - 1] \o q[i] BY <1>5
<1>. HIDE DEF n
<1>8. f[1] = q[1]
    <2>1. 1 \in 1 .. n BY <1>0
    <2>. QED BY <1>7, <2>1
<1>9. ASSUME NEW i \in 2 .. n PROVE f[i] = f[i - 1] \o q[i]
    <2>1. i \in 1 .. n /\ i # 1 BY <1>0
    <2>. QED BY <1>7, <2>1
<1>. QED BY <1>6, <1>8, <1>9 DEF n

LEMMA FlattenIn ==
    ASSUME NEW S, NEW q, IsSeq(q), \A i \in DOMAIN q : q[i] \in Seq(S)
    PROVE  FlattenSeq(q) \in Seq(S)
<1>. DEFINE n == Len(q)
<1>0. n \in Nat /\ DOMAIN q = 1 .. n BY SeqFacts
<1>1. CASE n = 0
    <2>1. q = <<>> BY <1>1, SeqFacts
    <2>. QED BY <1>1, <2>1 DEF FlattenSeq
<1>2. CASE n # 0
    <2>1. PICK f : /\ FlattenSeq(q) = f[n] /\ f[1] = q[1]
                   /\ \A i \in 2 .. n : f[i] = f[i - 1] \o q[i]
        BY <1>2, FlattenCourse
    <2>. DEFINE m == n - 1  T == {j \in 0 .. m : f[j + 1] \in Seq(S)}
    <2>2. m \in Nat /\ n = m + 1 BY <1>0, <1>2
    <2>. HIDE DEF m, n
    <2>3. 0 \in T
        <3>1. f[0 + 1] \in Seq(S) BY <1>0, <2>1, <2>2
        <3>. QED BY <2>2, <3>1
    <2>4. ASSUME NEW j \in 1 .. m, j - 1 \in T PROVE j \in T
        <3>1. j + 1 \in 2 .. n /\ (j + 1) - 1 = j /\ (j - 1) + 1 = j /\ j + 1 \in 1 .. n BY <2>2
        <3>2. f[j] \in Seq(S) /\ q[j + 1] \in Seq(S) BY <1>0, <2>4, <3>1
        <3>3. f[j + 1] = f[j] \o q[j + 1] BY <2>1, <3>1
        <3>4. f[j + 1] \in Seq(S) BY <3>2, <3>3
        <3>. QED BY <2>2, <3>4
    <2>5. m \in T
        <3>. HIDE DEF T
        <3>. QED BY <2>2, <2>3, <2>4, InductTo
    <2>. QED BY <2>1, <2>2, <2>5
<1>. QED BY <1>1, <1>2

LEMMA FlattenPath ==
    ASSUME NEW f, NEW q, IsSeq(q), NEW p, \A i \in 1 .. Len(q) : Path(f, p[i - 1], q[i], p[i])
    PROVE  Path(f, p[0], FlattenSeq(q), p[Len(q)])
<1>. DEFINE n == Len(q)
<1>0. n \in Nat BY SeqFacts
<1>1. CASE n = 0
    <2>1. q = <<>> BY <1>1, SeqFacts
    <2>2. FlattenSeq(q) = <<>> BY <1>1, <2>1 DEF FlattenSeq
    <2>. QED BY <1>1, <2>2, PathEmpty
<1>2. CASE n # 0
    <2>1. PICK g : /\ FlattenSeq(q) = g[n] /\ g[1] = q[1]
                   /\ \A i \in 2 .. n : g[i] = g[i - 1] \o q[i]
        BY <1>2, FlattenCourse
    <2>. DEFINE m == n - 1  T == {j \in 0 .. m : Path(f, p[0], g[j + 1], p[j + 1])}
    <2>2. m \in Nat /\ n = m + 1 BY <1>0, <1>2
    <2>3. \A i \in 1 .. n : Path(f, p[i - 1], q[i], p[i]) OBVIOUS
    <2>. HIDE DEF m, n
    <2>4. 0 \in T
        <3>1. 1 \in 1 .. n /\ 0 + 1 = 1 /\ 1 - 1 = 0 BY <2>2
        <3>2. Path(f, p[0], q[1], p[1]) BY <2>3, <3>1
        <3>. QED BY <2>1, <2>2, <3>1, <3>2
    <2>5. ASSUME NEW j \in 1 .. m, j - 1 \in T PROVE j \in T
        <3>1. j + 1 \in 2 .. n /\ (j + 1) - 1 = j /\ (j - 1) + 1 = j /\ j + 1 \in 1 .. n BY <2>2
        <3>2. Path(f, p[0], g[j], p[j]) BY <2>5, <3>1
        <3>3. Path(f, p[j], q[j + 1], p[j + 1])
            <4>. DEFINE i == j + 1
            <4>1. i \in 1 .. n /\ i - 1 = j BY <3>1
            <4>. HIDE DEF i
            <4>2. Path(f, p[i - 1], q[i], p[i]) BY <2>3, <4>1
            <4>. QED BY <4>1, <4>2 DEF i
        <3>4. Path(f, p[0], g[j] \o q[j + 1], p[j + 1]) BY <3>2, <3>3, PathJoin
        <3>5. g[j + 1] = g[j] \o q[j + 1] BY <2>1, <3>1
        <3>6. Path(f, p[0], g[j + 1], p[j + 1]) BY <3>4, <3>5
        <3>7. j \in 0 .. m BY <2>2
        <3>. QED BY <3>6, <3>7
    <2>6. m \in T
        <3>. HIDE DEF T
        <3>. QED BY <2>2, <2>4, <2>5, InductTo
    <2>. QED BY <2>1, <2>2, <2>6 DEF n
<1>. QED BY <1>1, <1>2

LEMMA MappedSeq ==
    ASSUME NEW q, IsSeq(q), NEW r, DOMAIN r = DOMAIN q, r = [k \in DOMAIN q |-> r[k]],
           NEW S, \A k \in DOMAIN q : r[k] \in S
    PROVE  r \in Seq(S) /\ IsSeq(r) /\ Len(r) = Len(q)
<1>1. Len(q) \in Nat /\ DOMAIN q = 1 .. Len(q) BY SeqFacts
<1>2. r = [k \in 1 .. Len(q) |-> r[k]] /\ \A k \in 1 .. Len(q) : r[k] \in S BY <1>1
<1>3. r \in Seq(S) BY <1>1, <1>2
<1>. QED BY <1>1, <1>3 DEF IsSeq

LEMMA FlattenSeqs ==
    ASSUME NEW q, IsSeq(q), \A i \in DOMAIN q : IsSeq(q[i])
    PROVE  IsSeq(FlattenSeq(q))
<1>. DEFINE S == UNION {{q[i][j] : j \in DOMAIN q[i]} : i \in DOMAIN q}
<1>1. ASSUME NEW i \in DOMAIN q PROVE q[i] \in Seq(S)
    <2>. DEFINE r == q[i]
    <2>1. \A j \in DOMAIN r : r[j] \in S OBVIOUS
    <2>2. PICK R : r \in Seq(R) BY DEF IsSeq
    <2>3. r = [j \in 1 .. Len(r) |-> r[j]] /\ Len(r) \in Nat /\ DOMAIN r = 1 .. Len(r) BY <2>2
    <2>. HIDE DEF r, S
    <2>4. r \in Seq(S) BY <2>1, <2>3
    <2>. QED BY <2>4 DEF r
<1>. HIDE DEF S
<1>2. FlattenSeq(q) \in Seq(S) BY <1>1, FlattenIn
<1>. QED BY <1>2 DEF IsSeq

LEMMA PathThree ==
    ASSUME NEW f, NEW a, NEW e, NEW b, Allowed(f, a, e, b), NEW g, NEW c, Allowed(f, b, g, c),
           NEW h, NEW d, Allowed(f, c, h, d)
    PROVE  Path(f, a, <<e, g, h>>, d)
<1>. DEFINE p == [i \in 0 .. 3 |-> IF i = 0 THEN a ELSE IF i = 1 THEN b ELSE IF i = 2 THEN c ELSE d]
            q == <<e, g, h>>
<1>1. p[0] = a /\ p[1] = b /\ p[2] = c /\ p[3] = d OBVIOUS
<1>2. q \in Seq({e, g, h}) /\ Len(q) = 3 /\ q[1] = e /\ q[2] = g /\ q[3] = h OBVIOUS
<1>. HIDE DEF p, q
<1>3. \A i \in 1 .. 3 : Allowed(f, p[i - 1], q[i], p[i])
    <2>1. \A i \in 1 .. 3 : i = 1 \/ i = 2 \/ i = 3 OBVIOUS
    <2>2. 1 - 1 = 0 /\ 2 - 1 = 1 /\ 3 - 1 = 2 OBVIOUS
    <2>3. Allowed(f, p[1 - 1], q[1], p[1]) BY <1>1, <1>2, <2>2
    <2>4. Allowed(f, p[2 - 1], q[2], p[2]) BY <1>1, <1>2, <2>2
    <2>5. Allowed(f, p[3 - 1], q[3], p[3]) BY <1>1, <1>2, <2>2
    <2>. QED BY <2>1, <2>3, <2>4, <2>5
<1>4. Path(f, a, q, d) BY <1>1, <1>2, <1>3 DEF Path, IsSeq
<1>. QED BY <1>4 DEF q

\* The events of a block.
SearchKinds == {"text", "server_tool_use", "web_search_tool_result"}

LEMMA BlockPath ==
    ASSUME NEW block, block.kind \in SearchKinds, NEW k,
           NEW a, a = Stage("message", <<>>, k, <<>>)
    PROVE  Path("search", a, BlockEvents(block, k), Stage("message", <<>>, k + 1, <<>>))
<1>. DEFINE f == "search"  kind == block.kind  b == Stage("message", <<k, kind>>, k + 1, <<>>)
            c == Stage("message", <<>>, k + 1, <<>>)
<1>1. /\ a.phase = "message" /\ a.open = <<>> /\ a.next = k /\ a.told = <<>>
      /\ b.phase = "message" /\ b.open = <<k, kind>> /\ b.next = k + 1 /\ b.told = <<>>
    BY StageFields
<1>2. f # "responses" /\ b = Stage("message", <<k, kind>>, k + 1, <<>>)
      /\ c = Stage("message", <<>>, k + 1, <<>>)
    OBVIOUS
<1>. HIDE DEF f, b, c
<1>3. \A body : Allowed(f, a, BlockStart(k, kind, body), b) BY <1>1, <1>2, AllowedSteps
<1>4. \A d, body : d \in Promised!Deltas[kind] => Allowed(f, b, BlockDelta(k, d, body), b)
    BY <1>1, <1>2, AllowedSteps
<1>5. Allowed(f, b, BlockStop(k), c) BY <1>1, <1>2, AllowedSteps
<1>6. CASE kind = "text"
    <2>. DEFINE e == BlockStart(k, "text", <<>>)  g == BlockDelta(k, "text", block.body)
    <2>1. BlockEvents(block, k) = <<e, g, BlockStop(k)>> BY <1>6 DEF BlockEvents
    <2>2. Allowed(f, a, e, b) BY <1>3, <1>6
    <2>3. "text" \in Promised!Deltas[kind] BY <1>6 DEF Promised!Deltas
    <2>4. Allowed(f, b, g, b) BY <1>4, <2>3
    <2>. HIDE DEF e, g
    <2>. QED BY <1>2, <1>5, <2>1, <2>2, <2>4, PathThree DEF f, c
<1>7. CASE kind = "server_tool_use"
    <2>. DEFINE e == BlockStart(k, kind, <<block.body[1]>>)
                g == BlockDelta(k, "input_json", Tail(block.body))
    <2>1. BlockEvents(block, k) = <<e, g, BlockStop(k)>> BY <1>7 DEF BlockEvents
    <2>2. Allowed(f, a, e, b) BY <1>3
    <2>3. "input_json" \in Promised!Deltas[kind] BY <1>7 DEF Promised!Deltas
    <2>4. Allowed(f, b, g, b) BY <1>4, <2>3
    <2>. HIDE DEF e, g
    <2>. QED BY <1>2, <1>5, <2>1, <2>2, <2>4, PathThree DEF f, c
<1>8. CASE kind = "web_search_tool_result"
    <2>. DEFINE e == BlockStart(k, kind, block.body)
    <2>1. BlockEvents(block, k) = <<e, BlockStop(k)>> BY <1>8 DEF BlockEvents
    <2>2. Allowed(f, a, e, b) BY <1>3
    <2>. HIDE DEF e
    <2>. QED BY <1>2, <1>5, <2>1, <2>2, PathTwo DEF f, c
<1>. QED BY <1>6, <1>7, <1>8 DEF SearchKinds

LEMMA SearchBlocksFacts ==
    ASSUME NEW output, Listed(output), NEW blocks, blocks = SearchBlocks(output)
    PROVE  IsSeq(blocks) /\ \A k \in DOMAIN blocks : blocks[k].kind \in SearchKinds
<1>. DEFINE x == Extract(output)
            told == [k \in DOMAIN output |-> IF IsSearch(output[k]) THEN output[k].args ELSE <<>>]
            asked == IF x.queries = <<>> THEN <<"">> ELSE x.queries
            id(k) == IF Len(asked) = 1 /\ x.ids # <<>> THEN x.ids[1] ELSE "srvtoolu_" \o ToString(k)
            use(k) == [kind |-> "server_tool_use", body |-> <<id(k), asked[k]>>]
            result(k) == [kind |-> "web_search_tool_result",
                          body |-> <<id(k)>> \o (IF k = Len(asked) THEN x.sources ELSE <<>>)]
            pairs == [k \in DOMAIN asked |-> <<use(k), result(k)>>]
            text == [kind |-> "text", body |-> x.text]
            pre == IF x.sources = <<>> /\ x.queries = <<>> /\ x.ids = <<>> THEN <<>> ELSE FlattenSeq(pairs)
            S == {use(k) : k \in DOMAIN asked} \union {result(k) : k \in DOMAIN asked} \union {text}
<1>1. IsSeq(told) /\ \A k \in DOMAIN told : IsSeq(told[k])
    <2>. DEFINE T == {told[k] : k \in DOMAIN output}
    <2>1. \A k \in DOMAIN output : told[k] \in T OBVIOUS
    <2>2. DOMAIN told = DOMAIN output /\ told = [k \in DOMAIN output |-> told[k]] OBVIOUS
    <2>3. \A k \in DOMAIN told : IsSeq(told[k])
        <3>1. \A k \in DOMAIN output : told[k] \in {output[k].args, <<>>} OBVIOUS
        <3>. HIDE DEF told, T
        <3>. QED BY <2>2, <3>1, ShortSeqs DEF Listed, HasArgs
    <2>4. IsSeq(output) BY DEF Listed
    <2>. HIDE DEF told, T
    <2>. QED BY <2>1, <2>2, <2>3, <2>4, MappedSeq
<1>2. x.queries = FlattenSeq(told) BY DEF Extract
<1>3. IsSeq(x.queries)
    <2>. HIDE DEF told, x
    <2>. QED BY <1>1, <1>2, FlattenSeqs
<1>4. IsSeq(asked)
    <2>. HIDE DEF x
    <2>. QED BY <1>3, ShortSeqs
<1>5. blocks = pre \o <<text>> BY DEF SearchBlocks
<1>6. \A b \in S : b.kind \in SearchKinds
    <2>. HIDE DEF id, asked, x
    <2>1. \A k : use(k).kind = "server_tool_use" /\ result(k).kind = "web_search_tool_result" OBVIOUS
    <2>2. text.kind = "text" OBVIOUS
    <2>. HIDE DEF use, result, text
    <2>. QED BY <2>1, <2>2 DEF SearchKinds
<1>7. pairs = [k \in DOMAIN asked |-> pairs[k]] /\ DOMAIN pairs = DOMAIN asked
      /\ \A k \in DOMAIN asked : pairs[k] = <<use(k), result(k)>> /\ use(k) \in S /\ result(k) \in S
    <2>. HIDE DEF id, asked, x
    <2>. QED OBVIOUS
<1>8. text \in S OBVIOUS
<1>. HIDE DEF x, told, asked, id, use, result, text, S
<1>9. \A k \in DOMAIN asked : pairs[k] \in Seq(S)
    <2>. HIDE DEF pairs
    <2>1. \A b, c \in S : <<b, c>> \in Seq(S) OBVIOUS
    <2>. QED BY <1>7, <2>1
<1>10. FlattenSeq(pairs) \in Seq(S)
    <2>. HIDE DEF pairs
    <2>1. IsSeq(pairs) BY <1>4, <1>7, <1>9, MappedSeq
    <2>. QED BY <1>7, <1>9, <2>1, FlattenIn
<1>. HIDE DEF pairs
<1>11. pre \in Seq(S) BY <1>10
<1>. HIDE DEF pre
<1>12. blocks \in Seq(S)
    <2>1. <<text>> \in Seq(S) BY <1>8
    <2>. QED BY <1>5, <1>11, <2>1
<1>13. IsSeq(blocks) /\ \A k \in DOMAIN blocks : blocks[k] \in S BY <1>12 DEF IsSeq
<1>. QED BY <1>6, <1>13

\* The events of an answer tell it from its start to its end, and the tokens it used.
LEMMA SyntheticPath ==
    ASSUME NEW s, NEW output, Listed(output), IsSeq(s.terminal[1].usage)
    PROVE  \E n : Path("search", Stage("before", <<>>, 0, <<>>), SyntheticStream(s, output),
                       Stage("stopped", <<>>, n, s.terminal[1].usage))
<1>. DEFINE f == "search"  u == s.terminal[1].usage  blocks == SearchBlocks(output)  n == Len(blocks)
            reason == IF s.terminal[1].end = "continue" THEN "pause_turn" ELSE "end_turn"
            q == [k \in DOMAIN blocks |-> BlockEvents(blocks[k], k - 1)]
            p == [k \in 0 .. n |-> Stage("message", <<>>, k, <<>>)]
            z == Stage("before", <<>>, 0, <<>>)
            stopping == Stage("stopping", <<>>, n, u)  end == Stage("stopped", <<>>, n, u)
            rest == <<MessageDelta(reason, u), MessageStop>>
<1>1. SyntheticStream(s, output) = <<MessageStart>> \o FlattenSeq(q) \o rest BY DEF SyntheticStream
<1>2. IsSeq(blocks) /\ \A k \in DOMAIN blocks : blocks[k].kind \in SearchKinds BY SearchBlocksFacts
<1>3. IsSeq(u) OBVIOUS
<1>. HIDE DEF blocks, reason, u
<1>4. n \in Nat /\ DOMAIN blocks = 1 .. n BY <1>2, SeqFacts
<1>5. q = [k \in DOMAIN blocks |-> q[k]] /\ DOMAIN q = DOMAIN blocks
      /\ \A k \in DOMAIN blocks : q[k] = BlockEvents(blocks[k], k - 1)
    OBVIOUS
<1>6. IsSeq(q) /\ Len(q) = n
    <2>. DEFINE T == {q[k] : k \in DOMAIN blocks}
    <2>1. \A k \in DOMAIN blocks : q[k] \in T OBVIOUS
    <2>. HIDE DEF q, T
    <2>. QED BY <1>2, <1>5, <2>1, MappedSeq
<1>. HIDE DEF q
<1>7. p[0] = Stage("message", <<>>, 0, <<>>) /\ p[n] = Stage("message", <<>>, n, <<>>)
      /\ \A k \in 1 .. n : /\ p[k - 1] = Stage("message", <<>>, k - 1, <<>>)
                           /\ p[k] = Stage("message", <<>>, k, <<>>)
    BY <1>4
<1>. HIDE DEF p, n
<1>8. ASSUME NEW k \in 1 .. n PROVE Path(f, p[k - 1], q[k], p[k])
    <2>. DEFINE i == k - 1  a == p[i]  block == blocks[k]
    <2>1. a = Stage("message", <<>>, i, <<>>) /\ i + 1 = k /\ block.kind \in SearchKinds
        BY <1>2, <1>4, <1>7
    <2>2. q[k] = BlockEvents(block, i) BY <1>4, <1>5
    <2>. HIDE DEF i, a, block
    <2>3. Path(f, a, BlockEvents(block, i), Stage("message", <<>>, i + 1, <<>>)) BY <2>1, BlockPath
    <2>4. Path(f, a, q[k], p[k]) BY <1>7, <2>1, <2>2, <2>3
    <2>. QED BY <2>4 DEF a, i
<1>9. Path(f, p[0], FlattenSeq(q), p[n]) BY <1>6, <1>8, FlattenPath
<1>10. Allowed(f, z, MessageStart, p[0])
    <2>1. z.phase = "before" /\ z.open = <<>> /\ z.next = 0 BY StageFields
    <2>2. MessageStart.type = "message_start" /\ MessageStart.body = <<>> BY DEF MessageStart, Event
    <2>. HIDE DEF z
    <2>. QED BY <1>7, <2>1, <2>2 DEF Allowed
<1>11. Allowed(f, p[n], MessageDelta(reason, u), stopping)
    <2>1. p[n].phase = "message" /\ p[n].open = <<>> /\ p[n].next = n /\ p[n].told = <<>>
        BY <1>7, StageFields
    <2>2. MessageDelta(reason, u).type = "message_delta" /\ MessageDelta(reason, u).body = u
        BY DEF MessageDelta, Event
    <2>3. <<>> \o u = u BY <1>3, NothingBefore
    <2>. QED BY <2>1, <2>2, <2>3 DEF Allowed
<1>12. Allowed(f, stopping, MessageStop, end)
    <2>1. stopping.phase = "stopping" /\ stopping.open = <<>> /\ stopping.next = n /\ stopping.told = u
        BY StageFields
    <2>2. MessageStop.type = "message_stop" BY DEF MessageStop, Event
    <2>. HIDE DEF stopping
    <2>. QED BY <2>1, <2>2 DEF Allowed
<1>. HIDE DEF f, z, stopping, end
<1>13. Path(f, z, <<MessageStart>>, p[0]) BY <1>10, PathOne
<1>14. Path(f, z, <<MessageStart>> \o FlattenSeq(q), p[n]) BY <1>9, <1>13, PathJoin
<1>15. Path(f, z, (<<MessageStart>> \o FlattenSeq(q)) \o rest, end)
    BY <1>11, <1>12, <1>14, PathAndTwo
<1>. QED BY <1>1, <1>15 DEF f, z, end, u

SearchFields == {"ok", "spent", "last", "begun", "created", "items", "text", "completed",
                 "terminal", "failed"}

\* What is kept of an item, with its arguments.
KeptItem(l) == l # <<>> => \E x : l = <<x>> /\ HasArgs(x)
ItemsKept(items) ==
    /\ IsFiniteSet(DOMAIN items)
    /\ \A i \in DOMAIN items :
        IsRec({"added", "done"}, items[i]) /\ KeptItem(items[i].added) /\ KeptItem(items[i].done)

\* The state of a collection.
Collected(s) ==
    /\ IsRec(SearchFields, s) /\ s.last = <<>> /\ ItemsKept(s.items)
    /\ s.begun => \E l : s.created = <<l>> /\ Listed(l)
    /\ s.completed => s.begun /\ \E e : s.terminal = <<e>> /\ Formed(e) /\ e.usage # <<>>

\* A step that touches neither what it has of the items nor how far it is.
Aside(s, t) == IsRec(SearchFields, t) /\ Differ(SearchFields, s, t, {"ok", "spent", "text"})

LEMMA AsideOn ==
    ASSUME NEW s, NEW t, NEW u, Aside(s, t), Aside(t, u) PROVE Aside(s, u)
BY DEF Aside, Differ, SearchFields

LEMMA AsideSelf == ASSUME NEW s, IsRec(SearchFields, s) PROVE Aside(s, s) /\ Aside(s, Fail(s))
<1>1. Aside(s, s) BY DEF Aside, Differ
<1>. DEFINE t == Fail(s)
<1>2. t = [s EXCEPT !.ok = FALSE] BY DEF Fail
<1>. HIDE DEF t
<1>3. Aside(s, t) BY <1>2 DEF Aside, Differ, IsRec, SearchFields
<1>. QED BY <1>1, <1>3 DEF t

LEMMA ReserveAside ==
    ASSUME NEW s, IsRec(SearchFields, s), NEW n, NEW t, t = Reserve(s, n) PROVE Aside(s, t)
<1>1. CASE t = Fail(s) BY <1>1, AsideSelf
<1>2. CASE t # Fail(s)
    <2>1. t = [s EXCEPT !.spent = s.spent + n] BY <1>2 DEF Reserve
    <2>. DEFINE x == s.spent + n
    <2>2. t = [s EXCEPT !.spent = x] BY <2>1
    <2>. HIDE DEF x
    <2>. QED BY <2>2 DEF Aside, Differ, IsRec, SearchFields
<1>. QED BY <1>1, <1>2

LEMMA TextAside ==
    ASSUME NEW s, IsRec(SearchFields, s), NEW x, NEW t, t = [s EXCEPT !.text = x] PROVE Aside(s, t)
BY DEF Aside, Differ, IsRec, SearchFields

LEMMA TextPartAside ==
    ASSUME NEW s, IsRec(SearchFields, s), NEW e, NEW t, t = TextPart(s, e) PROVE Aside(s, t)
<1>. DEFINE r == Reserve(s, 1)  x == With(r.text, <<e.i, e.part>>, NewText)
            u == [r EXCEPT !.text = x]
<1>1. t \in {Fail(s), s, u} BY DEF TextPart
<1>2. r = Reserve(s, 1) /\ u = [r EXCEPT !.text = x] OBVIOUS
<1>. HIDE DEF r, x, u
<1>3. Aside(s, r)
    <2>. DEFINE one == 1
    <2>1. r = Reserve(s, one) BY <1>2
    <2>. HIDE DEF one
    <2>. QED BY <2>1, ReserveAside
<1>4. Aside(r, u) BY <1>2, <1>3, TextAside DEF Aside
<1>5. Aside(s, u) BY <1>3, <1>4, AsideOn
<1>. QED BY <1>1, <1>5, AsideSelf

LEMMA EndTextAside ==
    ASSUME NEW s, IsRec(SearchFields, s), NEW e, NEW extends, NEW t, t = EndText(s, e, extends)
    PROVE  Aside(s, t)
<1>. DEFINE p == TextPart(s, e)  part == p.text[<<e.i, e.part>>]
            n == 2 * Len(e.body) - Len(part.text) + Len(e.notes)
            r == Reserve(p, n)
            x == [r.text EXCEPT ![<<e.i, e.part>>] =
                     [text |-> e.body, done |-> TRUE, notes |-> part.notes \o e.notes]]
            u == [r EXCEPT !.text = x]
<1>1. t \in {p, Fail(p), u} BY DEF EndText, Then
<1>2. p = TextPart(s, e) /\ r = Reserve(p, n) /\ u = [r EXCEPT !.text = x] OBVIOUS
<1>. HIDE DEF p, n, r, x, u
<1>3. Aside(s, p) BY <1>2, TextPartAside
<1>4. Aside(p, r) BY <1>2, <1>3, ReserveAside DEF Aside
<1>5. Aside(r, u) BY <1>2, <1>4, TextAside DEF Aside
<1>6. Aside(s, u) BY <1>3, <1>4, <1>5, AsideOn
<1>7. Aside(s, Fail(p)) BY <1>3, AsideSelf, AsideOn DEF Aside
<1>. QED BY <1>1, <1>3, <1>6, <1>7

LEMMA CollectTextAside ==
    ASSUME NEW s, IsRec(SearchFields, s), NEW e, NEW t, t = CollectText(s, e) PROVE Aside(s, t)
<1>. DEFINE n == Len(e.body)  r == Reserve(s, n)  p == TextPart(r, e)
            x == [p.text EXCEPT ![<<e.i, e.part>>].text = @ \o e.body]
            u == [p EXCEPT !.text = x]
<1>1. t \in {p, Fail(p), u} BY DEF CollectText, Then
<1>2. r = Reserve(s, n) /\ p = TextPart(r, e) /\ u = [p EXCEPT !.text = x] OBVIOUS
<1>. HIDE DEF n, r, p, x, u
<1>3. Aside(s, r) BY <1>2, ReserveAside
<1>4. Aside(r, p) BY <1>2, <1>3, TextPartAside DEF Aside
<1>5. Aside(p, u) BY <1>2, <1>4, TextAside DEF Aside
<1>6. Aside(s, p) /\ Aside(s, u) BY <1>3, <1>4, <1>5, AsideOn
<1>7. Aside(s, Fail(p)) BY <1>6, AsideSelf, AsideOn DEF Aside
<1>. QED BY <1>1, <1>6, <1>7

LEMMA CollectAnnotationAside ==
    ASSUME NEW s, IsRec(SearchFields, s), NEW e, NEW t, t = CollectAnnotation(s, e) PROVE Aside(s, t)
<1>. DEFINE n == 1  r == Reserve(s, n)  p == TextPart(r, e)
            x == [p.text EXCEPT ![<<e.i, e.part>>].notes = @ \o e.notes]
            u == [p EXCEPT !.text = x]
<1>1. t \in {p, u} BY DEF CollectAnnotation, Then
<1>2. r = Reserve(s, n) /\ p = TextPart(r, e) /\ u = [p EXCEPT !.text = x] OBVIOUS
<1>. HIDE DEF n, r, p, x, u
<1>3. Aside(s, r) BY <1>2, ReserveAside
<1>4. Aside(r, p) BY <1>2, <1>3, TextPartAside DEF Aside
<1>5. Aside(p, u) BY <1>2, <1>4, TextAside DEF Aside
<1>6. Aside(s, p) /\ Aside(s, u) BY <1>3, <1>4, <1>5, AsideOn
<1>. QED BY <1>1, <1>6

LEMMA AsideCollected ==
    ASSUME NEW s, Collected(s), NEW t, Aside(s, t)
    PROVE  /\ Collected(t) /\ (t.completed <=> s.completed) /\ t.terminal = s.terminal
           /\ (t.failed <=> s.failed)
<1>1. /\ IsRec(SearchFields, t) /\ t.last = s.last /\ t.items = s.items /\ t.created = s.created
      /\ (t.begun <=> s.begun) /\ (t.completed <=> s.completed) /\ t.terminal = s.terminal
      /\ (t.failed <=> s.failed)
    BY DEF Aside, Differ, SearchFields
<1>. QED BY <1>1 DEF Collected

\* A step that is no end of the answer.
GoesOnCollecting(s, t) ==
    /\ Collected(t) /\ (t.completed <=> s.completed) /\ t.terminal = s.terminal
    /\ (t.failed <=> s.failed)

LEMMA CollectItemKeeps ==
    ASSUME NEW s, Collected(s), NEW e, Formed(e), e.type \in {"added", "done"},
           NEW t, t = CollectItem(s, e)
    PROVE  GoesOnCollecting(s, t)
<1>. DEFINE known == e.i \in DOMAIN s.items
            old == IF known THEN s.items[e.i] ELSE [added |-> <<>>, done |-> <<>>]
            item == [old EXCEPT ![e.type] = <<e.item>>]
            r == Reserve(s, 1)  m == With(r.items, e.i, item)  u == [r EXCEPT !.items = m]
<1>1. t \in {Fail(s), u} BY DEF CollectItem
<1>2. IsRec(SearchFields, s) /\ ItemsKept(s.items) BY DEF Collected
<1>3. IsRec({"added", "done"}, old) /\ KeptItem(old.added) /\ KeptItem(old.done)
    <2>1. CASE known BY <1>2, <2>1 DEF ItemsKept
    <2>2. CASE ~known
        <3>1. old = [added |-> <<>>, done |-> <<>>] BY <2>2
        <3>. QED BY <3>1 DEF IsRec, KeptItem
    <2>. QED BY <2>1, <2>2
<1>4. item = [old EXCEPT ![e.type] = <<e.item>>] OBVIOUS
<1>5. r = Reserve(s, 1) /\ m = With(r.items, e.i, item) /\ u = [r EXCEPT !.items = m] OBVIOUS
<1>. HIDE DEF old, item, r, m, u
<1>6. IsRec({"added", "done"}, item) /\ KeptItem(item.added) /\ KeptItem(item.done)
    <2>1. KeptItem(<<e.item>>) BY DEF Formed, KeptItem
    <2>2. e.type = "added" => /\ IsRec({"added", "done"}, item) /\ item.added = <<e.item>>
                              /\ item.done = old.done
        BY <1>3, <1>4 DEF IsRec
    <2>3. e.type = "done" => /\ IsRec({"added", "done"}, item) /\ item.done = <<e.item>>
                             /\ item.added = old.added
        BY <1>3, <1>4 DEF IsRec
    <2>. QED BY <1>3, <2>1, <2>2, <2>3
<1>7. Aside(s, r)
    <2>. DEFINE one == 1
    <2>1. r = Reserve(s, one) BY <1>5
    <2>. HIDE DEF one
    <2>. QED BY <1>2, <2>1, ReserveAside
<1>8. Collected(r) /\ GoesOnCollecting(s, r) BY <1>7, AsideCollected DEF GoesOnCollecting
<1>9. ItemsKept(m)
    <2>1. /\ DOMAIN m = DOMAIN r.items \union {e.i}
          /\ \A j \in DOMAIN m : m[j] = IF j = e.i THEN item ELSE r.items[j]
        <3>. DEFINE f == r.items  k == e.i
        <3>1. m = With(f, k, item) BY <1>5
        <3>. HIDE DEF f, k
        <3>2. DOMAIN m = DOMAIN f \union {k} /\ \A j \in DOMAIN m : m[j] = IF j = k THEN item ELSE f[j]
            BY <3>1 DEF With
        <3>. QED BY <3>2 DEF f, k
    <2>2. ItemsKept(r.items) BY <1>8 DEF Collected
    <2>3. ASSUME NEW j \in DOMAIN m
          PROVE  IsRec({"added", "done"}, m[j]) /\ KeptItem(m[j].added) /\ KeptItem(m[j].done)
        <3>1. CASE j = e.i BY <1>6, <2>1, <3>1
        <3>2. CASE j # e.i
            <4>1. m[j] = r.items[j] /\ j \in DOMAIN r.items BY <2>1, <3>2
            <4>. QED BY <2>2, <4>1 DEF ItemsKept
        <3>. QED BY <3>1, <3>2
    <2>4. IsFiniteSet(DOMAIN r.items) BY <2>2 DEF ItemsKept
    <2>5. IsFiniteSet(DOMAIN m)
        <3>. DEFINE D == DOMAIN r.items  k == e.i
        <3>1. IsFiniteSet(D) /\ DOMAIN m = D \union {k} BY <2>1, <2>4
        <3>. HIDE DEF D, k
        <3>2. IsFiniteSet(D \union {k}) BY <3>1, FS_AddElement
        <3>. QED BY <3>1, <3>2
    <2>. QED BY <2>3, <2>5 DEF ItemsKept
<1>10. /\ IsRec(SearchFields, u) /\ u.items = m /\ u.last = r.last /\ (u.begun <=> r.begun)
       /\ u.created = r.created /\ (u.completed <=> r.completed) /\ u.terminal = r.terminal
       /\ (u.failed <=> r.failed)
    BY <1>5, <1>8 DEF Collected, IsRec, SearchFields
<1>11. GoesOnCollecting(s, u) BY <1>8, <1>9, <1>10 DEF GoesOnCollecting, Collected
<1>12. GoesOnCollecting(s, Fail(s)) BY <1>2, AsideSelf, AsideCollected DEF GoesOnCollecting
<1>. QED BY <1>1, <1>11, <1>12

LEMMA CollectKeeps ==
    ASSUME NEW s, Collected(s), NEW e, Formed(e), NEW t, t = Collect(s, e), t.ok
    PROVE  /\ e.type \notin Endings => GoesOnCollecting(s, t)
           /\ e.type \in Endings => /\ Collected(t) /\ t.completed /\ t.terminal = <<e>>
                                    /\ (t.failed <=> s.failed) /\ ~s.completed
<1>0. IsRec(SearchFields, s) BY DEF Collected
<1>1. CASE t = Fail(s)
    <2>1. ~t.ok BY <1>0, <1>1 DEF Fail, IsRec, SearchFields
    <2>. QED BY <2>1
<1>2. CASE t # Fail(s)
    <2>1. ~s.completed /\ (s.begun \/ e.type \in {"created", "error"}) /\ e.type # "malformed"
        BY <1>2 DEF Collect
    <2>2. CASE e.type = "created"
        <3>. DEFINE r == Reserve(s, 1)  l == <<e.output>>
                    u == [r EXCEPT !.begun = TRUE, !.created = l]
        <3>1. t = u BY <1>2, <2>2 DEF Collect
        <3>2. r = Reserve(s, 1) /\ u = [r EXCEPT !.begun = TRUE, !.created = l] /\ l = <<e.output>>
            OBVIOUS
        <3>. HIDE DEF r, l, u
        <3>3. Aside(s, r)
            <4>. DEFINE one == 1
            <4>1. r = Reserve(s, one) BY <3>2
            <4>. HIDE DEF one
            <4>. QED BY <1>0, <4>1, ReserveAside
        <3>4. Collected(r) /\ GoesOnCollecting(s, r) BY <3>3, AsideCollected DEF GoesOnCollecting
        <3>5. /\ IsRec(SearchFields, u) /\ u.items = r.items /\ u.last = r.last /\ u.begun
              /\ u.created = l /\ (u.completed <=> r.completed) /\ u.terminal = r.terminal
              /\ (u.failed <=> r.failed)
            BY <3>2, <3>4 DEF Collected, IsRec, SearchFields
        <3>6. Listed(e.output) BY DEF Formed
        <3>7. GoesOnCollecting(s, u) BY <3>2, <3>4, <3>5, <3>6 DEF GoesOnCollecting, Collected
        <3>. QED BY <2>2, <3>1, <3>7 DEF Endings
    <2>3. CASE e.type \in Endings
        <3>. DEFINE r == Reserve(s, 1)  l == <<e>>
                    u == [r EXCEPT !.completed = TRUE, !.terminal = l]
        <3>1. t = u BY <1>2, <2>1, <2>3 DEF Collect, CollectTerminal, Endings
        <3>2. r = Reserve(s, 1) /\ u = [r EXCEPT !.completed = TRUE, !.terminal = l] /\ l = <<e>>
            OBVIOUS
        <3>. HIDE DEF r, l, u
        <3>3. Aside(s, r)
            <4>. DEFINE one == 1
            <4>1. r = Reserve(s, one) BY <3>2
            <4>. HIDE DEF one
            <4>. QED BY <1>0, <4>1, ReserveAside
        <3>4. Collected(r) /\ GoesOnCollecting(s, r) BY <3>3, AsideCollected DEF GoesOnCollecting
        <3>5. r.begun <=> s.begun BY <3>3 DEF Aside, Differ, SearchFields
        <3>6. /\ IsRec(SearchFields, u) /\ u.items = r.items /\ u.last = r.last /\ (u.begun <=> r.begun)
              /\ u.created = r.created /\ u.completed /\ u.terminal = l /\ (u.failed <=> r.failed)
            BY <3>2, <3>4 DEF Collected, IsRec, SearchFields
        <3>7. s.begun BY <2>1, <2>3 DEF Endings
        <3>8. e.usage # <<>> BY <2>3 DEF Formed, Endings
        <3>9. Collected(u) BY <3>2, <3>4, <3>5, <3>6, <3>7, <3>8 DEF Collected
        <3>. QED BY <2>1, <2>3, <3>1, <3>2, <3>4, <3>6, <3>9 DEF GoesOnCollecting
    <2>4. CASE e.type \in {"added", "done"}
        <3>1. t = CollectItem(s, e) BY <1>2, <2>4 DEF Collect
        <3>. QED BY <2>4, <3>1, CollectItemKeeps DEF Endings
    <2>5. CASE e.type \notin {"created", "added", "done"} \union Endings
        <3>1. \/ t = CollectText(s, e)
              \/ t = EndText(s, e, TRUE)
              \/ t = EndText(s, e, FALSE)
              \/ t = CollectAnnotation(s, e)
              \/ t = s
            BY <1>2, <2>5 DEF Collect, Endings
        <3>2. Aside(s, t)
            <4>1. CASE \E extends : t = EndText(s, e, extends) BY <1>0, <4>1, EndTextAside
            <4>2. CASE t = CollectText(s, e) BY <1>0, <4>2, CollectTextAside
            <4>3. CASE t = CollectAnnotation(s, e) BY <1>0, <4>3, CollectAnnotationAside
            <4>4. CASE t = s BY <1>0, <4>4, AsideSelf
            <4>. QED BY <3>1, <4>1, <4>2, <4>3, <4>4
        <3>. QED BY <2>5, <3>2, AsideCollected DEF GoesOnCollecting
    <2>. QED BY <2>2, <2>3, <2>4, <2>5
<1>. QED BY <1>1, <1>2

LEMMA CollectEventKeeps ==
    ASSUME NEW s, Collected(s), NEW e, Formed(e), NEW t, t = CollectEvent(s, e)
    PROVE  \/ GoesOnCollecting(s, t) /\ (e.type \in Endings => t.failed)
           \/ t.failed /\ Collected(t) /\ (t.completed <=> s.completed) /\ t.terminal = s.terminal
           \/ /\ e.type \in Endings /\ Collected(t) /\ t.completed /\ t.terminal = <<e>>
              /\ ~t.failed /\ ~s.completed
<1>. DEFINE c == Collect(s, e)  u == [s EXCEPT !.failed = TRUE]
<1>1. t = IF s.failed THEN s ELSE IF c.ok THEN c ELSE u BY DEF CollectEvent
<1>2. c = Collect(s, e) OBVIOUS
<1>3. IsRec(SearchFields, s) BY DEF Collected
<1>4. /\ IsRec(SearchFields, u) /\ u.items = s.items /\ u.last = s.last /\ (u.begun <=> s.begun)
      /\ u.created = s.created /\ (u.completed <=> s.completed) /\ u.terminal = s.terminal /\ u.failed
    BY <1>3 DEF IsRec, SearchFields
<1>. HIDE DEF c, u
<1>5. CASE s.failed BY <1>1, <1>5 DEF GoesOnCollecting
<1>6. CASE ~s.failed /\ c.ok
    <2>1. t = c BY <1>1, <1>6
    <2>. QED BY <1>2, <1>6, <2>1, CollectKeeps
<1>7. CASE ~s.failed /\ ~c.ok
    <2>1. t = u BY <1>1, <1>7
    <2>2. Collected(u) BY <1>4 DEF Collected
    <2>. QED BY <1>4, <2>1, <2>2
<1>. QED BY <1>5, <1>6, <1>7

\* The output so far, if one was told.
Merged(m) == IsRec({"ok", "list"}, m) /\ (m.list # <<>> => \E l : m.list = <<l>> /\ Listed(l))

LEMMA ShownListed == ASSUME NEW items, Listed(items) PROVE Listed(Shown(items))
<1>. DEFINE S == {items[k] : k \in DOMAIN items}
            one(k) == IF items[k].type = "reasoning" THEN <<>> ELSE <<items[k]>>
            q == [k \in DOMAIN items |-> one(k)]
<1>1. Shown(items) = FlattenSeq(q) BY DEF Shown
<1>2. ASSUME NEW k \in DOMAIN items PROVE one(k) \in Seq(S)
    <2>1. items[k] \in S OBVIOUS
    <2>2. one(k) \in {<<>>, <<items[k]>>} OBVIOUS
    <2>. DEFINE x == items[k]
    <2>3. x \in S /\ one(k) \in {<<>>, <<x>>} BY <2>1, <2>2
    <2>. HIDE DEF S, one, x
    <2>4. <<>> \in Seq(S) /\ <<x>> \in Seq(S) BY <2>3
    <2>. QED BY <2>3, <2>4
<1>3. \A x \in S : HasArgs(x) BY DEF Listed
<1>4. IsSeq(items) BY DEF Listed
<1>5. DOMAIN q = DOMAIN items /\ q = [k \in DOMAIN items |-> q[k]]
      /\ \A k \in DOMAIN items : q[k] = one(k)
    <2>. HIDE DEF one
    <2>. QED OBVIOUS
<1>. HIDE DEF S, one, q
<1>6. \A k \in DOMAIN items : q[k] \in Seq(S) BY <1>2, <1>5
<1>7. IsSeq(q)
    <2>. DEFINE T == Seq(S)
    <2>1. \A k \in DOMAIN items : q[k] \in T BY <1>6
    <2>. HIDE DEF T
    <2>. QED BY <1>4, <1>5, <2>1, MappedSeq
<1>8. FlattenSeq(q) \in Seq(S) BY <1>5, <1>6, <1>7, FlattenIn
<1>. DEFINE r == FlattenSeq(q)
<1>9. r \in Seq(S) BY <1>8
<1>. HIDE DEF r
<1>10. IsSeq(r) /\ \A k \in DOMAIN r : r[k] \in S BY <1>9 DEF IsSeq
<1>11. Listed(r) BY <1>3, <1>10 DEF Listed
<1>. QED BY <1>1, <1>11 DEF r

LEMMA MergeItemArgs ==
    ASSUME NEW a, HasArgs(a), NEW b, HasArgs(b), NEW c, c = MergeItem(a, b) PROVE HasArgs(c)
<1>. DEFINE args == Longer(a.args, b.args)
<1>1. DOMAIN c = DOMAIN b /\ ("args" \in DOMAIN b => c.args = args) BY DEF MergeItem
<1>2. args \in {a.args, b.args} BY DEF Longer
<1>. HIDE DEF args
<1>. QED BY <1>1, <1>2 DEF HasArgs

LEMMA MergeKeeps ==
    ASSUME NEW m, Merged(m), NEW snapshot, snapshot.told => Listed(snapshot.items),
           NEW t, t = MergeSnapshot(m, snapshot)
    PROVE  Merged(t)
<1>. DEFINE new == Shown(snapshot.items)  old == m.list[1]
            x == [k \in DOMAIN old |-> MergeItem(old[k], new[k])]
            u == [m EXCEPT !.list = <<new>>]  v == [m EXCEPT !.list = <<x>>]  w == [m EXCEPT !.ok = FALSE]
<1>1. t = m \/ (snapshot.told /\ (t = w \/ t = u \/ (m.list # <<>> /\ Len(old) = Len(new) /\ t = v)))
    BY DEF MergeSnapshot
<1>2. snapshot.told => Listed(new) BY ShownListed
<1>3. m.list # <<>> => Listed(old) BY DEF Merged
<1>4. ASSUME m.list # <<>>, Len(old) = Len(new), snapshot.told PROVE Listed(x)
    <2>1. DOMAIN x = DOMAIN old /\ x = [k \in DOMAIN old |-> x[k]]
          /\ \A k \in DOMAIN old : x[k] = MergeItem(old[k], new[k])
        OBVIOUS
    <2>2. Listed(old) /\ Listed(new) BY <1>2, <1>3, <1>4
    <2>. DEFINE T == {x[k] : k \in DOMAIN old}
    <2>3. \A k \in DOMAIN old : x[k] \in T OBVIOUS
    <2>. HIDE DEF T, x, old, new
    <2>4. IsSeq(old) /\ IsSeq(new) BY <2>2 DEF Listed
    <2>5. IsSeq(x) BY <2>1, <2>3, <2>4, MappedSeq
    <2>6. ASSUME NEW k \in DOMAIN x PROVE HasArgs(x[k])
        <3>1. k \in DOMAIN old /\ k \in DOMAIN new BY <1>4, <2>1, <2>4, SeqFacts DEF old, new
        <3>. DEFINE a == old[k]  b == new[k]  c == x[k]
        <3>2. HasArgs(a) /\ HasArgs(b) BY <2>2, <3>1 DEF Listed
        <3>3. c = MergeItem(a, b) BY <2>1, <3>1
        <3>. HIDE DEF a, b, c
        <3>4. HasArgs(c) BY <3>2, <3>3, MergeItemArgs
        <3>. QED BY <3>4 DEF c
    <2>. QED BY <2>5, <2>6 DEF Listed
<1>5. IsRec({"ok", "list"}, m) BY DEF Merged
<1>. HIDE DEF new, old, x
<1>6. IsRec({"ok", "list"}, u) /\ u.list = <<new>> /\ IsRec({"ok", "list"}, v) /\ v.list = <<x>>
      /\ IsRec({"ok", "list"}, w) /\ w.list = m.list
    BY <1>5 DEF IsRec
<1>. HIDE DEF u, v, w
<1>7. CASE t = m BY <1>7
<1>8. CASE t = w BY <1>6, <1>8 DEF Merged
<1>9. CASE snapshot.told /\ t = u BY <1>2, <1>6, <1>9 DEF Merged
<1>10. CASE snapshot.told /\ m.list # <<>> /\ Len(old) = Len(new) /\ t = v
    BY <1>4, <1>6, <1>10 DEF Merged
<1>. QED BY <1>1, <1>7, <1>8, <1>9, <1>10

LEMMA AssertedArgs ==
    ASSUME NEW item, HasArgs(item)
    PROVE  HasArgs(Begun(item)) /\ HasArgs(Finished(item))
           /\ \A texts : HasArgs(Finished(MergeTexts(item, texts)))
<1>1. \A x, status : /\ "args" \in DOMAIN Assertion(x, status)
                     /\ Assertion(x, status).args = x.args
    BY DEF Assertion
<1>2. \A texts : MergeTexts(item, texts).args = item.args
    BY DEF MergeTexts, HasArgs
<1>. QED BY <1>1, <1>2 DEF HasArgs, Begun, Finished

LEMMA MappedListed ==
    ASSUME NEW items, IsSeq(items), NEW r, DOMAIN r = DOMAIN items, r = [k \in DOMAIN items |-> r[k]],
           \A k \in DOMAIN items : HasArgs(r[k])
    PROVE  Listed(r)
<1>. DEFINE T == {r[k] : k \in DOMAIN items}
<1>1. \A k \in DOMAIN items : r[k] \in T OBVIOUS
<1>. HIDE DEF T
<1>2. IsSeq(r) BY <1>1, MappedSeq
<1>. QED BY <1>2 DEF Listed

\* A result is reconciled from an answer that has ended, and its items have their arguments.
LEMMA ReconciledListed ==
    ASSUME NEW s, Collected(s), s.completed, AllDone(s), NEW m, m = Reconciled(s)
    PROVE  Merged(m)
<1>. DEFINE n == Cardinality(DOMAIN s.items)
            first(k) == LET i == s.items[k - 1]
                        IN  IF i.added # <<>> THEN Begun(i.added[1]) ELSE Finished(i.done[1])
            final(k) == LET item == s.items[k - 1].done[1]
                        IN  Finished(IF item.type = "message" /\ DOMAIN TextsOf(s, k - 1) # {}
                                     THEN MergeTexts(item, TextsOf(s, k - 1)) ELSE item)
            output == s.created[1]  result == s.terminal[1].output
            begun == [k \in DOMAIN output |-> Begun(output[k])]
            firsts == [k \in 1 .. n |-> first(k)]  finals == [k \in 1 .. n |-> final(k)]
            finished == [k \in DOMAIN result |-> Finished(result[k])]
            s1 == IF output = <<>> THEN Unstated ELSE Stated(begun, "added", TRUE)
            s2 == IF n = 0 THEN Unstated ELSE Stated(firsts, "added", FALSE)
            s3 == IF n = 0 THEN Unstated ELSE Stated(finals, "done", FALSE)
            s4 == IF result = <<>> THEN Unstated ELSE Stated(finished, "done", FALSE)
            merge(l, t) == IF l.ok THEN MergeSnapshot(l, t) ELSE l
            m0 == [ok |-> TRUE, list |-> <<>>]
            m1 == merge(m0, s1)  m2 == merge(m1, s2)  m3 == merge(m2, s3)  m4 == merge(m3, s4)
<1>1. m = m4 BY DEF Reconciled, MapSeq
<1>2. \A l, t : merge(l, t) \in {l, MergeSnapshot(l, t)} OBVIOUS
<1>3. Listed(output) /\ Listed(result)
    <2>1. PICK l : s.created = <<l>> /\ Listed(l) BY DEF Collected
    <2>2. PICK e : s.terminal = <<e>> /\ Formed(e) BY DEF Collected
    <2>. QED BY <2>1, <2>2 DEF Formed
<1>4. n \in Nat /\ DOMAIN s.items = 0 .. n - 1
    <2>1. IsFiniteSet(DOMAIN s.items) BY DEF Collected, ItemsKept
    <2>. QED BY <2>1, FS_CardinalityType DEF AllDone, Contiguous
<1>5. ASSUME NEW k \in 1 .. n PROVE HasArgs(first(k)) /\ HasArgs(final(k))
    <2>. DEFINE j == k - 1  i == s.items[j]
    <2>1. j \in DOMAIN s.items BY <1>4
    <2>2. KeptItem(i.added) /\ KeptItem(i.done) /\ i.done # <<>>
        BY <2>1 DEF Collected, ItemsKept, AllDone
    <2>3. HasArgs(i.done[1]) /\ (i.added # <<>> => HasArgs(i.added[1])) BY <2>2 DEF KeptItem
    <2>4. first(k) = IF i.added # <<>> THEN Begun(i.added[1]) ELSE Finished(i.done[1]) OBVIOUS
    <2>5. final(k) \in {Finished(i.done[1]), Finished(MergeTexts(i.done[1], TextsOf(s, k - 1)))}
        OBVIOUS
    <2>. HIDE DEF i, j, first, final
    <2>. QED BY <2>3, <2>4, <2>5, AssertedArgs
<1>6. Listed(begun)
    <2>1. DOMAIN begun = DOMAIN output /\ begun = [k \in DOMAIN output |-> begun[k]]
          /\ \A k \in DOMAIN output : begun[k] = Begun(output[k])
        OBVIOUS
    <2>. HIDE DEF begun, output
    <2>. QED BY <1>3, <2>1, MappedListed, AssertedArgs DEF Listed
<1>7. Listed(finished)
    <2>1. DOMAIN finished = DOMAIN result /\ finished = [k \in DOMAIN result |-> finished[k]]
          /\ \A k \in DOMAIN result : finished[k] = Finished(result[k])
        OBVIOUS
    <2>. HIDE DEF finished, result
    <2>. QED BY <1>3, <2>1, MappedListed, AssertedArgs DEF Listed
<1>8. Listed(firsts) /\ Listed(finals)
    <2>. HIDE DEF n, first, final
    <2>. DEFINE base == [k \in 1 .. n |-> k]
    <2>1. base \in Seq(1 .. n) /\ DOMAIN base = 1 .. n BY <1>4
    <2>2. IsSeq(base) BY <2>1 DEF IsSeq
    <2>3. /\ DOMAIN firsts = DOMAIN base /\ firsts = [k \in DOMAIN base |-> firsts[k]]
          /\ DOMAIN finals = DOMAIN base /\ finals = [k \in DOMAIN base |-> finals[k]]
          /\ \A k \in DOMAIN base : firsts[k] = first(k) /\ finals[k] = final(k)
        BY <2>1
    <2>4. \A k \in DOMAIN base : HasArgs(firsts[k]) /\ HasArgs(finals[k]) BY <1>5, <2>1, <2>3
    <2>. HIDE DEF base, firsts, finals
    <2>. QED BY <2>2, <2>3, <2>4, MappedListed
<1>. HIDE DEF n, first, final, output, result, begun, firsts, finals, finished
<1>9. \A items, phase, optional :
          ~Unstated.told /\ Stated(items, phase, optional).items = items
    BY DEF Unstated, Stated
<1>10. /\ s1.told => Listed(s1.items)
       /\ s2.told => Listed(s2.items)
       /\ s3.told => Listed(s3.items)
       /\ s4.told => Listed(s4.items)
    <2>. DEFINE first1 == "added"  done1 == "done"  yes == TRUE  no == FALSE
    <2>1. /\ s1 \in {Unstated, Stated(begun, first1, yes)}
          /\ s2 \in {Unstated, Stated(firsts, first1, no)}
          /\ s3 \in {Unstated, Stated(finals, done1, no)}
          /\ s4 \in {Unstated, Stated(finished, done1, no)}
        OBVIOUS
    <2>. HIDE DEF s1, s2, s3, s4, first1, done1, yes, no
    <2>2. ASSUME NEW l, Listed(l), NEW phase, NEW optional, NEW s0, s0 \in {Unstated, Stated(l, phase, optional)}
          PROVE  s0.told => Listed(s0.items)
        BY <1>9, <2>2
    <2>. QED BY <1>6, <1>7, <1>8, <2>1, <2>2
<1>. HIDE DEF s1, s2, s3, s4
<1>11. Merged(m0) BY DEF Merged, IsRec
<1>12. ASSUME NEW l, Merged(l), NEW t, t.told => Listed(t.items) PROVE Merged(merge(l, t))
    <2>. HIDE DEF merge
    <2>. QED BY <1>2, <1>12, MergeKeeps
<1>. HIDE DEF merge, m0
<1>. QED BY <1>1, <1>10, <1>11, <1>12

LEMMA ResultListed ==
    ASSUME NEW s, Collected(s), NEW r, r = SearchResult(s), r # <<>>
    PROVE  s.completed /\ ~s.failed /\ Listed(r[1])
<1>1. s.completed /\ ~s.failed /\ AllDone(s) BY DEF SearchResult
<1>. DEFINE m == Reconciled(s)  output == IF m.list = <<>> THEN <<>> ELSE m.list[1]
<1>2. r = <<output>> BY DEF SearchResult
<1>3. m = Reconciled(s) OBVIOUS
<1>. HIDE DEF m
<1>4. Merged(m) BY <1>1, <1>3, ReconciledListed
<1>5. Listed(output) BY <1>4, NothingListed DEF Merged
<1>. HIDE DEF output
<1>. QED BY <1>1, <1>2, <1>5

\* A web search tells its client nothing while it collects the answer, and then all
\* there is to tell at once.
SearchInv ==
    /\ answer \in SearchAnswers
    /\ IsRec(ViewFields, view)
    /\ conn = "open" =>
          /\ queue = <<>> /\ recorded = <<>> /\ Collected(st)
          /\ ViewStage("search", view) = Stage("before", <<>>, 0, <<>>)
          /\ usage = IF st.completed THEN st.terminal[1].usage ELSE <<>>
    /\ conn # "open" =>
          /\ recorded = IF usage = <<>> THEN <<>> ELSE <<usage>>
          /\ \E b : /\ Path("search", ViewStage("search", view), queue, b)
                    /\ b.phase = "failed" \/ (b.phase = "stopped" /\ b.told = usage /\ usage # <<>>)
    /\ conn = "closing" => usage # <<>>
    /\ conn = "ended" => queue = <<>>

LEMMA SearchInit == ASSUME Init, flow = "search" PROVE SearchInv
<1>1. st = SearchState /\ answer \in SearchAnswers BY DEF Init
<1>2. queue = <<>> /\ view = NoView /\ usage = <<>> /\ recorded = <<>> /\ conn = "open" BY DEF Init
<1>3. IsRec(ViewFields, view) BY <1>2 DEF NoView, IsRec, ViewFields
<1>4. /\ IsRec(SearchFields, st) /\ st.last = <<>> /\ st.items = Empty /\ ~st.begun /\ ~st.completed
    BY <1>1 DEF SearchState, IsRec, SearchFields
<1>5. DOMAIN Empty = {} BY DEF Empty
<1>6. ItemsKept(Empty) BY <1>5, FS_EmptySet DEF ItemsKept
<1>7. Collected(st) BY <1>4, <1>6 DEF Collected
<1>8. ViewStage("search", view) = Stage("before", <<>>, 0, <<>>) BY <1>2 DEF ViewStage, NoView
<1>. QED BY <1>1, <1>2, <1>3, <1>4, <1>7, <1>8 DEF SearchInv

LEMMA SearchTokens == ASSUME SearchInv, flow = "search" PROVE TokensAccounted
<1>1. ASSUME conn = "ended", view.phase = "stopped" PROVE recorded = <<view.told>>
    <2>. DEFINE a == ViewStage("search", view)
    <2>1. PICK b : /\ Path("search", a, queue, b)
                   /\ b.phase = "failed" \/ (b.phase = "stopped" /\ b.told = usage /\ usage # <<>>)
        BY <1>1 DEF SearchInv
    <2>2. a = b BY <1>1, <2>1, PathOfNothing DEF SearchInv
    <2>3. a.phase = view.phase /\ a.told = view.told BY StageFields DEF ViewStage
    <2>. HIDE DEF a
    <2>4. view.told = usage /\ usage # <<>> BY <1>1, <2>1, <2>2, <2>3
    <2>. QED BY <1>1, <2>4 DEF SearchInv
<1>. QED BY <1>1 DEF SearchInv, TokensAccounted

\* An error is all that the client of a failed search gets.
LEMMA ErrorPath ==
    ASSUME NEW e, e.type = "error"
    PROVE  \E b : Path("search", Stage("before", <<>>, 0, <<>>), <<e>>, b) /\ b.phase = "failed"
<1>. DEFINE f == "search"  a == Stage("before", <<>>, 0, <<>>)  b == Stage("failed", <<>>, 0, <<>>)
<1>1. a.phase = "before" /\ a.open = <<>> /\ a.next = 0 /\ a.told = <<>> /\ b.phase = "failed"
    BY StageFields
<1>2. Allowed(f, a, e, b) BY <1>1, StageFields DEF Allowed
<1>. HIDE DEF f, a, b
<1>3. Path(f, a, <<e>>, b) BY <1>2, PathOne
<1>. QED BY <1>1, <1>3 DEF f, a

LEMMA SearchAnswered ==
    ASSUME SearchInv, conn = "open", NEW s, NEW how, how \in {"closing", "cut"}, NEW events, NEW known,
           Answered(s, how, events, known), view' = view, answer' = answer,
           how = "closing" => known # <<>>,
           \E b : /\ Path("search", Stage("before", <<>>, 0, <<>>), events, b)
                  /\ b.phase = "failed" \/ (b.phase = "stopped" /\ b.told = known /\ known # <<>>)
    PROVE  SearchInv'
<1>1. /\ conn' = how /\ queue' = events /\ usage' = known
      /\ recorded' = IF known = <<>> THEN <<>> ELSE <<known>>
    BY DEF Answered
<1>2. ViewStage("search", view') = Stage("before", <<>>, 0, <<>>) BY DEF SearchInv
<1>3. IsRec(ViewFields, view') /\ answer' \in SearchAnswers BY DEF SearchInv
<1>4. conn' \notin {"open", "ended"} BY <1>1
<1>. QED BY <1>1, <1>2, <1>3, <1>4 DEF SearchInv

LEMMA SearchAccept ==
    ASSUME SearchInv, Waiting, NEW e, Formed(e), AcceptSearch(e)
    PROVE  SearchInv'
<1>. DEFINE t == CollectEvent(st, e)
            known == IF e.type \in Endings /\ usage = <<>> THEN e.usage ELSE usage
<1>1. conn = "open" /\ Collected(st) BY DEF Waiting, SearchInv
<1>2. view' = view /\ answer' = answer BY DEF AcceptSearch
<1>3. t = CollectEvent(st, e) OBVIOUS
<1>4. \/ e.type = "error" /\ Answered(t, "cut", <<ErrorEvent("upstream")>>, known)
      \/ e.type \in Endings /\ t.failed /\ Answered(t, "closing", <<ErrorEvent("api_error")>>, known)
      \/ /\ e.type # "error" /\ ~(e.type \in Endings /\ t.failed)
         /\ st' = t /\ usage' = known /\ UNCHANGED <<conn, queue, recorded>>
    BY DEF AcceptSearch, Endings
<1>5. known = IF e.type \in Endings /\ usage = <<>> THEN e.usage ELSE usage OBVIOUS
<1>. HIDE DEF t, known
<1>6. e.type \in Endings => known # <<>> BY <1>5 DEF Formed, Endings
<1>7. \A kind : ErrorEvent(kind).type = "error" BY DEF ErrorEvent, Event
<1>8. CASE e.type = "error" /\ Answered(t, "cut", <<ErrorEvent("upstream")>>, known)
    <2>. DEFINE how == "cut"  kind == "upstream"  x == ErrorEvent(kind)
    <2>1. how \in {"closing", "cut"} /\ how # "closing" /\ x.type = "error" BY <1>7
    <2>2. Answered(t, how, <<x>>, known) BY <1>8
    <2>. HIDE DEF how, kind, x
    <2>. QED BY <1>1, <1>2, <2>1, <2>2, ErrorPath, SearchAnswered
<1>9. CASE e.type \in Endings /\ t.failed /\ Answered(t, "closing", <<ErrorEvent("api_error")>>, known)
    <2>. DEFINE how == "closing"  kind == "api_error"  x == ErrorEvent(kind)
    <2>1. how \in {"closing", "cut"} /\ x.type = "error" BY <1>7
    <2>2. Answered(t, how, <<x>>, known) BY <1>9
    <2>. HIDE DEF how, kind, x
    <2>. QED BY <1>1, <1>2, <1>6, <1>9, <2>1, <2>2, ErrorPath, SearchAnswered
<1>10. CASE /\ e.type # "error" /\ ~(e.type \in Endings /\ t.failed)
            /\ st' = t /\ usage' = known /\ UNCHANGED <<conn, queue, recorded>>
    <2>1. usage = IF st.completed THEN st.terminal[1].usage ELSE <<>> BY <1>1 DEF SearchInv
    <2>2. Collected(t) /\ usage' = IF t.completed THEN t.terminal[1].usage ELSE <<>>
        <3>1. \/ /\ Collected(t) /\ (t.completed <=> st.completed) /\ t.terminal = st.terminal
                 /\ e.type \notin Endings
              \/ /\ e.type \in Endings /\ Collected(t) /\ t.completed /\ t.terminal = <<e>>
                 /\ ~st.completed
            BY <1>1, <1>3, <1>10, CollectEventKeeps DEF GoesOnCollecting
        <3>. QED BY <1>5, <1>10, <2>1, <3>1
    <2>3. conn' = "open" /\ queue' = <<>> /\ recorded' = <<>> BY <1>1, <1>10 DEF SearchInv
    <2>. QED BY <1>1, <1>2, <1>10, <2>2, <2>3 DEF SearchInv
<1>. QED BY <1>4, <1>8, <1>9, <1>10

LEMMA SearchEnds ==
    ASSUME SearchInv, Waiting, NEW how, how \in {"closing", "cut"}, NEW r, AnswerSearch(how, r),
           r # <<>> => r = SearchResult(st), how = "closing" => st.completed
    PROVE  SearchInv'
<1>1. conn = "open" /\ Collected(st) BY DEF Waiting, SearchInv
<1>2. view' = view /\ answer' = answer BY DEF AnswerSearch
<1>3. usage = IF st.completed THEN st.terminal[1].usage ELSE <<>> BY <1>1 DEF SearchInv
<1>4. st.completed => usage # <<>> /\ IsSeq(usage)
    <2>1. st.completed => \E e : st.terminal = <<e>> /\ Formed(e) /\ e.usage # <<>> BY <1>1 DEF Collected
    <2>. QED BY <1>3, <2>1 DEF Formed
<1>5. CASE r = <<>>
    <2>. DEFINE kind == "api_error"  x == ErrorEvent(kind)  s == [st EXCEPT !.failed = TRUE]
    <2>1. x.type = "error" BY DEF ErrorEvent, Event
    <2>2. Answered(s, how, <<x>>, usage) BY <1>5 DEF AnswerSearch
    <2>. HIDE DEF kind, x, s
    <2>. QED BY <1>1, <1>2, <1>4, <2>1, <2>2, ErrorPath, SearchAnswered
<1>6. CASE r # <<>>
    <2>. DEFINE output == r[1]  q == SyntheticStream(st, output)
    <2>1. st.completed /\ Listed(output) BY <1>1, <1>6, ResultListed
    <2>2. Answered(st, how, q, usage) BY <1>6 DEF AnswerSearch
    <2>3. usage = st.terminal[1].usage /\ IsSeq(st.terminal[1].usage) BY <1>3, <1>4, <2>1
    <2>4. q = SyntheticStream(st, output) OBVIOUS
    <2>. HIDE DEF output, q
    <2>5. PICK n : Path("search", Stage("before", <<>>, 0, <<>>), q,
                        Stage("stopped", <<>>, n, st.terminal[1].usage))
        BY <2>1, <2>3, <2>4, SyntheticPath
    <2>6. \E b : /\ Path("search", Stage("before", <<>>, 0, <<>>), q, b)
                 /\ b.phase = "stopped" /\ b.told = usage /\ usage # <<>>
        BY <1>4, <2>1, <2>3, <2>5, StageFields
    <2>. QED BY <1>1, <1>2, <1>4, <2>2, <2>6, SearchAnswered
<1>. QED BY <1>5, <1>6

LEMMA SearchStep ==
    ASSUME SearchInv, flow = "search", conn # "gone", Next, conn' # "gone"
    PROVE  SearchInv'
<1>. DEFINE a == ViewStage("search", view)
<1>1. CASE ReceiveChunk \/ ReceiveRelayed BY <1>1 DEF ReceiveChunk, ReceiveRelayed, Reading
<1>2. CASE ReceiveCreated \/ ReceiveItemEvent \/ ReceiveReplay \/ ReceiveTerminal \/ ReceiveFault
    <2>1. answer \in Seq(ItemShape) BY AnswersAssumption DEF SearchInv
    <2>2. Waiting
        BY <1>2 DEF ReceiveCreated, ReceiveItemEvent, ReceiveReplay, ReceiveTerminal, ReceiveFault,
                    Listening
    <2>3. st.last = <<>> BY <2>2 DEF SearchInv, Collected, Waiting
    <2>4. \E e : Formed(e) /\ Accept(e)
        BY <1>2, <2>1, <2>3, ReadsFormed DEF Tells, LastTold
    <2>5. PICK e : Formed(e) /\ AcceptSearch(e) BY <2>4 DEF Accept
    <2>. QED BY <2>2, <2>5, SearchAccept
<1>3. CASE Heartbeat BY <1>3 DEF Heartbeat
<1>4. CASE Interrupt
    <2>. DEFINE how == "cut"  none == <<>>
    <2>1. Waiting /\ AnswerSearch(how, none) /\ how \in {"closing", "cut"} /\ how # "closing" /\ none = <<>>
        BY <1>4 DEF Interrupt
    <2>. HIDE DEF how, none
    <2>. QED BY <2>1, SearchEnds
<1>5. CASE EndOfStream
    <2>. DEFINE how == IF st.completed THEN "closing" ELSE "cut"  r == SearchResult(st)
    <2>1. Waiting /\ AnswerSearch(how, r) BY <1>5 DEF EndOfStream
    <2>2. how \in {"closing", "cut"} /\ (how = "closing" => st.completed) /\ r = SearchResult(st) OBVIOUS
    <2>. HIDE DEF how, r
    <2>. QED BY <2>1, <2>2, SearchEnds
<1>6. CASE Deliver
    <2>1. /\ queue # <<>> /\ view' = See(view, Head(queue)) /\ queue' = Tail(queue)
          /\ usage' = usage /\ recorded' = recorded /\ conn' = conn /\ answer' = answer
        BY <1>6 DEF Deliver
    <2>2. conn \notin {"open", "ended"} BY <2>1 DEF SearchInv
    <2>3. PICK b : /\ Path("search", a, queue, b)
                   /\ b.phase = "failed" \/ (b.phase = "stopped" /\ b.told = usage /\ usage # <<>>)
        BY <2>2 DEF SearchInv
    <2>4. PICK c : Allowed("search", a, Head(queue), c) /\ Path("search", c, Tail(queue), b)
        BY <2>1, <2>3, PathHead
    <2>5. IsRec(ViewFields, view') /\ ViewStage("search", view') = c
        BY <2>1, <2>4, SeeAllowed DEF SearchInv
    <2>6. Path("search", ViewStage("search", view'), queue', b) BY <2>1, <2>4, <2>5
    <2>. QED BY <2>1, <2>2, <2>3, <2>5, <2>6 DEF SearchInv
<1>7. CASE Record
    <2>1. /\ queue = <<>> /\ conn \in {"closing", "cut"} /\ recorded' = recorded
          /\ conn' = "ended" /\ queue' = queue /\ view' = view /\ usage' = usage /\ answer' = answer
        BY <1>7 DEF Record
    <2>. QED BY <2>1 DEF SearchInv
<1>8. CASE Disconnect BY <1>8 DEF Disconnect
<1>. QED BY <1>1, <1>2, <1>3, <1>4, <1>5, <1>6, <1>7, <1>8 DEF Next

(***************************************************************************)
(* The flows                                                               *)
(***************************************************************************)
FlowsInv ==
    /\ flow \in Flows
    /\ conn # "gone" =>
        /\ flow = "chat" => ChatInv
        /\ flow = "responses" => ResponsesInv
        /\ flow = "search" => SearchInv
        /\ flow = "messages" => RelayInv

LEMMA FlowsInit == Init => FlowsInv
<1>1. Init => flow \in Flows BY DEF Init
<1>. QED BY <1>1, ChatInit, ResponsesInit, SearchInit, RelayInit DEF FlowsInv

\* No step changes the flow, and a client that is gone stays away.
LEMMA FlowStays == [Next]_vars => flow' = flow /\ (conn = "gone" => conn' = "gone" /\ view' = view)
<1>. SUFFICES ASSUME [Next]_vars PROVE flow' = flow /\ (conn = "gone" => conn' = "gone" /\ view' = view)
    OBVIOUS
<1>1. CASE ReceiveChunk \/ ReceiveRelayed
    BY <1>1 DEF ReceiveChunk, ReceiveRelayed, Reading, Waiting
<1>2. ASSUME NEW e, Accept(e) PROVE flow' = flow
    BY <1>2 DEF Accept, AcceptSearch, AcceptEvent
<1>3. CASE ReceiveCreated BY <1>2, <1>3 DEF ReceiveCreated, Listening, Waiting
<1>4. CASE ReceiveItemEvent
    <2>1. conn = "open" BY <1>4 DEF ReceiveItemEvent, Listening, Waiting
    <2>2. \E e : Accept(e) BY <1>4 DEF ReceiveItemEvent
    <2>. QED BY <1>2, <2>1, <2>2
<1>5. CASE ReceiveReplay BY <1>2, <1>5 DEF ReceiveReplay, Listening, Waiting
<1>6. CASE ReceiveTerminal BY <1>2, <1>6 DEF ReceiveTerminal, Listening, Waiting
<1>7. CASE ReceiveFault BY <1>2, <1>7 DEF ReceiveFault, Listening, Waiting
<1>8. CASE Heartbeat BY <1>8 DEF Heartbeat, Waiting
<1>9. CASE Interrupt \/ EndOfStream
    BY <1>9 DEF Interrupt, EndOfStream, AnswerSearch, Leave, Waiting
<1>10. CASE Deliver \/ Record \/ Disconnect BY <1>10 DEF Deliver, Record, Disconnect
<1>11. CASE UNCHANGED vars BY <1>11 DEF vars
<1>. QED BY <1>1, <1>3, <1>4, <1>5, <1>6, <1>7, <1>8, <1>9, <1>10, <1>11 DEF Next

\* The client sees nothing but what is delivered to it.
LEMMA OnlyDeliveryShows == ASSUME [Next]_vars, ~Deliver PROVE view' = view
<1>1. ASSUME NEW e, Accept(e) PROVE view' = view
    BY <1>1 DEF Accept, AcceptSearch, AcceptEvent
<1>2. CASE ReceiveCreated \/ ReceiveItemEvent \/ ReceiveReplay \/ ReceiveTerminal \/ ReceiveFault
    <2>1. \E e : Accept(e)
        BY <1>2 DEF ReceiveCreated, ReceiveItemEvent, ReceiveReplay, ReceiveTerminal, ReceiveFault
    <2>. QED BY <1>1, <2>1
<1>3. CASE ReceiveChunk \/ ReceiveRelayed \/ Heartbeat \/ Record \/ Disconnect
    BY <1>3 DEF ReceiveChunk, ReceiveRelayed, Heartbeat, Record, Disconnect
<1>4. CASE Interrupt \/ EndOfStream BY <1>4 DEF Interrupt, EndOfStream, AnswerSearch, Leave
<1>5. CASE UNCHANGED vars BY <1>5 DEF vars
<1>. QED BY <1>2, <1>3, <1>4, <1>5 DEF Next

LEMMA FlowsStep == FlowsInv /\ [Next]_vars => FlowsInv'
<1>. SUFFICES ASSUME FlowsInv, [Next]_vars, conn' # "gone"
              PROVE  /\ flow = "chat" => ChatInv'
                     /\ flow = "responses" => ResponsesInv'
                     /\ flow = "search" => SearchInv'
                     /\ flow = "messages" => RelayInv'
    BY FlowStays DEF FlowsInv
<1>1. conn # "gone" BY FlowStays
<1>2. CASE Next BY <1>1, <1>2, ChatStep, ResponsesStep, SearchStep, RelayStep DEF FlowsInv
<1>3. CASE UNCHANGED vars
    <2>1. /\ view' = view /\ st' = st /\ queue' = queue /\ conn' = conn /\ usage' = usage
          /\ recorded' = recorded /\ answer' = answer /\ sent' = sent
        BY <1>3 DEF vars
    <2>2. flow = "chat" => ChatInv' BY <1>1, <2>1 DEF FlowsInv, ChatInv
    <2>3. flow = "responses" => ResponsesInv' BY <1>1, <2>1 DEF FlowsInv, ResponsesInv
    <2>4. flow = "search" => SearchInv' BY <1>1, <2>1 DEF FlowsInv, SearchInv
    <2>5. flow = "messages" => RelayInv'
        <3>1. ASSUME NEW b, RelayTarget(b) PROVE RelayTarget(b)'
            BY <2>1, <3>1 DEF RelayTarget
        <3>. QED BY <1>1, <2>1, <3>1 DEF FlowsInv, RelayInv
    <2>. QED BY <2>2, <2>3, <2>4, <2>5
<1>. QED BY <1>2, <1>3

\* Every stream whose client stays is recorded once, with the tokens its client was told
\* of, a web search when it learnt of any; and a stream of the Responses API is left for
\* an answer that has ended only when its tokens are known (api_flows.rs): whatever the
\* chunks, the events of the upstream, the bounds of the translators and the place at
\* which the stream breaks off.
THEOREM TokensAlways == Spec => []TokensAccounted
<1>1. FlowsInv => TokensAccounted
    <2>1. CASE conn = "gone" BY <2>1 DEF TokensAccounted
    <2>2. CASE conn # "gone"
        BY <2>2, FlowsAssumption, ChatTokens, ResponsesTokens, SearchTokens, RelayTokens
        DEF FlowsInv
    <2>. QED BY <2>1, <2>2
<1>. QED BY <1>1, FlowsInit, FlowsStep, PTL DEF Spec

\* What a client sees of a Chat answer, a web search or a relayed stream is a Messages stream,
\* whatever the upstream sends and wherever it breaks off: a message_start, blocks one
\* behind the other with deltas of their own kind, an end that is told once, or an
\* error behind which nothing follows, and that leaves no block open
\* (stream_translation.rs, fulfill.rs, api_flows.rs).
THEOREM StreamsImplementMessages ==
    Spec /\ flow \in {"chat", "search", "messages"} => ImplementsMessages
<1>. DEFINE Followed == FlowsInv /\ flow \in {"chat", "search", "messages"}
<1>1. Init => Promised!Init
    <2>1. Init => view.phase = "before" /\ view.open = <<>> /\ view.next = 0
                  /\ view.last.type = "none"
        BY DEF Init, NoView, NoEvent, Event
    <2>. QED BY <2>1 DEF Promised!Init
<1>2. Followed /\ [Next]_vars => Followed' BY FlowsStep, FlowStays
<1>3. Followed /\ [Next]_vars => [Promised!Next]_(Promised!vars)
    <2>. SUFFICES ASSUME Followed, [Next]_vars PROVE [Promised!Next]_(Promised!vars) OBVIOUS
    <2>1. CASE Deliver
        <3>1. /\ queue # <<>> /\ view' = See(view, Head(queue)) /\ flow' = flow /\ conn # "gone"
            BY <2>1 DEF Deliver
        <3>2. IsRec(ViewFields, view) /\ \E b : Path(flow, ViewStage(flow, view), queue, b)
            BY <3>1 DEF FlowsInv, ChatInv, SearchInv, RelayInv, RelayTarget
        <3>3. \E b : Allowed(flow, ViewStage(flow, view), Head(queue), b) BY <3>1, <3>2, PathHead
        <3>4. flow # "responses" OBVIOUS
        <3>. DEFINE e == Head(queue)
        <3>5. view' = See(view, e) BY <3>1
        <3>. HIDE DEF e
        <3>6. \E b : Allowed(flow, ViewStage(flow, view), e, b) BY <3>3 DEF e
        <3>. QED BY <3>1, <3>2, <3>4, <3>5, <3>6, SeeImplements
    <2>2. CASE ~Deliver
        <3>1. view' = view BY <2>2, OnlyDeliveryShows
        <3>2. flow' = flow BY FlowStays
        <3>. QED BY <3>1, <3>2 DEF Promised!vars
    <2>. QED BY <2>1, <2>2
<1>4. Init /\ flow \in {"chat", "search", "messages"} => Followed BY FlowsInit
<1>. QED BY <1>1, <1>2, <1>3, <1>4, PTL DEF Spec, ImplementsMessages, Promised!Spec
==============================================================================

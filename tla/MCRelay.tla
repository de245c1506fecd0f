---------------------------------- MODULE MCRelay ----------------------------------
(* Answers to every handler, whole, wrong, too long and in every framing the decoder takes. *)
EXTENDS Relay

E(type, id, i, text, u) == [type |-> type, name |-> TRUE, id |-> id, i |-> i, text |-> text, usage |-> u]
Plain(type) == E(type, "none", NoIndex, "none", "none")

\* A record of event n, as servers write it.
LfFrame(n) == <<DataField>> \o Content(n) \o <<Lf, Lf>>
CrLfFrame(n) == <<DataField>> \o Content(n) \o <<Cr, Lf, Cr, Lf>>
NamedFrame(n) == <<NameField(n), Lf, DataField>> \o Content(n) \o <<Lf, Lf>>
MisnamedFrame(n) == <<NameField(n + 1), Lf, DataField>> \o Content(n) \o <<Lf, Lf>>
SplitFrame(n) == <<DataField, Content(n)[1], Lf, DataField, Content(n)[2], Lf, Lf>>
EmptyFrame(n) == <<NameField(n), Lf, DataField, Lf, Lf>>
Keepalive == <<Comment, Lf, Lf>>
\* Records as long as the limit, and one symbol longer.
LongFrame(n) == <<Comment, Comment, Lf, DataField>> \o Content(n) \o <<Lf, Lf>>
LongerFrame(n) == <<Comment>> \o LongFrame(n)

Answered(w, told, bytes, good) ==
  [way |-> w, told |-> told, bytes |-> bytes, cuts |-> DOMAIN bytes, good |-> good, whole |-> <<>>]
\* Some answers are cut behind their records and in their middle only.
Coarse(a) ==
  [a EXCEPT !.cuts = {k \in @ : a.bytes[k][1] = "half" \/ (a.bytes[k] = Lf /\ (k < Len(a.bytes) => a.bytes[k + 1] # Lf))}]
Whole(w, told, whole) ==
  [Coarse(Answered(w, told, FlattenSeq([n \in DOMAIN told |-> NamedFrame(n)]), TRUE)) EXCEPT !.whole = whole]

Created == E("created", "r", NoIndex, "none", "none")
Added(id, i) == E("added", id, i, "none", "none")
Delta(id, i) == E("delta", id, i, "d", "none")
Done(id, i, text) == E("done", id, i, text, "none")
Ended(type, id) == E(type, id, NoIndex, "none", "u")

Lifecycles == {
  [told |-> <<Plain("meta"), Created, Added("a", 0), Done("b", 0, "x"), Ended("completed", "s")>>, good |-> TRUE],
  [told |-> <<Created, Added("none", 0), Delta("c", 0), Ended("incomplete", "r")>>, good |-> TRUE],
  [told |-> <<Created, Ended("failed", "s"), Delta("a", 0)>>, good |-> TRUE],
  [told |-> <<Plain("error"), Created>>, good |-> TRUE],
  [told |-> <<Created, Plain("[DONE]")>>, good |-> FALSE],
  [told |-> <<Delta("a", 0), Created, Ended("completed", "r")>>, good |-> FALSE],
  [told |-> <<Created, Created>>, good |-> FALSE],
  [told |-> <<Created, Plain("malformed"), Ended("completed", "r")>>, good |-> FALSE]}

Framed(told, Frame(_)) == FlattenSeq([n \in DOMAIN told |-> Frame(n)])
Short == <<Created, Ended("completed", "s")>>

ForResponses(w) ==
  {Coarse(Answered(w, l.told, Framed(l.told, LfFrame), l.good)) : l \in Lifecycles}
    \cup {Answered(w, Short, Keepalive \o Framed(Short, CrLfFrame), TRUE),
          Answered(w, Short, Framed(Short, SplitFrame), TRUE),
          Answered(w, Short, NamedFrame(1) \o Keepalive \o NamedFrame(2), TRUE),
          Answered(w, Short, NamedFrame(1) \o MisnamedFrame(2), FALSE),
          Answered(w, Short, LfFrame(1) \o LongFrame(2), FALSE),
          Answered(w, Short, LfFrame(1) \o LongerFrame(2), FALSE),
          Answered(w, <<Created, Plain("empty"), Ended("completed", "r")>>,
                   LfFrame(1) \o EmptyFrame(2) \o LfFrame(3), TRUE)}

Chunk(u) == E("chunk", "none", NoIndex, "d", u)
ChatAnswers == {
  [told |-> <<Chunk("none"), Plain("finish"), E("usage", "none", NoIndex, "none", "u"), Plain("[DONE]")>>, good |-> TRUE],
  [told |-> <<Chunk("none"), Plain("error"), Plain("finish")>>, good |-> FALSE],
  [told |-> <<Chunk("v"), Plain("malformed"), Plain("[DONE]")>>, good |-> FALSE]}
ForChats(w) ==
  {Coarse(Answered(w, c.told, Framed(c.told, LfFrame), c.good)) : c \in ChatAnswers}
    \cup {Answered(w, <<Chunk("u")>>, Keepalive \o Framed(<<1>>, CrLfFrame), FALSE)}

MessageAnswers == {
  [told |-> <<E("message_start", "none", NoIndex, "none", "v"), Plain("ping"), Chunk("none"),
              E("message_delta", "none", NoIndex, "none", "u"), Plain("message_stop")>>, good |-> TRUE],
  [told |-> <<Chunk("v"), Plain("error"), Plain("message_stop")>>, good |-> TRUE],
  [told |-> <<Chunk("v"), Plain("malformed")>>, good |-> FALSE]}

Result(type) == <<E(type, "none", NoIndex, "none", "u")>>

MCAnswers ==
  UNION {ForResponses(w) : w \in {"responses", "provider responses"}}
    \cup UNION {ForChats(w) : w \in {"chat", "provider chat", "via chat"}}
    \cup {Coarse(Answered("provider messages", m.told, Framed(m.told, NamedFrame), m.good)) : m \in MessageAnswers}
    \cup {Coarse(Answered("via responses", l.told, Framed(l.told, LfFrame), l.good)) :
            l \in {k \in Lifecycles : k.told # <<Created, Created>>}}
    \cup {Whole("collected", <<Created, Done("a", 0, "x"), Done("b", 1, "y"), Ended("completed", "r")>>, <<"x", "y">>),
          Whole("collected", <<Created, Done("a", 1, "x"), E("completed", "r", NoIndex, "z", "u")>>, <<"z">>),
          Whole("collected", <<Created, Done("a", 1, "x"), Ended("completed", "r")>>, <<>>),
          Whole("collected", <<Created, Plain("meta"), Done("a", 0, "x"), Done("a", 0, "y")>>, <<>>),
          Whole("collected", <<Created, Ended("failed", "r")>>, <<>>)}
    \cup {Answered(w, Result(type), Content(1), TRUE) :
            w \in {"buffered", "relayed body"}, type \in {"result", "malformed"}}
    \cup {Answered("buffered", Result("result"), <<Comment, Comment, Comment, Comment>> \o Content(1), FALSE)}
=================================================================================

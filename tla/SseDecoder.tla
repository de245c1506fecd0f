------------------------------- MODULE SseDecoder -------------------------------
(***************************************************************************)
(* libs/sse.rs: the incremental parser of Server-Sent Events.  Bytes are  *)
(* symbols <<kind, number>>: a line end, or a part of a line that no      *)
(* chunk cuts further.  The content of record n is <<"half", n>> followed *)
(* by <<"rest", n>>: apart, they are no JSON.                             *)
(***************************************************************************)
EXTENDS Integers, Sequences, SequencesExt

CONSTANT MaxRecord   \* MAX_SSE_RECORD_BYTES, in symbols

Lf == <<"lf", 0>>
Cr == <<"cr", 0>>
Comment == <<"comment", 0>>
DataField == <<"data", 0>>      \* a line's "data: "
NameField(n) == <<"event", n>>  \* a whole line "event: n"
Content(n) == <<<<"half", n>>, <<"rest", n>>>>

BlankLines == {<<Cr, Lf, Cr, Lf>>, <<Lf, Lf>>, <<Cr, Cr>>}

Overlong(record) == Len(record) > MaxRecord

Decoder == [buf |-> <<>>, overflowed |-> FALSE]

\* next_boundary: the earliest blank line, as what is before it and what is behind it, or nothing.
NextBoundary(buf) ==
  LET found == {<<at, Len(b)>> : at \in 0 .. Len(buf), b \in BlankLines}
      ends == {e \in found : /\ e[1] + e[2] <= Len(buf)
                             /\ SubSeq(buf, e[1] + 1, e[1] + e[2]) \in BlankLines}
  IN IF ends = {} THEN <<>>
     ELSE LET e == CHOOSE e \in ends : \A f \in ends : e[1] <= f[1]
          IN <<SubSeq(buf, 1, e[1]), SubSeq(buf, e[1] + e[2] + 1, Len(buf))>>

\* A record's lines, which end at a line feed, a carriage return before it belonging to the end.
RecordLines(record) ==
  LET ends == SelectSeq([k \in 1 .. Len(record) + 1 |-> k], LAMBDA k : k > Len(record) \/ record[k] = Lf)
      lines == [k \in DOMAIN ends |-> SubSeq(record, IF k = 1 THEN 1 ELSE ends[k - 1] + 1, ends[k] - 1)]
  IN [k \in DOMAIN lines |-> IF lines[k] # <<>> /\ Last(lines[k]) = Cr THEN Front(lines[k]) ELSE lines[k]]

\* parse_record: the data lines of a record and its event name; a record without data is no event.
ParseRecord(record) ==
  LET lines == RecordLines(record)
      data == SelectSeq(lines, LAMBDA l : l # <<>> /\ Head(l) = DataField)
      names == SelectSeq(lines, LAMBDA l : l # <<>> /\ Head(l)[1] = "event")
  IN IF data = <<>> THEN <<>>
     ELSE <<[data |-> FlattenSeq([k \in DOMAIN data |-> Tail(data[k])]),
             name |-> IF names = <<>> THEN 0 ELSE Head(Last(names))[2]]>>

\* Takes complete records off a buffer until one is too long.
Drain(buf) ==
  LET Behind[at \in 0 .. Len(buf)] ==
        LET rest == SubSeq(buf, at + 1, Len(buf))
            next == NextBoundary(rest)
        IN IF next = <<>> THEN [buf |-> rest, overflowed |-> Overlong(rest), out |-> <<>>]
           ELSE IF Overlong(next[1]) THEN [buf |-> <<>>, overflowed |-> TRUE, out |-> <<>>]
           ELSE LET t == Behind[Len(buf) - Len(next[2])] IN [t EXCEPT !.out = ParseRecord(next[1]) \o @]
  IN Behind[0]

\* A mutant of Push: every chunk is searched for the blank line alone.
PushChunk(d, bytes) ==
  LET t == Drain(bytes)
  IN [decoder |-> [buf |-> d.buf \o t.buf, overflowed |-> FALSE], out |-> t.out]

\* Decoder::push.
Push(d, bytes) ==
  IF d.overflowed THEN [decoder |-> d, out |-> <<>>]
  ELSE LET t == Drain(d.buf \o bytes)
       IN [decoder |-> [buf |-> IF t.overflowed THEN <<>> ELSE t.buf, overflowed |-> t.overflowed], out |-> t.out]

\* Decoder::finish: what is left at the end of the body is a record, too.
Finish(d) == IF d.buf = <<>> THEN <<>> ELSE ParseRecord(d.buf)

\* SseEvent::is_activity_marker.
Marker == [data |-> <<>>, name |-> 0]
=================================================================================

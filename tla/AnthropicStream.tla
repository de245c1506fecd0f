-------------------------- MODULE AnthropicStream --------------------------
(***************************************************************************)
(* The events of an Anthropic Messages stream                              *)
(* (src/src/routes/messages/anthropic_types.rs) and what the two           *)
(* translators that produce them share: the state of the one open content  *)
(* block, the events emitted so far by the step, and the budget of output  *)
(* bytes.  A translator state is a record; a step that fails clears `ok`.  *)
(*                                                                         *)
(* Text is a sequence of pieces, each of one byte.                         *)
(***************************************************************************)
EXTENDS Integers, Sequences, SequencesExt

CONSTANT MaxBytes   \* MAX_UPSTREAM_RESPONSE_BYTES

ASSUME MaxBytesAssumption == MaxBytes \in Nat

Absent == "absent"       \* a field that is null or missing
Placeholder == "Thinking..."   \* THINKING_TEXT

Event(type, index, kind, body) ==
    [type |-> type, index |-> index, kind |-> kind, body |-> body]
MessageStart == Event("message_start", 0, "message", <<>>)
BlockStart(index, kind, body) == Event("block_start", index, kind, body)
BlockDelta(index, kind, body) == Event("block_delta", index, kind, body)
BlockStop(index) == Event("block_stop", index, "block", <<>>)
MessageDelta(reason, usage) == Event("message_delta", 0, reason, usage)
MessageStop == Event("message_stop", 0, "message", <<>>)
ErrorEvent(kind) == Event("error", 0, kind, <<>>)

Emit(s, events) == [s EXCEPT !.out = @ \o events]

Fail(s) == [s EXCEPT !.ok = FALSE]

\* One call after another, each ended by `?`.
Then(s, F(_)) == IF s.ok THEN F(s) ELSE s

\* TranslatedOutputBudget::try_reserve
Reserve(s, bytes) ==
    IF s.spent + bytes > MaxBytes THEN Fail(s) ELSE [s EXCEPT !.spent = @ + bytes]

Prefixed(a, b) == IsPrefix(a, b) \/ IsPrefix(b, a)

\* The placeholder stands for no output of the model.
Said(body) == SelectSeq(body, LAMBDA p : p # Placeholder)
============================================================================

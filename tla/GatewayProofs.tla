---------------------------- MODULE GatewayProofs ----------------------------
(***************************************************************************)
(* Proofs about the gates of the proxy and its configuration, for all      *)
(* requests, kinds of requests, edits and numbers of calls under way.      *)
(***************************************************************************)
EXTENDS Gateway, SequenceTheorems, TLAPS

(***************************************************************************)
(* The gates a request has left.  All handlers pass their gates in one     *)
(* order, so that a set of gates says everything about what lies ahead.    *)
(***************************************************************************)
AllGates == {"map", "controls", "admit", "search", "alias", "premium", "model", "transport", "approve", "route",
             "resolve", "supports", "recheck", "send"}
Rank(gate) ==
    CASE gate = "map" -> 1       [] gate = "controls" -> 2  [] gate = "admit" -> 3    [] gate = "search" -> 4
      [] gate = "alias" -> 5     [] gate = "premium" -> 6   [] gate = "model" -> 7    [] gate = "transport" -> 8
      [] gate = "approve" -> 9   [] gate = "route" -> 10    [] gate = "resolve" -> 11 [] gate = "supports" -> 12
      [] gate = "recheck" -> 13  [] gate = "send" -> 14
Left(todo) == {todo[i] : i \in 1..Len(todo)}
Ordered(todo) == \A i, j \in 1..Len(todo) : i < j => Rank(todo[i]) < Rank(todo[j])

(***************************************************************************)
(* The inductive invariant of a request, in parts: each holds of a request *)
(* on its way and of one that was sent, which has no gate left.            *)
(***************************************************************************)
OnItsWay(q) == q.status \in {"open", "sent"}
NoKind == [endpoint |-> "none"]
Statuses == {"new", "open", "sent", "refused", "failed", "gone"}
Wires == {"none", "messages", "responses", "chat", "anthropic", "openai-compatible"}
RequestType ==
    [kind : Kinds \cup {NoKind}, todo : Seq(AllGates), status : Statuses, model : STRING \cup {"none"}, admitted : Nat,
     paid : BOOLEAN, approved : BOOLEAN, checked : Configs, moved : BOOLEAN, with : Providers, wire : Wires,
     searched : BOOLEAN]

\* Gates come in order, and the last one is to be sent.
Course(q) ==
    /\ q.kind \in Kinds
    /\ Ordered(q.todo)
    /\ q.status = "open" => "send" \in Left(q.todo)
    /\ q.status = "sent" => Left(q.todo) = {}

\* Admission is ahead or was passed once; a provider in the path has none.
AdmittedOnce(q) ==
    /\ q.admitted = IF "admit" \in Left(q.todo) \/ q.kind.endpoint \in Scoped THEN 0 ELSE 1
    /\ "admit" \in Left(q.todo) => q.kind.endpoint \notin Scoped

\* A request goes to a provider, or its premium gate and its approval are ahead or passed.
ToProvider(q) == q.with # "none" \/ "resolve" \in Left(q.todo)
PaidOrAhead(q) ==
    q.kind.endpoint # "embeddings" => ToProvider(q) \/ "premium" \in Left(q.todo) \/ q.paid
ApprovedOrAhead(q, asked) ==
    (asked /\ q.kind.endpoint \in Approved) =>
        ToProvider(q) \/ "approve" \in Left(q.todo) \/ q.searched \/ q.approved
Resolved(q) == q.with # "none" => \A gate \in Left(q.todo) : Rank(gate) > Rank("resolve")

\* The handlers of Messages requests: where the gates that read the model and the
\* configuration are ahead, so are those that decide by them.
MessagesCourse(q) ==
    LET left == Left(q.todo)
    IN /\ "alias" \in left => q.kind.endpoint \in {"messages", "chat", "responses", "compact"}
       /\ left \cap {"search", "route"} # {} => q.kind.endpoint = "messages"
       /\ "transport" \in left => ~q.kind.controls
       /\ ("route" \in left /\ "map" \in left) => "controls" \in left
       /\ ("route" \in left /\ left \cap {"map", "controls"} # {}) => "alias" \in left /\ "search" \in left
       /\ ("search" \in left \/ "alias" \in left) /\ q.kind.controls => "route" \in left

\* What was checked decides what can still be chosen, unless the configuration moved.
Checked(q) ==
    LET left == Left(q.todo)
    IN q.kind.controls =>
       /\ ("route" \in left /\ "controls" \notin left) => ~WouldUseResponses(q, q.checked)
       /\ ("route" \in left /\ "search" \notin left /\ q.kind.search) => q.moved \/ q.checked.search = "strip"
       /\ ("route" \in left /\ "alias" \notin left) => q.model # "P"
       /\ "search" \in left => q.wire = "none"
       /\ "resolve" \in left => "recheck" \in left
       /\ q.with # "none" => "recheck" \in left \/ q.wire # "responses"
       /\ (q.with = "none" /\ q.wire = "responses") => q.moved

Way(q, asked) ==
    OnItsWay(q) =>
        /\ Course(q) /\ AdmittedOnce(q) /\ PaidOrAhead(q) /\ ApprovedOrAhead(q, asked)
        /\ Resolved(q) /\ MessagesCourse(q) /\ Checked(q)

\* A reader under way belongs to a request at its approval, or to one that is gone.
ReadersWait == \A r \in readers : req[r].status # "new" /\ (Open(r) => Head(req[r].todo) = "approve")

(***************************************************************************)
(* The inductive invariant of the configuration: what a call that met no   *)
(* other one knows of the file at each of its steps.                       *)
(***************************************************************************)
EditTypes == Edits \cup {[field |-> "none"]}
Written == {config \in Configs : Readable(config)}
Places == {"idle", "edit", "write", "load", "ensure", "persist", "persist new key", "cache", "saved", "failed"}
CallType == [at : Places, edit : EditTypes, held : Written, alone : BOOLEAN]
ConfigTypeOK ==
    /\ file \in Configs /\ (Readable(file) \/ file \in {Empty, Malformed})
    /\ cache \in Configs
    /\ proc \in [Procs -> CallType]
    /\ saves \in Nat

InFile(edit) == edit.field = "none" \/ (Readable(file) /\ Edited(file, edit) = file)
Knows(p) ==
    LET held == proc[p].held
        edit == proc[p].edit
    IN CASE At(p, "write") -> file # Malformed /\ Readable(held) /\ Edited(held, edit) = held
         [] At(p, "load") -> InFile(edit)
         [] At(p, "ensure") -> InFile(edit) /\ held = IF Readable(file) THEN file ELSE Defaults
         [] At(p, "persist") -> InFile(edit) /\ Readable(file) /\ held = Merged(file)
         [] At(p, "persist new key") ->
                /\ InFile(edit)
                /\ file # Malformed /\ held = Merged(IF Readable(file) THEN file ELSE Defaults)
         [] At(p, "cache") -> InFile(edit) /\ Readable(file) /\ held = Merged(file)
         [] OTHER -> TRUE
CallsKnow == \A p \in Procs : (Running(p) /\ proc[p].alone) => Knows(p)

RequestsIInv ==
    /\ req \in [Requests -> RequestType] /\ readers \subseteq Requests /\ manual \in BOOLEAN
    /\ \A r \in Requests : Way(req[r], manual)
    /\ ReadersWait

-----------------------------------------------------------------------------
LEMMA RankType == \A gate \in AllGates : Rank(gate) \in Int
  BY DEF Rank, AllGates

\* Passing a gate leaves the others, all of them further on.
LEMMA Passing ==
    ASSUME NEW todo \in Seq(AllGates), Ordered(todo), todo # <<>>
    PROVE  /\ Head(todo) \in AllGates /\ Tail(todo) \in Seq(AllGates) /\ Ordered(Tail(todo))
           /\ Left(todo) = {Head(todo)} \cup Left(Tail(todo))
           /\ \A gate \in Left(Tail(todo)) : gate \in AllGates /\ Rank(Head(todo)) < Rank(gate)
<1>1. /\ Head(todo) = todo[1] /\ 1 \in 1..Len(todo) /\ Head(todo) \in AllGates /\ Tail(todo) \in Seq(AllGates)
      /\ Len(Tail(todo)) = Len(todo) - 1 /\ \A i \in 1..Len(Tail(todo)) : Tail(todo)[i] = todo[i + 1]
  OBVIOUS
<1>2. \A i \in 1..Len(todo) : i = 1 \/ (i - 1 \in 1..Len(Tail(todo)) /\ todo[i] = Tail(todo)[i - 1])
  BY <1>1
<1>3. Left(todo) = {Head(todo)} \cup Left(Tail(todo))
  <2>1. ASSUME NEW gate \in Left(todo) PROVE gate \in {Head(todo)} \cup Left(Tail(todo))
    BY <2>1, <1>1, <1>2 DEF Left
  <2>2. ASSUME NEW gate \in Left(Tail(todo)) PROVE gate \in Left(todo)
    <3>1. PICK i \in 1..Len(Tail(todo)) : gate = Tail(todo)[i]
      BY DEF Left
    <3>2. i + 1 \in 1..Len(todo) /\ gate = todo[i + 1]
      BY <3>1, <1>1
    <3>3. QED BY <3>2 DEF Left
  <2>3. QED BY <2>1, <2>2, <1>1 DEF Left
<1>4. Ordered(Tail(todo))
  BY <1>1 DEF Ordered
<1>5. \A gate \in Left(Tail(todo)) : gate \in AllGates /\ Rank(Head(todo)) < Rank(gate)
  BY <1>1 DEF Left, Ordered
<1>6. QED BY <1>1, <1>3, <1>4, <1>5

LEMMA ProviderGates ==
    /\ ProviderMessagesGates \in Seq(AllGates) /\ Len(ProviderMessagesGates) = 6
    /\ ProviderMessagesGates[1] = "controls" /\ ProviderMessagesGates[2] = "admit"
    /\ ProviderMessagesGates[3] = "resolve" /\ ProviderMessagesGates[4] = "supports"
    /\ ProviderMessagesGates[5] = "recheck" /\ ProviderMessagesGates[6] = "send"
<1> DEFINE own == <<"controls", "admit">>
<1>1. own \in Seq(AllGates) /\ Len(own) = 2 /\ ForMessages \in Seq(AllGates) /\ Len(ForMessages) = 4
    BY DEF ForMessages, AllGates
<1>2. ForMessages[1] = "resolve" /\ ForMessages[2] = "supports" /\ ForMessages[3] = "recheck"
        /\ ForMessages[4] = "send" /\ own[1] = "controls" /\ own[2] = "admit"
    BY DEF ForMessages
<1>3. ProviderMessagesGates = own \o ForMessages
    BY DEF ProviderMessagesGates
<1> HIDE DEF own
<1>4. /\ own \o ForMessages \in Seq(AllGates)
      /\ Len(own \o ForMessages) = Len(own) + Len(ForMessages)
      /\ \A i \in 1..Len(own) + Len(ForMessages) :
             (own \o ForMessages)[i] = IF i <= Len(own) THEN own[i] ELSE ForMessages[i - Len(own)]
  BY <1>1, ConcatProperties, Zenon
<1>5. \A i \in 1..6 : (own \o ForMessages)[i] = IF i <= 2 THEN own[i] ELSE ForMessages[i - 2]
  BY SMTT(20), <1>1, <1>4
<1>6. PICK all : all = own \o ForMessages
  OBVIOUS
<1>7. /\ all[1] = own[1] /\ all[2] = own[2] /\ all[3] = ForMessages[1] /\ all[4] = ForMessages[2]
      /\ all[5] = ForMessages[3] /\ all[6] = ForMessages[4]
  <2>1. \A i \in 1..6 : all[i] = IF i <= 2 THEN own[i] ELSE ForMessages[i - 2]
    BY <1>5, <1>6
  <2>2. QED BY <2>1
<1>8. all \in Seq(AllGates) /\ Len(all) = 6
  BY <1>1, <1>4, <1>6
<1>9. QED BY <1>2, <1>3, <1>6, <1>7, <1>8

\* The gates of a handler, as a set.
Plan(todo, gates) == todo \in Seq(AllGates) /\ Ordered(todo) /\ Left(todo) = gates

LEMMA Plans ==
    /\ Plan(ChatGates, {"map", "admit", "alias", "premium", "model", "approve", "send"})
    /\ Plan(ResponsesGates, {"map", "admit", "alias", "premium", "transport", "approve", "send"})
    /\ Plan(CompactGates, {"map", "admit", "alias", "premium", "transport", "send"})
    /\ Plan(MessagesGates, {"map", "controls", "admit", "search", "alias", "premium", "approve", "route", "send"})
    /\ Plan(ImagesGates, {"admit", "premium", "resolve", "supports", "send"})
    /\ Plan(EmbeddingsGates, {"admit", "send"})
    /\ Plan(ProviderMessagesGates, {"controls", "admit", "resolve", "supports", "recheck", "send"})
    /\ Plan(ForMessages, {"resolve", "supports", "recheck", "send"})
    /\ Plan(ForChat, {"resolve", "supports", "send"})
    /\ Plan(<<"premium", "send">>, {"premium", "send"})
    /\ Plan(<<>>, {})
<1> USE DEF Plan, Ordered, Left, AllGates, Rank
<1>1. Plan(ChatGates, {"map", "admit", "alias", "premium", "model", "approve", "send"})
  BY DEF ChatGates
<1>2. Plan(ResponsesGates, {"map", "admit", "alias", "premium", "transport", "approve", "send"})
  BY DEF ResponsesGates
<1>3. Plan(CompactGates, {"map", "admit", "alias", "premium", "transport", "send"})
  BY DEF CompactGates
<1>4. Plan(MessagesGates, {"map", "controls", "admit", "search", "alias", "premium", "approve", "route", "send"})
  BY DEF MessagesGates
<1>5. Plan(ImagesGates, {"admit", "premium", "resolve", "supports", "send"})
  BY DEF ImagesGates
<1>6. Plan(EmbeddingsGates, {"admit", "send"})
  BY DEF EmbeddingsGates
<1>7. Plan(ProviderMessagesGates, {"controls", "admit", "resolve", "supports", "recheck", "send"})
  BY ProviderGates
<1>8. Plan(ForMessages, {"resolve", "supports", "recheck", "send"})
  BY DEF ForMessages
<1>9. Plan(ForChat, {"resolve", "supports", "send"})
  BY DEF ForChat
<1>10. Plan(<<"premium", "send">>, {"premium", "send"})
  OBVIOUS
<1>11. Plan(<<>>, {})
  OBVIOUS
<1>12. QED BY <1>1, <1>2, <1>3, <1>4, <1>5, <1>6, <1>7, <1>8, <1>9, <1>10, <1>11
-----------------------------------------------------------------------------
(***************************************************************************)
(* The configuration.                                                      *)
(***************************************************************************)
\* Edits and defaults touch different parts of a configuration, and each is done once.
LEMMA Editing ==
    ASSUME NEW config \in Configs, NEW edit \in EditTypes
    PROVE  /\ Edited(config, edit) \in Configs
           /\ Readable(Edited(config, edit)) <=> Readable(config)
           /\ Edited(Edited(config, edit), edit) = Edited(config, edit)
           /\ Edited(config, edit) = config => Edited(Merged(config), edit) = Merged(config)
<1> USE DEF Edited, Readable, Merged, Configs
<1>1. CASE edit.field = "none"
  BY <1>1
<1>2. CASE edit.field = "mapping" /\ edit.value \in STRING
  BY <1>2
<1>3. CASE edit.field = "provider" /\ edit.value \in Providers
  BY <1>3
<1>4. CASE edit.field = "search" /\ edit.value \in Searchers
  BY <1>4
<1>5. CASE edit.field \in {"native", "gate"} /\ edit.value \in BOOLEAN
  <2>1. CASE edit.field = "native"
    BY <1>5, <2>1
  <2>2. CASE edit.field = "gate"
    BY <1>5, <2>2
  <2>3. QED BY <1>5, <2>1, <2>2
<1>6. QED BY <1>1, <1>2, <1>3, <1>4, <1>5, ConfigStoreAssumption DEF EditTypes

LEMMA Merging ==
    ASSUME NEW config \in Configs
    PROVE  /\ Merged(config) \in Configs /\ Merged(config).full /\ Merged(config).keyed
           /\ Readable(Merged(config)) <=> Readable(config)
           /\ Merged(Merged(config)) = Merged(config)
           /\ config.full /\ config.keyed => Merged(config) = config
  BY DEF Merged, Readable, Configs

LEMMA Texts ==
    /\ Defaults \in Configs /\ Empty \in Configs /\ Malformed \in Configs
    /\ [Defaults EXCEPT !.full = FALSE] \in Configs /\ Readable([Defaults EXCEPT !.full = FALSE])
    /\ Readable(Defaults) /\ ~Readable(Empty) /\ ~Readable(Malformed) /\ Empty # Malformed
    /\ ~Defaults.keyed /\ Defaults \in Written
  BY ConfigStoreAssumption DEF Empty, Malformed, Readable, Configs, Written

\* A call that nothing was done to, while the file stayed, knows what it knew.
LEMMA StillKnows ==
    ASSUME NEW q \in Procs, Running(q) /\ proc[q].alone => Knows(q), proc'[q] = proc[q], file' = file
    PROVE  Running(q)' /\ proc'[q].alone => Knows(q)'
  BY DEF Running, At, Knows, InFile

ConfigIInv == ConfigTypeOK /\ CallsKnow

\* What a call that goes from place to place keeps.
Moved(call, place, held) == [call EXCEPT !.at = place, !.held = held]

LEMMA Moving ==
    ASSUME NEW call \in CallType, NEW place \in Places, NEW held \in Written,
           NEW new, new = Moved(call, place, held)
    PROVE  new \in CallType /\ new.at = place /\ new.held = held /\ new.edit = call.edit /\ new.alone = call.alone
<1>1. PICK there : there = [call EXCEPT !.at = place]
  OBVIOUS
<1>2. there \in CallType /\ there.at = place /\ there.edit = call.edit
  BY <1>1 DEF CallType
<1>3. there.alone = call.alone
  BY <1>1 DEF CallType
<1>4. new = [there EXCEPT !.held = held]
  BY <1>1 DEF Moved
<1>5. new \in CallType /\ new.at = there.at /\ new.held = held /\ new.edit = there.edit
  BY <1>2, <1>4 DEF CallType
<1>6. new.alone = there.alone
  BY <1>2, <1>4 DEF CallType
<1>7. QED BY <1>2, <1>3, <1>5, <1>6

Went(p, place, held) ==
    /\ proc' \in [Procs -> CallType] /\ \A q \in Procs \ {p} : proc'[q] = proc[q]
    /\ proc'[p].at = place /\ proc'[p].held = held
    /\ proc'[p].edit = proc[p].edit /\ proc'[p].alone = proc[p].alone

LEMMA Going ==
    ASSUME ConfigIInv, NEW p \in Procs, NEW place \in Places, NEW held \in Written, GoTo(p, place, held)
    PROVE  Went(p, place, held)
<1>1. PICK there : there = [proc EXCEPT ![p].at = place]
  OBVIOUS
<1>2. proc \in [Procs -> CallType]
  BY DEF ConfigIInv, ConfigTypeOK
<1>3. /\ there \in [Procs -> CallType] /\ \A q \in Procs \ {p} : there[q] = proc[q]
      /\ there[p].at = place /\ there[p].edit = proc[p].edit
  BY <1>1, <1>2 DEF CallType
<1>4. there[p].alone = proc[p].alone
  BY <1>1, <1>2 DEF CallType
<1>5. proc' = [there EXCEPT ![p].held = held]
  BY <1>1 DEF GoTo
<1>6. /\ proc' \in [Procs -> CallType] /\ \A q \in Procs \ {p} : proc'[q] = there[q]
      /\ proc'[p].at = there[p].at /\ proc'[p].edit = there[p].edit /\ proc'[p].held = held
  BY <1>3, <1>5 DEF CallType
<1>7. proc'[p].alone = there[p].alone
  BY <1>3, <1>5 DEF CallType
<1>8. QED BY <1>3, <1>4, <1>6, <1>7 DEF Went

\* What each step of the configuration may do; a call that goes from place to place, and a call that writes the file
\* or the copy and leaves no other call alone.
ConfigStep == MalformedKept /\ \A p \in Procs : Kept(p)
Quiet(p) ==
    /\ proc' \in [Procs -> CallType] /\ \A q \in Procs \ {p} : proc'[q] = proc[q]
    /\ UNCHANGED <<file, cache, saves>>
    /\ proc'[p].at # "saved"
    /\ Running(p)' /\ proc'[p].alone => Knows(p)'
Loud(p) ==
    /\ proc' \in [Procs -> CallType]
    /\ \A q \in Procs \ {p} : proc'[q].at = proc[q].at /\ (Running(q) => ~proc'[q].alone)
    /\ file' \in Configs /\ (Readable(file') \/ file' \in {Empty, Malformed}) /\ cache' \in Configs /\ saves' \in Nat
    /\ Running(p)' /\ proc'[p].alone => Knows(p)'
    /\ Kept(p) /\ MalformedKept

LEMMA QuietStep ==
    ASSUME ConfigIInv, NEW p \in Procs, Quiet(p)
    PROVE  ConfigIInv' /\ ConfigStep
<1>1. ConfigTypeOK'
  BY DEF ConfigIInv, ConfigTypeOK, Quiet
<1>2. ASSUME NEW q \in Procs PROVE Running(q)' /\ proc'[q].alone => Knows(q)'
  <2>1. CASE q = p
    BY <2>1 DEF Quiet
  <2>2. CASE q # p
    BY <2>2, StillKnows DEF ConfigIInv, CallsKnow, Quiet
  <2>3. QED BY <2>1, <2>2
<1>3. ConfigStep
  <2>1. MalformedKept
    BY DEF MalformedKept, Quiet
  <2>2. ASSUME NEW q \in Procs PROVE Kept(q)
    <3>1. CASE q = p
      BY <3>1 DEF Kept, Quiet
    <3>2. CASE q # p
      BY <3>2 DEF Kept, Running, Quiet
    <3>3. QED BY <3>1, <3>2
  <2>3. QED BY <2>1, <2>2 DEF ConfigStep
<1>4. QED BY <1>1, <1>2, <1>3 DEF ConfigIInv, CallsKnow

LEMMA LoudStep ==
    ASSUME ConfigIInv, NEW p \in Procs, Loud(p)
    PROVE  ConfigIInv' /\ ConfigStep
<1>1. ConfigTypeOK'
  BY DEF ConfigIInv, ConfigTypeOK, Loud
<1>2. ASSUME NEW q \in Procs PROVE Running(q)' /\ proc'[q].alone => Knows(q)'
  <2>1. CASE q = p
    BY <2>1 DEF Loud
  <2>2. CASE q # p
    BY <2>2 DEF Running, Loud
  <2>3. QED BY <2>1, <2>2
<1>3. ConfigStep
  <2>1. ASSUME NEW q \in Procs PROVE Kept(q)
    <3>1. CASE q = p
      BY <3>1 DEF Loud
    <3>2. CASE q # p
      BY <3>2 DEF Kept, Running, Loud
    <3>3. QED BY <3>1, <3>2
  <2>2. QED BY <2>1 DEF ConfigStep, Loud
<1>4. QED BY <1>1, <1>2, <1>3 DEF ConfigIInv, CallsKnow

LEMMA BeginStep ==
    ASSUME ConfigIInv, NEW p \in Procs, NEW edit \in Edits, Begin(p, edit)
    PROVE  ConfigIInv' /\ ConfigStep
<1>1. UNCHANGED <<file, cache, saves>>
  BY DEF Begin
<1>2. PICK begun : begun = [Idle EXCEPT !.at = IF edit.field = "none" THEN "load" ELSE "edit", !.edit = edit,
                                        !.alone = \A q \in Procs : ~Running(q)]
  OBVIOUS
<1>3. /\ begun \in CallType /\ begun.at \in {"load", "edit"} /\ begun.edit = edit
      /\ begun.at = "load" => edit.field = "none"
  BY <1>2, Texts DEF CallType, EditTypes, Idle, Places
<1>4. proc' = [proc EXCEPT ![p] = begun]
  BY <1>2 DEF Begin
<1>5. proc' \in [Procs -> CallType] /\ proc'[p] = begun /\ \A q \in Procs \ {p} : proc'[q] = proc[q]
  BY <1>3, <1>4 DEF ConfigIInv, ConfigTypeOK
<1>6. Knows(p)'
  BY <1>3, <1>5 DEF Knows, At, InFile
<1>7. Quiet(p)
  BY <1>1, <1>3, <1>5, <1>6 DEF Quiet
<1>8. QED BY <1>7, QuietStep

LEMMA FailStep ==
    ASSUME ConfigIInv, NEW p \in Procs, Fail(p), UNCHANGED <<file, cache, saves>>
    PROVE  ConfigIInv' /\ ConfigStep
<1>1. Went(p, "failed", Defaults)
  BY Texts, Going DEF Fail, Places
<1>2. Quiet(p)
  BY <1>1 DEF Quiet, Running, Went
<1>3. QED BY <1>2, QuietStep

LEMMA ReadForEditStep ==
    ASSUME ConfigIInv, NEW p \in Procs, ReadForEdit(p)
    PROVE  ConfigIInv' /\ ConfigStep
<1>1. /\ UNCHANGED <<file, cache, saves>> /\ file \in Configs /\ proc[p].edit \in EditTypes
      /\ Readable(file) \/ file \in {Empty, Malformed}
  BY DEF ReadForEdit, ConfigIInv, ConfigTypeOK, CallType
<1>2. ASSUME NEW read \in Configs, Readable(read), GoTo(p, "write", Edited(read, proc[p].edit)), file # Malformed
      PROVE  ConfigIInv' /\ ConfigStep
  <2>1. PICK held : held = Edited(read, proc[p].edit)
    OBVIOUS
  <2>2. held \in Configs /\ Readable(held) /\ Edited(held, proc[p].edit) = held
    BY <1>1, <1>2, <2>1, Editing
  <2> held \in Written
    BY <2>2 DEF Written
  <2>3. Went(p, "write", held)
    BY <1>2, <2>1, <2>2, Going DEF Places
  <2>4. Knows(p)'
    BY <1>1, <1>2, <2>2, <2>3 DEF Knows, At, Went
  <2>5. Quiet(p)
    BY <1>1, <2>3, <2>4 DEF Quiet, Went
  <2>6. QED BY <2>5, QuietStep
<1>3. CASE Readable(file)
  BY <1>1, <1>2, <1>3, Texts DEF ReadForEdit
<1>4. CASE file = Empty
  BY <1>1, <1>2, <1>4, Texts DEF ReadForEdit
<1>5. CASE file = Malformed
  BY <1>1, <1>5, FailStep, Texts DEF ReadForEdit
<1>6. QED BY <1>1, <1>3, <1>4, <1>5

\* What a call that writes does to itself and to the others.
Pushed(p, place, held) ==
    /\ proc' \in [Procs -> CallType]
    /\ proc'[p].at = place /\ proc'[p].held = held
    /\ proc'[p].edit = proc[p].edit /\ proc'[p].alone = proc[p].alone
    /\ \A q \in Procs \ {p} : proc'[q].at = proc[q].at /\ (Running(q) => ~proc'[q].alone)

LEMMA Disturbing ==
    ASSUME ConfigIInv, NEW p \in Procs, NEW place \in Places, NEW held \in Written, Disturb(p, place, held)
    PROVE  Pushed(p, place, held)
<1>1. \A q \in Procs : proc[q] \in CallType
  BY DEF ConfigIInv, ConfigTypeOK
<1>2. PICK call : call = proc[p]
  OBVIOUS
<1>3. PICK new : new = Moved(call, place, held)
  OBVIOUS
<1>4. new \in CallType /\ new.at = place /\ new.held = held /\ new.edit = call.edit /\ new.alone = call.alone
  <2>1. call \in CallType
    BY <1>1, <1>2
  <2>2. QED BY <2>1, <1>3, Moving
<1>5. ASSUME NEW q \in Procs
      PROVE  /\ [proc[q] EXCEPT !.alone = @ /\ ~Running(q)] \in CallType
             /\ [proc[q] EXCEPT !.alone = @ /\ ~Running(q)].at = proc[q].at
             /\ Running(q) => ~[proc[q] EXCEPT !.alone = @ /\ ~Running(q)].alone
  BY <1>1 DEF CallType, Running
<1>6. proc' = [q \in Procs |-> IF q = p THEN new ELSE [proc[q] EXCEPT !.alone = @ /\ ~Running(q)]]
  BY <1>2, <1>3 DEF Disturb, Moved
<1>7. proc' \in [Procs -> CallType] /\ proc'[p] = new
  BY <1>4, <1>5, <1>6
<1>8. \A q \in Procs \ {p} : proc'[q] = [proc[q] EXCEPT !.alone = @ /\ ~Running(q)]
  BY <1>6
<1>9. QED BY <1>2, <1>4, <1>5, <1>7, <1>8 DEF Pushed

LEMMA WriteEditStep ==
    ASSUME ConfigIInv, NEW p \in Procs, WriteEdit(p)
    PROVE  ConfigIInv' /\ ConfigStep
<1>1. /\ UNCHANGED <<cache, saves>> /\ At(p, "write") /\ Running(p)
      /\ proc[p] \in CallType /\ proc[p].held \in Written /\ proc[p].held \in Configs /\ Readable(proc[p].held)
      /\ proc[p].edit \in EditTypes /\ cache \in Configs /\ saves \in Nat
      /\ proc[p].alone => file # Malformed /\ Edited(proc[p].held, proc[p].edit) = proc[p].held
  BY DEF WriteEdit, ConfigIInv, ConfigTypeOK, CallType, CallsKnow, Knows, At, Running, Written
<1>2. CASE file' = proc[p].held /\ Disturb(p, "load", proc[p].held)
  <2>1. PICK held : held = proc[p].held
    OBVIOUS
  <2>2. Pushed(p, "load", held)
    BY <1>1, <1>2, <2>1, Disturbing DEF Places
  <2>3. proc[p].alone => Knows(p)'
    BY <1>1, <1>2, <2>1, <2>2 DEF Knows, At, InFile, Pushed
  <2>4. MalformedKept /\ Kept(p)
    BY <1>1, <2>2 DEF MalformedKept, Kept, At, Pushed
  <2>5. Loud(p)
    BY <1>1, <1>2, <2>2, <2>3, <2>4 DEF Loud, Pushed
  <2>6. QED BY <2>5, LoudStep
<1>3. CASE Fail(p) /\ UNCHANGED file
  BY <1>1, <1>3, FailStep
<1>4. QED BY <1>2, <1>3 DEF WriteEdit

\* What a step reads before it moves on.
LEMMA Reading ==
    ASSUME ConfigIInv, NEW p \in Procs
    PROVE  /\ file \in Configs /\ (Readable(file) \/ file \in {Empty, Malformed}) /\ cache \in Configs /\ saves \in Nat
           /\ proc[p] \in CallType /\ proc[p].held \in Written /\ proc[p].held \in Configs
           /\ Readable(proc[p].held) /\ proc[p].edit \in EditTypes
           /\ Running(p) /\ proc[p].alone => Knows(p)
  BY DEF ConfigIInv, ConfigTypeOK, CallsKnow, CallType, Written

LEMMA LoadStep ==
    ASSUME ConfigIInv, NEW p \in Procs, Load(p)
    PROVE  ConfigIInv' /\ ConfigStep
<1>1. /\ UNCHANGED <<cache, saves>> /\ At(p, "load") /\ Running(p) /\ (proc[p].alone => InFile(proc[p].edit))
  BY Reading DEF Load, Knows, At, Running
<1>2. CASE file = Empty /\ file' = Defaults /\ Disturb(p, "ensure", Defaults)
  <2>1. Pushed(p, "ensure", Defaults)
    BY <1>2, Disturbing, Texts DEF Places
  <2>2. proc[p].alone => proc[p].edit.field = "none"
    BY <1>1, <1>2, Texts DEF InFile
  <2>3. proc[p].alone => Knows(p)'
    BY <1>2, <2>1, <2>2, Texts DEF Knows, At, InFile, Pushed
  <2>4. MalformedKept /\ Kept(p)
    BY <1>2, <2>1, Texts DEF MalformedKept, Kept, Pushed
  <2>5. Loud(p)
    BY <1>1, <1>2, <2>1, <2>3, <2>4, Reading, Texts DEF Loud, Pushed
  <2>6. QED BY <2>5, LoudStep
<1>3. ASSUME NEW held \in Written, held = (IF Readable(file) THEN file ELSE Defaults), GoTo(p, "ensure", held),
             UNCHANGED file
      PROVE  ConfigIInv' /\ ConfigStep
  <2>1. Went(p, "ensure", held)
    BY <1>3, Going DEF Places
  <2>2. proc[p].alone => Knows(p)'
    BY <1>1, <1>3, <2>1 DEF Knows, At, InFile, Went
  <2>3. Quiet(p)
    BY <1>1, <1>3, <2>1, <2>2 DEF Quiet, Went
  <2>4. QED BY <2>3, QuietStep
<1>4. CASE UNCHANGED file /\ GoTo(p, "ensure", IF Readable(file) THEN file ELSE Defaults)
  <2>1. PICK held : held = IF Readable(file) THEN file ELSE Defaults
    OBVIOUS
  <2>2. held \in Written
    BY <2>1, Reading, Texts DEF Written
  <2>3. QED BY <1>3, <1>4, <2>1, <2>2
<1>5. file = Empty => (IF Readable(file) THEN file ELSE Defaults) = Defaults
  BY Texts
<1>6. QED BY <1>2, <1>4, <1>5 DEF Load

LEMMA EnsureKeyStep ==
    ASSUME ConfigIInv, NEW p \in Procs, EnsureKey(p)
    PROVE  ConfigIInv' /\ ConfigStep
<1>1. /\ UNCHANGED <<file, cache, saves>> /\ At(p, "ensure") /\ Running(p)
      /\ proc[p].alone => InFile(proc[p].edit) /\ proc[p].held = IF Readable(file) THEN file ELSE Defaults
  BY Reading DEF EnsureKey, Knows, At, Running
<1>2. ASSUME NEW held \in Configs, Readable(held), NEW place \in {"cache", "persist", "persist new key"},
             GoTo(p, place, Merged(held)),
             proc[p].alone => /\ held = IF Readable(file) THEN file ELSE Defaults
                              /\ Readable(file) \/ (place = "persist new key" /\ file # Malformed)
      PROVE  ConfigIInv' /\ ConfigStep
  <2>1. PICK merged : merged = Merged(held)
    OBVIOUS
  <2>2. merged \in Written
    BY <1>2, <2>1, Merging DEF Written
  <2>3. Went(p, place, merged)
    BY <1>2, <2>1, <2>2, Going DEF Places
  <2>4. proc[p].alone => Knows(p)'
    BY <1>1, <1>2, <2>1, <2>3, Texts DEF Knows, At, InFile, Went
  <2>5. Quiet(p)
    BY <1>1, <1>2, <2>3, <2>4 DEF Quiet, Went
  <2>6. QED BY <2>5, QuietStep
<1>3. CASE proc[p].held.keyed
  <2>1. PICK held, place : held = proc[p].held /\ place = IF proc[p].held.full THEN "cache" ELSE "persist"
    OBVIOUS
  <2>2. proc[p].alone => Readable(file)
    BY <1>1, <1>3, Texts
  <2>3. GoTo(p, place, Merged(held))
    BY <1>3, <2>1 DEF EnsureKey
  <2>4. QED BY <1>1, <1>2, <2>1, <2>2, <2>3, Reading
<1>4. CASE ~proc[p].held.keyed /\ file = Malformed
  BY <1>1, <1>4, FailStep, Texts DEF EnsureKey
<1>5. CASE ~proc[p].held.keyed /\ file = Empty
  BY <1>1, <1>2, <1>5, Texts DEF EnsureKey
<1>6. CASE ~proc[p].held.keyed /\ Readable(file)
  <2>1. PICK held : held = file
    OBVIOUS
  <2>2. GoTo(p, "persist new key", Merged(held))
    BY <1>6, <2>1, Texts DEF EnsureKey
  <2>3. QED BY <1>1, <1>2, <1>6, <2>1, <2>2, Reading
<1>7. QED BY <1>3, <1>4, <1>5, <1>6, Reading

LEMMA PersistStep ==
    ASSUME ConfigIInv, NEW p \in Procs, Persist(p)
    PROVE  ConfigIInv' /\ ConfigStep
<1>1. /\ UNCHANGED <<cache, saves>> /\ Running(p)
      /\ At(p, "persist") \/ At(p, "persist new key")
      /\ proc[p].alone => /\ InFile(proc[p].edit) /\ file # Malformed
                          /\ proc[p].held = Merged(IF Readable(file) THEN file ELSE Defaults)
                          /\ At(p, "persist") => Readable(file) /\ proc[p].held = Merged(file)
  BY Reading, Texts DEF Persist, Knows, At, Running
<1>2. PICK held : held = proc[p].held
  OBVIOUS
<1>3. CASE file' = held /\ Disturb(p, "cache", held)
  <2>1. Pushed(p, "cache", held)
    BY <1>2, <1>3, Disturbing, Reading DEF Places
  <2>2. ASSUME proc[p].alone PROVE Knows(p)'
    <3>1. PICK read \in Configs : /\ read = IF Readable(file) THEN file ELSE Defaults
                                  /\ Readable(read)
      BY Reading, Texts
    <3>2. held = Merged(read) /\ (proc[p].edit.field = "none" \/ Edited(read, proc[p].edit) = read)
      BY <1>1, <1>2, <2>2, <3>1 DEF InFile
    <3>3. Readable(held) /\ Merged(held) = held /\ (proc[p].edit.field = "none" \/ Edited(held, proc[p].edit) = held)
      BY <3>1, <3>2, Reading, Merging, Editing
    <3>4. QED BY <1>3, <2>1, <3>3 DEF Knows, At, InFile, Pushed
  <2>3. MalformedKept
    BY <1>1 DEF MalformedKept, At
  <2>4. Loud(p)
    BY <1>1, <1>2, <1>3, <2>1, <2>2, <2>3, Reading DEF Loud, Pushed, Kept
  <2>5. QED BY <2>4, LoudStep
<1>4. CASE UNCHANGED file /\ At(p, "persist") /\ GoTo(p, "cache", held)
  <2>1. Went(p, "cache", held)
    BY <1>2, <1>4, Going, Reading DEF Places
  <2>2. proc[p].alone => Knows(p)'
    BY <1>1, <1>2, <1>4, <2>1 DEF Knows, At, InFile, Went
  <2>3. Quiet(p)
    BY <1>1, <1>4, <2>1, <2>2 DEF Quiet, Went
  <2>4. QED BY <2>3, QuietStep
<1>5. CASE UNCHANGED file /\ Fail(p)
  BY <1>1, <1>5, FailStep
<1>6. QED BY <1>2, <1>3, <1>4, <1>5 DEF Persist

LEMMA CacheStep ==
    ASSUME ConfigIInv, NEW p \in Procs, Cache(p)
    PROVE  ConfigIInv' /\ ConfigStep
<1>1. /\ UNCHANGED <<file, saves>> /\ Running(p) /\ cache' = proc[p].held
      /\ proc[p].alone => InFile(proc[p].edit) /\ Readable(file) /\ proc[p].held = Merged(file)
  BY Reading DEF Cache, Knows, At, Running
<1>2. Pushed(p, "saved", Defaults)
  BY Disturbing, Texts DEF Cache, Places
<1>3. proc[p].alone => Edited(cache', proc[p].edit) = cache'
  <2>1. ASSUME proc[p].alone, proc[p].edit.field # "none" PROVE Edited(cache', proc[p].edit) = cache'
    <3>1. Edited(file, proc[p].edit) = file
      BY <1>1, <2>1 DEF InFile
    <3>2. Edited(Merged(file), proc[p].edit) = Merged(file)
      BY <3>1, Reading, Editing
    <3>3. QED BY <1>1, <2>1, <3>2
  <2>2. QED BY <2>1 DEF Edited
<1>4. Kept(p) /\ MalformedKept
  BY <1>1, <1>2, <1>3 DEF Kept, MalformedKept, Pushed
<1>5. Loud(p)
  BY <1>1, <1>2, <1>4, Reading DEF Loud, Pushed, Running
<1>6. QED BY <1>5, LoudStep

LEMMA SaveStep ==
    ASSUME ConfigIInv, NEW content \in Saves, Save(content)
    PROVE  ConfigIInv' /\ ConfigStep
<1>1. /\ file' \in Configs /\ (Readable(file') \/ file' \in {Empty, Malformed})
      /\ UNCHANGED cache /\ saves' = saves + 1 /\ saves \in Nat /\ cache \in Configs
  BY ConfigStoreAssumption DEF Save, ConfigIInv, ConfigTypeOK
<1>2. \A q \in Procs : proc[q] \in CallType
  BY DEF ConfigIInv, ConfigTypeOK
<1>3. ASSUME NEW q \in Procs
      PROVE  /\ [proc[q] EXCEPT !.alone = @ /\ ~Running(q)] \in CallType
             /\ [proc[q] EXCEPT !.alone = @ /\ ~Running(q)].at = proc[q].at
             /\ Running(q) => ~[proc[q] EXCEPT !.alone = @ /\ ~Running(q)].alone
  BY <1>2 DEF CallType, Running
<1>4. proc' = [q \in Procs |-> [proc[q] EXCEPT !.alone = @ /\ ~Running(q)]]
  BY DEF Save
<1>5. proc' \in [Procs -> CallType]
  BY <1>3, <1>4
<1>6. \A q \in Procs : proc'[q].at = proc[q].at /\ (Running(q) => ~proc'[q].alone)
  BY <1>3, <1>4
<1>7. ConfigIInv'
  BY <1>1, <1>5, <1>6 DEF ConfigIInv, ConfigTypeOK, CallsKnow, Running
<1>8. ConfigStep
  <2>1. MalformedKept
    <3>1. saves' # saves
      BY <1>1
    <3>2. QED BY <3>1 DEF MalformedKept
  <2>2. \A p \in Procs : Kept(p)
    BY <1>6 DEF Kept, Running
  <2>3. QED BY <2>1, <2>2 DEF ConfigStep
<1>9. QED BY <1>7, <1>8

LEMMA ConfigStays ==
    ASSUME ConfigIInv, UNCHANGED configVars
    PROVE  ConfigIInv' /\ ConfigStep
<1>1. UNCHANGED <<file, cache, proc, saves>>
  BY DEF configVars
<1>2. ConfigTypeOK'
  BY <1>1 DEF ConfigIInv, ConfigTypeOK
<1>3. CallsKnow'
  BY <1>1, StillKnows DEF ConfigIInv, CallsKnow
<1>4. ConfigStep
  BY <1>1 DEF ConfigStep, MalformedKept, Kept, Running
<1>5. QED BY <1>2, <1>3, <1>4 DEF ConfigIInv

\* Every step of the proxy keeps what the calls know, and breaks no acknowledged change.
LEMMA ConfigNext ==
    ASSUME ConfigIInv, [Next]_vars
    PROVE  ConfigIInv' /\ ConfigStep
<1>1. ASSUME NEW p \in Procs, ProcStep(p) PROVE ConfigIInv' /\ ConfigStep
  BY <1>1, ReadForEditStep, WriteEditStep, LoadStep, EnsureKeyStep, PersistStep, CacheStep DEF ProcStep
<1>2. CASE UNCHANGED configVars
  BY <1>2, ConfigStays
<1>3. CASE UNCHANGED vars
  BY <1>3, <1>2 DEF vars
<1>4. ASSUME NEW r \in Requests, RequestStep(r) PROVE UNCHANGED configVars
  BY <1>4 DEF RequestStep, Map, Controls, Admit, Search, Alias, Premium, Model, Transport, Ask, Route, Resolve,
              Capable, Recheck, Send, HangUp, NoneMoves, Pass, PassIf
<1>5. ASSUME NEW r \in Requests, NEW kind \in Kinds, Arrive(r, kind) PROVE UNCHANGED configVars
  BY <1>5 DEF Arrive, NoneMoves
<1>6. ASSUME NEW r \in Requests, NEW yes \in BOOLEAN, Answered(r, yes) PROVE UNCHANGED configVars
  BY <1>6 DEF Answered, NoneMoves
<1>7. QED BY <1>1, <1>2, <1>3, <1>4, <1>5, <1>6, BeginStep, SaveStep DEF Next

LEMMA ConfigInit ==
    ASSUME Init
    PROVE  ConfigIInv
<1>1. PICK start \in Starts : InitConfig(start.config)
  BY DEF Init
<1>2. start.config \in Configs /\ Readable(start.config)
  BY GatewayAssumption
<1>3. Idle \in CallType /\ Idle.at = "idle"
  BY Texts DEF Idle, CallType, Places, EditTypes
<1>4. QED BY <1>1, <1>2, <1>3 DEF InitConfig, ConfigIInv, ConfigTypeOK, CallsKnow, Running

\* An acknowledged change of the admin API that met no other one is in the file and in memory, and a file the operator
\* has broken is replaced by no procedure that had not read it before.  set_model_mappings, set_provider_config,
\* reload_config (libs/config.rs).
THEOREM ConfigKeptAlways == Spec => ConfigKept
<1>1. ASSUME ConfigIInv, [Next]_vars
      PROVE  ConfigIInv' /\ [MalformedKept /\ \A p \in Procs : Kept(p)]_configVars
  BY <1>1, ConfigNext DEF ConfigStep
<1>2. QED BY <1>1, ConfigInit, PTL DEF Spec, ConfigKept

-----------------------------------------------------------------------------
(***************************************************************************)
(* The requests.                                                           *)
(***************************************************************************)

\* What the gate a request stands at tells of it.
LEMMA AtGate ==
    ASSUME RequestsIInv, NEW r \in Requests, Open(r)
    PROVE  /\ req[r] \in RequestType /\ req[r].kind \in Kinds /\ Way(req[r], manual) /\ req[r].status = "open"
           /\ Ordered(req[r].todo) /\ req[r].todo \in Seq(AllGates) /\ req[r].todo # <<>>
           /\ manual \in BOOLEAN
<1>1. req[r] \in RequestType /\ Way(req[r], manual) /\ req[r].status = "open" /\ manual \in BOOLEAN
  BY DEF RequestsIInv, Open
<1>2. req[r].kind \in Kinds /\ Ordered(req[r].todo) /\ "send" \in Left(req[r].todo)
  BY <1>1 DEF Way, OnItsWay, Course
<1>3. req[r].todo \in Seq(AllGates)
  BY <1>1 DEF RequestType
<1>4. req[r].todo # <<>>
  BY <1>2 DEF Left
<1>5. QED BY <1>1, <1>2, <1>3, <1>4

\* The record a request becomes, when the others and the readers stay.
LEMMA Becoming ==
    ASSUME RequestsIInv, NEW r \in Requests, NEW new \in RequestType, req' = [req EXCEPT ![r] = new], UNCHANGED manual,
           Way(new, manual), readers' \in SUBSET Requests, readers' \subseteq readers \cup {r},
           r \in readers' => new.status # "new" /\ (new.status = "open" => Head(new.todo) = "approve")
    PROVE  RequestsIInv'
<1>1. req' \in [Requests -> RequestType] /\ req'[r] = new /\ \A q \in Requests \ {r} : req'[q] = req[q]
  BY DEF RequestsIInv
<1>2. \A q \in Requests : Way(req[q], manual)
  BY DEF RequestsIInv
<1>3. ASSUME NEW q \in Requests PROVE Way(req[q], manual)'
  <2>1. CASE q = r
    <3>1. Way(new, manual)' <=> Way(new, manual)
      BY DEF Way, ApprovedOrAhead
    <3>2. QED BY <1>1, <2>1, <3>1
  <2>2. CASE q # r
    BY <1>1, <1>2, <2>2
  <2>3. QED BY <2>1, <2>2
<1>4. ReadersWait'
  BY <1>1 DEF RequestsIInv, ReadersWait, Open
<1>5. QED BY <1>1, <1>3, <1>4 DEF RequestsIInv

\* What passing a gate leaves ahead.
Ahead(q, new) ==
    /\ Left(q.todo) = {Head(q.todo)} \cup Left(new.todo)
    /\ \A gate \in Left(new.todo) : gate \in AllGates /\ Rank(Head(q.todo)) < Rank(gate)
    /\ Head(q.todo) \in AllGates /\ Head(q.todo) \notin Left(new.todo)

\* A request that passed its gate, with what the gate is for done.
Passes(q, new, asked) ==
    /\ new.kind = q.kind /\ new.status = "open" /\ new.todo = Tail(q.todo) /\ Head(q.todo) # "send"
    /\ new.admitted = IF Head(q.todo) = "admit" THEN q.admitted + 1 ELSE q.admitted
    /\ IF Head(q.todo) = "resolve" THEN new.with # "none" ELSE new.with = q.with
    /\ new.paid = (q.paid \/ Head(q.todo) = "premium")
    /\ Head(q.todo) = "approve" => new.approved \/ ~asked
    /\ Head(q.todo) # "approve" => new.approved = q.approved
    /\ new.searched = q.searched

LEMMA LookingAhead ==
    ASSUME NEW q \in RequestType, NEW new, Ordered(q.todo), q.todo # <<>>, new.todo = Tail(q.todo)
    PROVE  Ahead(q, new) /\ Ordered(new.todo)
<1>1. q.todo \in Seq(AllGates)
  BY DEF RequestType
<1>2. /\ Left(q.todo) = {Head(q.todo)} \cup Left(new.todo) /\ Ordered(new.todo)
      /\ \A gate \in Left(new.todo) : gate \in AllGates /\ Rank(Head(q.todo)) < Rank(gate)
      /\ Head(q.todo) \in AllGates
  BY <1>1, Passing
<1>3. QED BY <1>2, RankType DEF Ahead

LEMMA Onward ==
    ASSUME NEW asked \in BOOLEAN, NEW q \in RequestType, NEW new \in RequestType, q.status = "open", Way(q, asked),
           q.todo # <<>>, Passes(q, new, asked), Checked(new)
    PROVE  Way(new, asked)
<1>1. /\ Course(q) /\ AdmittedOnce(q) /\ PaidOrAhead(q) /\ ApprovedOrAhead(q, asked) /\ Resolved(q)
      /\ MessagesCourse(q) /\ Checked(q)
  BY DEF Way, OnItsWay
<1>2. q.todo \in Seq(AllGates) /\ Ordered(q.todo)
  BY <1>1 DEF RequestType, Course
<1>3. Ahead(q, new) /\ Ordered(new.todo)
  BY <1>2, LookingAhead DEF Passes
<1>4. Course(new)
  BY <1>1, <1>3 DEF Course, Passes, Ahead
<1>5. AdmittedOnce(new)
  <2>1. q.admitted \in Nat
    BY DEF RequestType
  <2>2. QED BY <1>1, <1>3, <2>1 DEF AdmittedOnce, Passes, Ahead
<1>6. PaidOrAhead(new)
  BY <1>1, <1>3 DEF PaidOrAhead, ToProvider, Passes, Ahead
<1>7. ApprovedOrAhead(new, asked)
  BY <1>1, <1>3 DEF ApprovedOrAhead, ToProvider, Passes, Ahead
<1>8. Resolved(new)
  BY <1>1, <1>3 DEF Resolved, Passes, Ahead
<1>9. MessagesCourse(new)
  BY <1>1, <1>3 DEF MessagesCourse, Passes, Ahead, Rank, AllGates
<1>10. QED BY <1>4, <1>5, <1>6, <1>7, <1>8, <1>9 DEF Way

\* A request that passes its gate and is only marked, its checks and its way to the wire as they were.
LEMMA Marking ==
    ASSUME NEW asked \in BOOLEAN, NEW q \in RequestType, NEW new \in RequestType, q.status = "open", Way(q, asked),
           q.todo # <<>>, Passes(q, new, asked),
           Head(q.todo) \notin {"map", "controls", "search", "alias", "transport", "route", "resolve"},
           Head(q.todo) = "recheck" => ~(q.kind.controls /\ q.wire = "responses"),
           new.model = q.model, new.checked = q.checked, new.moved = q.moved, new.wire = q.wire
    PROVE  Way(new, asked)
<1>1. Checked(q) /\ Ordered(q.todo) /\ q.todo \in Seq(AllGates)
  BY DEF Way, OnItsWay, Course, RequestType
<1>2. Ahead(q, new)
  BY <1>1, LookingAhead DEF Passes
<1>3. \A config : WouldUseResponses(new, config) = WouldUseResponses(q, config)
  BY DEF WouldUseResponses, Passes
<1>4. Checked(new)
  BY <1>1, <1>2, <1>3 DEF Checked, Passes, Ahead, Rank, AllGates
<1>5. QED BY <1>4, Onward

LEMMA Ending ==
    ASSUME NEW status \in {"refused", "failed", "gone"}
    PROVE  Ended(status) \in RequestType /\ Ended(status).status = status
<1>1. Nowhere.todo \in Seq(AllGates)
  BY DEF Nowhere
<1>2. Nowhere \in RequestType
  BY <1>1, Texts DEF Nowhere, RequestType, Statuses, Wires, Providers, NoKind
<1>3. QED BY <1>2 DEF Ended, RequestType, Statuses

LEMMA EndStep ==
    ASSUME RequestsIInv, NEW r \in Requests, NEW status \in {"refused", "failed", "gone"}, Become(r, Ended(status)),
           UNCHANGED manual, readers' \in SUBSET Requests, readers' \subseteq readers
    PROVE  RequestsIInv'
<1>1. PICK new : new = Ended(status)
  OBVIOUS
<1>2. new \in RequestType /\ new.status \notin {"new", "open", "sent"}
  BY <1>1, Ending
<1>3. Way(new, manual)
  BY <1>2 DEF Way, OnItsWay
<1>4. QED BY <1>1, <1>2, <1>3, Becoming DEF Become

\* Only the operator's answer, not a gate, ends the wait of a reader.
LEMMA NoReader ==
    ASSUME RequestsIInv, NEW r \in Requests, Open(r), Head(req[r].todo) # "approve"
    PROVE  r \notin readers
  BY DEF RequestsIInv, ReadersWait, Open

\* A record of a request with some of its fields changed.
Fields == {"kind", "todo", "status", "model", "admitted", "paid", "approved", "checked",
           "moved", "with", "wire", "searched"}
Keeps(new, q, changed) == \A field \in Fields \ changed : new[field] = q[field]

LEMMA ModelStep ==
    ASSUME RequestsIInv, NEW r \in Requests, Model(r)
    PROVE  RequestsIInv'
<1>1. Open(r) /\ Head(req[r].todo) = "model" /\ UNCHANGED <<readers, manual>>
  BY DEF Model, Gate, PassIf, NoneMoves
<1>2. PICK q \in RequestType : q = req[r]
  BY <1>1, AtGate
<1>3. /\ q.status = "open" /\ Way(q, manual) /\ Head(q.todo) = "model" /\ manual \in BOOLEAN /\ q.kind \in Kinds
      /\ q.todo # <<>> /\ q.todo \in Seq(AllGates) /\ q.paid \in BOOLEAN
  BY <1>1, <1>2, AtGate DEF RequestType
<1>4. PICK new : new = [q EXCEPT !.todo = Tail(@)]
  OBVIOUS
<1>5. new \in RequestType /\ Keeps(new, q, {"todo"}) /\ new.todo = Tail(q.todo)
  <2>1. new = [kind |-> q.kind, todo |-> Tail(q.todo), status |-> q.status, model |-> q.model,
               admitted |-> q.admitted, paid |-> q.paid, approved |-> q.approved, checked |-> q.checked,
               moved |-> q.moved, with |-> q.with, wire |-> q.wire, searched |-> q.searched]
    BY <1>4 DEF RequestType
  <2>2. Tail(q.todo) \in Seq(AllGates)
    BY <1>3
  <2>3. QED BY <2>1, <2>2 DEF RequestType, Keeps, Fields
<1>6. /\ Passes(q, new, manual) /\ new.status = "open"
      /\ new.model = q.model /\ new.checked = q.checked /\ new.moved = q.moved /\ new.wire = q.wire
  BY <1>3, <1>5 DEF Passes, Keeps, Fields
<1>7. CASE Become(r, new)
  <2>1. Way(new, manual)
    BY <1>3, <1>5, <1>6, Marking
  <2>2. QED BY <1>1, <1>5, <1>6, <1>7, <2>1, NoReader, Becoming DEF Become, RequestsIInv
<1>8. CASE Become(r, Ended("refused"))
  BY <1>1, <1>8, EndStep DEF RequestsIInv
<1>9. QED BY <1>2, <1>4, <1>7, <1>8 DEF Model, Passed, PassIf

LEMMA CapableStep ==
    ASSUME RequestsIInv, NEW r \in Requests, Capable(r)
    PROVE  RequestsIInv'
<1>1. Open(r) /\ Head(req[r].todo) = "supports" /\ UNCHANGED <<readers, manual>>
  BY DEF Capable, Gate, PassIf, NoneMoves
<1>2. PICK q \in RequestType : q = req[r]
  BY <1>1, AtGate
<1>3. /\ q.status = "open" /\ Way(q, manual) /\ Head(q.todo) = "supports" /\ manual \in BOOLEAN /\ q.kind \in Kinds
      /\ q.todo # <<>> /\ q.todo \in Seq(AllGates) /\ q.paid \in BOOLEAN
  BY <1>1, <1>2, AtGate DEF RequestType
<1>4. PICK new : new = [q EXCEPT !.todo = Tail(@)]
  OBVIOUS
<1>5. new \in RequestType /\ Keeps(new, q, {"todo"}) /\ new.todo = Tail(q.todo)
  <2>1. new = [kind |-> q.kind, todo |-> Tail(q.todo), status |-> q.status, model |-> q.model,
               admitted |-> q.admitted, paid |-> q.paid, approved |-> q.approved, checked |-> q.checked,
               moved |-> q.moved, with |-> q.with, wire |-> q.wire, searched |-> q.searched]
    BY <1>4 DEF RequestType
  <2>2. Tail(q.todo) \in Seq(AllGates)
    BY <1>3
  <2>3. QED BY <2>1, <2>2 DEF RequestType, Keeps, Fields
<1>6. /\ Passes(q, new, manual) /\ new.status = "open"
      /\ new.model = q.model /\ new.checked = q.checked /\ new.moved = q.moved /\ new.wire = q.wire
  BY <1>3, <1>5 DEF Passes, Keeps, Fields
<1>7. CASE Become(r, new)
  <2>1. Way(new, manual)
    BY <1>3, <1>5, <1>6, Marking
  <2>2. QED BY <1>1, <1>5, <1>6, <1>7, <2>1, NoReader, Becoming DEF Become, RequestsIInv
<1>8. CASE Become(r, Ended("refused"))
  BY <1>1, <1>8, EndStep DEF RequestsIInv
<1>9. QED BY <1>2, <1>4, <1>7, <1>8 DEF Capable, Passed, PassIf

LEMMA PremiumStep ==
    ASSUME RequestsIInv, NEW r \in Requests, Premium(r)
    PROVE  RequestsIInv'
<1>1. Open(r) /\ Head(req[r].todo) = "premium" /\ UNCHANGED <<readers, manual>>
  BY DEF Premium, Gate, NoneMoves
<1>2. PICK q \in RequestType : q = req[r]
  BY <1>1, AtGate
<1>3. /\ q.status = "open" /\ Way(q, manual) /\ Head(q.todo) = "premium" /\ manual \in BOOLEAN /\ q.kind \in Kinds
      /\ q.todo # <<>> /\ q.todo \in Seq(AllGates) /\ q.paid \in BOOLEAN
  BY <1>1, <1>2, AtGate DEF RequestType
<1>4. PICK new : new = [[q EXCEPT !.todo = Tail(@)] EXCEPT !.paid = TRUE]
  OBVIOUS
<1>5. new \in RequestType /\ Keeps(new, q, {"todo", "paid"}) /\ new.todo = Tail(q.todo) /\ new.paid = TRUE
  <2>1. new = [kind |-> q.kind, todo |-> Tail(q.todo), status |-> q.status, model |-> q.model,
               admitted |-> q.admitted, paid |-> TRUE, approved |-> q.approved, checked |-> q.checked,
               moved |-> q.moved, with |-> q.with, wire |-> q.wire, searched |-> q.searched]
    BY <1>4 DEF RequestType
  <2>2. Tail(q.todo) \in Seq(AllGates)
    BY <1>3
  <2>3. QED BY <2>1, <2>2 DEF RequestType, Keeps, Fields
<1>6. /\ Passes(q, new, manual) /\ new.status = "open"
      /\ new.model = q.model /\ new.checked = q.checked /\ new.moved = q.moved /\ new.wire = q.wire
  BY <1>3, <1>5 DEF Passes, Keeps, Fields
<1>7. CASE Become(r, new)
  <2>1. Way(new, manual)
    BY <1>3, <1>5, <1>6, Marking
  <2>2. QED BY <1>1, <1>5, <1>6, <1>7, <2>1, NoReader, Becoming DEF Become, RequestsIInv
<1>8. CASE Become(r, Ended("refused"))
  BY <1>1, <1>8, EndStep DEF RequestsIInv
<1>9. QED BY <1>2, <1>4, <1>7, <1>8 DEF Premium, Passed

LEMMA AdmitStep ==
    ASSUME RequestsIInv, NEW r \in Requests, Admit(r)
    PROVE  RequestsIInv'
<1>1. Open(r) /\ Head(req[r].todo) = "admit" /\ UNCHANGED <<readers, manual>>
  BY DEF Admit, Gate, NoneMoves
<1>2. PICK q \in RequestType : q = req[r]
  BY <1>1, AtGate
<1>3. /\ q.status = "open" /\ Way(q, manual) /\ Head(q.todo) = "admit" /\ manual \in BOOLEAN /\ q.kind \in Kinds
      /\ q.todo # <<>> /\ q.todo \in Seq(AllGates) /\ q.paid \in BOOLEAN
  BY <1>1, <1>2, AtGate DEF RequestType
<1>4. PICK new : new = [[q EXCEPT !.todo = Tail(@)] EXCEPT !.admitted = @ + 1]
  OBVIOUS
<1>5. new \in RequestType /\ Keeps(new, q, {"todo", "admitted"}) /\ new.todo = Tail(q.todo) /\ new.admitted = q.admitted + 1
  <2>1. new = [kind |-> q.kind, todo |-> Tail(q.todo), status |-> q.status, model |-> q.model,
               admitted |-> q.admitted + 1, paid |-> q.paid, approved |-> q.approved, checked |-> q.checked,
               moved |-> q.moved, with |-> q.with, wire |-> q.wire, searched |-> q.searched]
    BY <1>4 DEF RequestType
  <2>2. Tail(q.todo) \in Seq(AllGates)
    BY <1>3
  <2>3. QED BY <2>1, <2>2 DEF RequestType, Keeps, Fields
<1>6. /\ Passes(q, new, manual) /\ new.status = "open"
      /\ new.model = q.model /\ new.checked = q.checked /\ new.moved = q.moved /\ new.wire = q.wire
  BY <1>3, <1>5 DEF Passes, Keeps, Fields
<1>7. CASE Become(r, new)
  <2>1. Way(new, manual)
    BY <1>3, <1>5, <1>6, Marking
  <2>2. QED BY <1>1, <1>5, <1>6, <1>7, <2>1, NoReader, Becoming DEF Become, RequestsIInv
<1>8. CASE Become(r, Ended("refused"))
  BY <1>1, <1>8, EndStep DEF RequestsIInv
<1>9. QED BY <1>2, <1>4, <1>7, <1>8 DEF Admit, Passed

LEMMA RecheckStep ==
    ASSUME RequestsIInv, NEW r \in Requests, Recheck(r)
    PROVE  RequestsIInv'
<1>1. Open(r) /\ Head(req[r].todo) = "recheck" /\ UNCHANGED <<readers, manual>>
  BY DEF Recheck, Gate, PassIf, NoneMoves
<1>2. PICK q \in RequestType : q = req[r]
  BY <1>1, AtGate
<1>3. /\ q.status = "open" /\ Way(q, manual) /\ Head(q.todo) = "recheck" /\ manual \in BOOLEAN /\ q.kind \in Kinds
      /\ q.todo # <<>> /\ q.todo \in Seq(AllGates) /\ q.paid \in BOOLEAN
  BY <1>1, <1>2, AtGate DEF RequestType
<1>4. PICK new : new = [q EXCEPT !.todo = Tail(@)]
  OBVIOUS
<1>5. new \in RequestType /\ Keeps(new, q, {"todo"}) /\ new.todo = Tail(q.todo)
  <2>1. new = [kind |-> q.kind, todo |-> Tail(q.todo), status |-> q.status, model |-> q.model,
               admitted |-> q.admitted, paid |-> q.paid, approved |-> q.approved, checked |-> q.checked,
               moved |-> q.moved, with |-> q.with, wire |-> q.wire, searched |-> q.searched]
    BY <1>4 DEF RequestType
  <2>2. Tail(q.todo) \in Seq(AllGates)
    BY <1>3
  <2>3. QED BY <2>1, <2>2 DEF RequestType, Keeps, Fields
<1>6. /\ Passes(q, new, manual) /\ new.status = "open"
      /\ new.model = q.model /\ new.checked = q.checked /\ new.moved = q.moved /\ new.wire = q.wire
  BY <1>3, <1>5 DEF Passes, Keeps, Fields
<1>7. CASE Become(r, new) /\ ~(q.kind.controls /\ q.wire = "responses")
  <2>1. Way(new, manual)
    BY <1>2, <1>3, <1>5, <1>6, <1>7, Marking
  <2>2. QED BY <1>1, <1>5, <1>6, <1>7, <2>1, NoReader, Becoming DEF Become, RequestsIInv
<1>8. CASE Become(r, Ended("refused"))
  BY <1>1, <1>8, EndStep DEF RequestsIInv
<1>9. QED BY <1>2, <1>4, <1>7, <1>8 DEF Recheck, Passed, PassIf

LEMMA AskStep ==
    ASSUME RequestsIInv, NEW r \in Requests, Ask(r)
    PROVE  RequestsIInv'
<1>1. Open(r) /\ Head(req[r].todo) = "approve" /\ UNCHANGED manual
  BY DEF Ask, Gate, NoneMoves
<1>2. CASE manual /\ readers' = readers \cup {r} /\ UNCHANGED req
  <2>1. readers' \subseteq Requests /\ req' \in [Requests -> RequestType] /\ manual' \in BOOLEAN
    BY <1>1, <1>2 DEF RequestsIInv
  <2>2. ReadersWait'
    BY <1>1, <1>2 DEF RequestsIInv, ReadersWait, Open
  <2>3. \A q \in Requests : Way(req[q], manual)'
    BY <1>1, <1>2 DEF RequestsIInv, Way, ApprovedOrAhead
  <2>4. QED BY <2>1, <2>2, <2>3 DEF RequestsIInv
<1>3. CASE ~manual /\ Become(r, Passed(r)) /\ UNCHANGED readers
  <2>1. PICK q \in RequestType : q = req[r]
    BY <1>1, AtGate
  <2>2. /\ q.status = "open" /\ Way(q, manual) /\ Head(q.todo) = "approve" /\ manual \in BOOLEAN /\ q.kind \in Kinds
        /\ q.todo # <<>> /\ q.todo \in Seq(AllGates) /\ q.paid \in BOOLEAN
    BY <1>1, <2>1, AtGate DEF RequestType
  <2>3. PICK new : new = [q EXCEPT !.todo = Tail(@)]
    OBVIOUS
  <2>4. new \in RequestType /\ Keeps(new, q, {"todo"}) /\ new.todo = Tail(q.todo)
    <3>1. new = [kind |-> q.kind, todo |-> Tail(q.todo), status |-> q.status, model |-> q.model,
                 admitted |-> q.admitted, paid |-> q.paid, approved |-> q.approved, checked |-> q.checked,
                 moved |-> q.moved, with |-> q.with, wire |-> q.wire, searched |-> q.searched]
      BY <2>3 DEF RequestType
    <3>2. Tail(q.todo) \in Seq(AllGates)
      BY <2>2
    <3>3. QED BY <3>1, <3>2 DEF RequestType, Keeps, Fields
  <2>5. /\ Passes(q, new, manual) /\ new.status = "open"
        /\ new.model = q.model /\ new.checked = q.checked /\ new.moved = q.moved /\ new.wire = q.wire
    BY <1>3, <2>2, <2>4 DEF Passes, Keeps, Fields
  <2>6. Way(new, manual)
    BY <2>2, <2>4, <2>5, Marking
  <2>7. req' = [req EXCEPT ![r] = new] /\ r \notin readers
    BY <1>3, <2>1, <2>3 DEF Become, Passed, Ask
  <2>8. QED BY <1>1, <1>3, <2>4, <2>6, <2>7, Becoming DEF RequestsIInv
<1>4. QED BY <1>2, <1>3 DEF Ask

LEMMA AnsweredStep ==
    ASSUME RequestsIInv, NEW r \in Requests, NEW yes \in BOOLEAN, Answered(r, yes)
    PROVE  RequestsIInv'
<1>1. UNCHANGED manual /\ readers' = readers \ {r} /\ readers' \in SUBSET Requests /\ r \in readers
  BY DEF Answered, NoneMoves, RequestsIInv
<1>2. CASE ~Open(r)
  <2>1. req' = req
    BY <1>2 DEF Answered, Become, RequestsIInv
  <2>2. ReadersWait'
    BY <1>1, <2>1 DEF RequestsIInv, ReadersWait, Open
  <2>3. \A q \in Requests : Way(req[q], manual)'
    BY <1>1, <2>1 DEF RequestsIInv, Way, ApprovedOrAhead
  <2>4. QED BY <1>1, <2>1, <2>2, <2>3 DEF RequestsIInv
<1>3. CASE Open(r) /\ yes
  <2>1. PICK q \in RequestType : q = req[r]
    BY <1>3, AtGate
  <2>2. /\ q.status = "open" /\ Way(q, manual) /\ Head(q.todo) = "approve" /\ manual \in BOOLEAN /\ q.kind \in Kinds
        /\ q.todo # <<>> /\ q.todo \in Seq(AllGates) /\ q.paid \in BOOLEAN
    <3>1. Head(req[r].todo) = "approve"
      BY <1>1, <1>3 DEF RequestsIInv, ReadersWait
    <3>2. QED BY <1>3, <2>1, <3>1, AtGate DEF RequestType
  <2>3. PICK new : new = [[q EXCEPT !.todo = Tail(@)] EXCEPT !.approved = TRUE]
    OBVIOUS
  <2>4. new \in RequestType /\ Keeps(new, q, {"todo", "approved"}) /\ new.todo = Tail(q.todo) /\ new.approved = TRUE
    <3>1. new = [kind |-> q.kind, todo |-> Tail(q.todo), status |-> q.status, model |-> q.model,
                 admitted |-> q.admitted, paid |-> q.paid, approved |-> TRUE, checked |-> q.checked,
                 moved |-> q.moved, with |-> q.with, wire |-> q.wire, searched |-> q.searched]
      BY <2>3 DEF RequestType
    <3>2. Tail(q.todo) \in Seq(AllGates)
      BY <2>2
    <3>3. QED BY <3>1, <3>2 DEF RequestType, Keeps, Fields
  <2>5. /\ Passes(q, new, manual) /\ new.status = "open"
        /\ new.model = q.model /\ new.checked = q.checked /\ new.moved = q.moved /\ new.wire = q.wire
    BY <2>2, <2>4 DEF Passes, Keeps, Fields
  <2>6. Way(new, manual)
    BY <2>2, <2>4, <2>5, Marking
  <2>7. req' = [req EXCEPT ![r] = new]
    BY <1>3, <2>1, <2>3 DEF Become, Passed, Answered
  <2>8. QED BY <1>1, <2>4, <2>6, <2>7, Becoming
<1>4. CASE Open(r) /\ ~yes
  <2>1. Become(r, Ended("refused"))
    BY <1>4 DEF Answered
  <2>2. QED BY <1>1, <2>1, EndStep
<1>5. QED BY <1>2, <1>3, <1>4

LEMMA HangUpStep ==
    ASSUME RequestsIInv, NEW r \in Requests, HangUp(r)
    PROVE  RequestsIInv'
<1>1. Become(r, Ended("gone")) /\ UNCHANGED <<readers, manual>>
  BY DEF HangUp, NoneMoves
<1>2. QED BY <1>1, EndStep DEF RequestsIInv

LEMMA MapStep ==
    ASSUME RequestsIInv, cache \in Configs, NEW r \in Requests, Map(r)
    PROVE  RequestsIInv'
<1>1. Open(r) /\ Head(req[r].todo) = "map" /\ UNCHANGED <<readers, manual>>
  BY DEF Map, Gate, NoneMoves
<1>2. PICK q \in RequestType : q = req[r]
  BY <1>1, AtGate
<1>3. /\ q.status = "open" /\ Way(q, manual) /\ Head(q.todo) = "map" /\ manual \in BOOLEAN /\ q.kind \in Kinds
      /\ q.todo # <<>> /\ q.todo \in Seq(AllGates) /\ q.paid \in BOOLEAN /\ q.moved \in BOOLEAN
      /\ Checked(q) /\ MessagesCourse(q) /\ Resolved(q) /\ Ordered(q.todo)
  BY <1>1, <1>2, AtGate DEF RequestType, Way, OnItsWay, Course
<1>4. PICK new : new = [[q EXCEPT !.todo = Tail(@)] EXCEPT !.model = IF @ = "claude" THEN cache.mapping ELSE @]
  OBVIOUS
<1>5. ASSUME Become(r, new)
      PROVE  RequestsIInv'
  <2>1. /\ new \in RequestType /\ Keeps(new, q, {"todo", "model"}) /\ new.todo = Tail(q.todo)
        /\ new.model = IF q.model = "claude" THEN cache.mapping ELSE q.model
    <3>1. new = [kind |-> q.kind, todo |-> Tail(q.todo), status |-> q.status,
                 model |-> IF q.model = "claude" THEN cache.mapping ELSE q.model, admitted |-> q.admitted,
                 paid |-> q.paid, approved |-> q.approved, checked |-> q.checked, moved |-> q.moved,
                 with |-> q.with, wire |-> q.wire, searched |-> q.searched]
      BY <1>4 DEF RequestType
    <3>2. Tail(q.todo) \in Seq(AllGates)
      BY <1>3
    <3>3. (IF q.model = "claude" THEN cache.mapping ELSE q.model) \in STRING \cup {"none"}
      BY DEF RequestType, Configs
    <3>4. QED BY <3>1, <3>2, <3>3 DEF RequestType, Keeps, Fields
  <2>2. Passes(q, new, manual) /\ new.status = "open" /\ Ahead(q, new)
    <3>1. Passes(q, new, manual) /\ new.status = "open"
      BY <1>3, <1>5, <2>1 DEF Passes, Keeps, Fields
    <3>2. QED BY <1>3, <2>1, <3>1, LookingAhead
  <2>3. Checked(new)
    <3>1. new.kind = q.kind /\ new.with = q.with /\ new.wire = q.wire /\ new.moved = q.moved /\ new.checked = q.checked
      BY <2>1 DEF Keeps, Fields
    <3>2. QED BY <1>3, <2>2, <3>1 DEF Checked, MessagesCourse, Ahead, Rank, AllGates
  <2>4. Way(new, manual)
    BY <1>3, <2>1, <2>2, <2>3, Onward
  <2>5. QED BY <1>1, <1>5, <2>1, <2>4, NoReader, Becoming DEF Become, RequestsIInv
<1>6. QED BY <1>2, <1>4, <1>5 DEF Map, Passed

LEMMA ControlsStep ==
    ASSUME RequestsIInv, cache \in Configs, NEW r \in Requests, Controls(r)
    PROVE  RequestsIInv'
<1>1. Open(r) /\ Head(req[r].todo) = "controls" /\ UNCHANGED <<readers, manual>>
  BY DEF Controls, Gate, NoneMoves
<1>2. PICK q \in RequestType : q = req[r]
  BY <1>1, AtGate
<1>3. /\ q.status = "open" /\ Way(q, manual) /\ Head(q.todo) = "controls" /\ manual \in BOOLEAN /\ q.kind \in Kinds
      /\ q.todo # <<>> /\ q.todo \in Seq(AllGates) /\ q.paid \in BOOLEAN /\ q.moved \in BOOLEAN
      /\ Checked(q) /\ MessagesCourse(q) /\ Resolved(q) /\ Ordered(q.todo)
  BY <1>1, <1>2, AtGate DEF RequestType, Way, OnItsWay, Course
<1>4. PICK new : new = [[q EXCEPT !.todo = Tail(@)] EXCEPT !.checked = cache]
  OBVIOUS
<1>5. ASSUME ~(q.kind.controls /\ WouldUseResponses(q, cache)), Become(r, new)
      PROVE  RequestsIInv'
  <2>1. /\ new \in RequestType /\ Keeps(new, q, {"todo", "checked"}) /\ new.todo = Tail(q.todo)
        /\ new.checked = cache
    <3>1. new = [kind |-> q.kind, todo |-> Tail(q.todo), status |-> q.status, model |-> q.model,
                 admitted |-> q.admitted, paid |-> q.paid, approved |-> q.approved, checked |-> cache,
                 moved |-> q.moved, with |-> q.with, wire |-> q.wire, searched |-> q.searched]
      BY <1>4 DEF RequestType
    <3>2. Tail(q.todo) \in Seq(AllGates)
      BY <1>3
    <3>3. cache \in Configs
      OBVIOUS
    <3>4. QED BY <3>1, <3>2, <3>3 DEF RequestType, Keeps, Fields
  <2>2. Passes(q, new, manual) /\ new.status = "open" /\ Ahead(q, new)
    <3>1. Passes(q, new, manual) /\ new.status = "open"
      BY <1>3, <1>5, <2>1 DEF Passes, Keeps, Fields
    <3>2. QED BY <1>3, <2>1, <3>1, LookingAhead
  <2>3. Checked(new)
    <3>1. \A config : WouldUseResponses(new, config) = WouldUseResponses(q, config)
      BY <2>1 DEF WouldUseResponses, Keeps, Fields
    <3>2. new.kind = q.kind /\ new.with = q.with /\ new.wire = q.wire /\ new.model = q.model /\ new.moved = q.moved
      BY <2>1 DEF Keeps, Fields
    <3>3. QED BY <1>3, <1>5, <2>1, <2>2, <3>1, <3>2 DEF Checked, MessagesCourse, Ahead, Rank, AllGates
  <2>4. Way(new, manual)
    BY <1>3, <2>1, <2>2, <2>3, Onward
  <2>5. QED BY <1>1, <1>5, <2>1, <2>4, NoReader, Becoming DEF Become, RequestsIInv
<1>6. CASE Become(r, Ended("refused"))
  BY <1>1, <1>6, EndStep DEF RequestsIInv
<1>7. QED BY <1>2, <1>4, <1>5, <1>6 DEF Controls, Passed

LEMMA TransportStep ==
    ASSUME RequestsIInv, cache \in Configs, NEW r \in Requests, Transport(r)
    PROVE  RequestsIInv'
<1>1. Open(r) /\ Head(req[r].todo) = "transport" /\ UNCHANGED <<readers, manual>>
  BY DEF Transport, Gate, NoneMoves
<1>2. PICK q \in RequestType : q = req[r]
  BY <1>1, AtGate
<1>3. /\ q.status = "open" /\ Way(q, manual) /\ Head(q.todo) = "transport" /\ manual \in BOOLEAN /\ q.kind \in Kinds
      /\ q.todo # <<>> /\ q.todo \in Seq(AllGates) /\ q.paid \in BOOLEAN /\ q.moved \in BOOLEAN
      /\ Checked(q) /\ MessagesCourse(q) /\ Resolved(q) /\ Ordered(q.todo)
  BY <1>1, <1>2, AtGate DEF RequestType, Way, OnItsWay, Course
<1>4. PICK new : new = [[q EXCEPT !.todo = Tail(@)] EXCEPT !.wire = "responses"]
  OBVIOUS
<1>5. ASSUME Become(r, new)
      PROVE  RequestsIInv'
  <2>1. /\ new \in RequestType /\ Keeps(new, q, {"todo", "wire"}) /\ new.todo = Tail(q.todo)
        /\ new.wire = "responses"
    <3>1. new = [kind |-> q.kind, todo |-> Tail(q.todo), status |-> q.status, model |-> q.model,
                 admitted |-> q.admitted, paid |-> q.paid, approved |-> q.approved, checked |-> q.checked,
                 moved |-> q.moved, with |-> q.with, wire |-> "responses", searched |-> q.searched]
      BY <1>4 DEF RequestType
    <3>2. Tail(q.todo) \in Seq(AllGates)
      BY <1>3
    <3>3. "responses" \in Wires
      BY DEF Wires
    <3>4. QED BY <3>1, <3>2, <3>3 DEF RequestType, Keeps, Fields
  <2>2. Passes(q, new, manual) /\ new.status = "open" /\ Ahead(q, new)
    <3>1. Passes(q, new, manual) /\ new.status = "open"
      BY <1>3, <1>5, <2>1 DEF Passes, Keeps, Fields
    <3>2. QED BY <1>3, <2>1, <3>1, LookingAhead
  <2>3. Checked(new)
    <3>1. new.kind = q.kind
      BY <2>1 DEF Keeps, Fields
    <3>2. QED BY <1>3, <2>2, <3>1 DEF Checked, MessagesCourse, Ahead
  <2>4. Way(new, manual)
    BY <1>3, <2>1, <2>2, <2>3, Onward
  <2>5. QED BY <1>1, <1>5, <2>1, <2>4, NoReader, Becoming DEF Become, RequestsIInv
<1>6. CASE Become(r, Ended("refused"))
  BY <1>1, <1>6, EndStep DEF RequestsIInv
<1>7. QED BY <1>2, <1>4, <1>5, <1>6 DEF Transport, Passed

LEMMA RouteStep ==
    ASSUME RequestsIInv, cache \in Configs, NEW r \in Requests, Route(r)
    PROVE  RequestsIInv'
<1>1. Open(r) /\ Head(req[r].todo) = "route" /\ UNCHANGED <<readers, manual>>
  BY DEF Route, Gate, NoneMoves
<1>2. PICK q \in RequestType : q = req[r]
  BY <1>1, AtGate
<1>3. /\ q.status = "open" /\ Way(q, manual) /\ Head(q.todo) = "route" /\ manual \in BOOLEAN /\ q.kind \in Kinds
      /\ q.todo # <<>> /\ q.todo \in Seq(AllGates) /\ q.paid \in BOOLEAN /\ q.moved \in BOOLEAN
      /\ Checked(q) /\ MessagesCourse(q) /\ Resolved(q) /\ Ordered(q.todo)
  BY <1>1, <1>2, AtGate DEF RequestType, Way, OnItsWay, Course
<1>4. PICK new : new = [[q EXCEPT !.todo = Tail(@)] EXCEPT !.wire = Wire(q.model, cache), !.moved = @ \/ cache # q.checked,
                                                    !.checked = Defaults]
  OBVIOUS
<1>5. ASSUME Become(r, new)
      PROVE  RequestsIInv'
  <2>1. /\ new \in RequestType /\ Keeps(new, q, {"todo", "wire", "moved", "checked"}) /\ new.todo = Tail(q.todo)
        /\ new.wire = Wire(q.model, cache) /\ new.moved = (q.moved \/ cache # q.checked) /\ new.checked = Defaults
    <3>1. new = [kind |-> q.kind, todo |-> Tail(q.todo), status |-> q.status, model |-> q.model,
                 admitted |-> q.admitted, paid |-> q.paid, approved |-> q.approved, checked |-> Defaults,
                 moved |-> (q.moved \/ cache # q.checked), with |-> q.with, wire |-> Wire(q.model, cache),
                 searched |-> q.searched]
      BY <1>4 DEF RequestType
    <3>2. Tail(q.todo) \in Seq(AllGates)
      BY <1>3
    <3>3. Wire(q.model, cache) \in Wires /\ Defaults \in Configs
      BY Texts DEF Wire, Wires
    <3>4. QED BY <3>1, <3>2, <3>3 DEF RequestType, Keeps, Fields
  <2>2. Passes(q, new, manual) /\ new.status = "open" /\ Ahead(q, new)
    <3>1. Passes(q, new, manual) /\ new.status = "open"
      BY <1>3, <1>5, <2>1 DEF Passes, Keeps, Fields
    <3>2. QED BY <1>3, <2>1, <3>1, LookingAhead
  <2>3. Checked(new)
    <3>1. new.kind = q.kind /\ new.with = q.with
      BY <2>1 DEF Keeps, Fields
    <3>2. q.with = "none" /\ q.kind.endpoint = "messages" /\ {"search", "alias", "controls"} \cap Left(q.todo) = {}
      BY <1>3, <2>2 DEF Resolved, MessagesCourse, Ahead, Rank, AllGates
    <3>3. ASSUME q.kind.controls, ~new.moved PROVE new.wire # "responses"
      <4>1. cache = q.checked /\ ~q.moved
        BY <2>1, <3>3
      <4>2. /\ ~WouldUseResponses(q, cache) /\ q.model # "P"
            /\ q.kind.search => cache.search = "strip"
        BY <1>3, <2>2, <3>2, <3>3, <4>1 DEF Checked, Ahead
      <4>3. Wire(q.model, cache) # "responses"
        BY <3>2, <4>2 DEF WouldUseResponses
      <4>4. QED BY <2>1, <4>3
    <3>4. QED BY <1>3, <2>2, <3>1, <3>2, <3>3 DEF Checked, Ahead, Rank, AllGates
  <2>4. Way(new, manual)
    BY <1>3, <2>1, <2>2, <2>3, Onward
  <2>5. QED BY <1>1, <1>5, <2>1, <2>4, NoReader, Becoming DEF Become, RequestsIInv
<1>6. QED BY <1>2, <1>4, <1>5 DEF Route, Passed

LEMMA ResolveStep ==
    ASSUME RequestsIInv, cache \in Configs, NEW r \in Requests, Resolve(r)
    PROVE  RequestsIInv'
<1>1. Open(r) /\ Head(req[r].todo) = "resolve" /\ UNCHANGED <<readers, manual>>
  BY DEF Resolve, Gate, NoneMoves
<1>2. PICK q \in RequestType : q = req[r]
  BY <1>1, AtGate
<1>3. /\ q.status = "open" /\ Way(q, manual) /\ Head(q.todo) = "resolve" /\ manual \in BOOLEAN /\ q.kind \in Kinds
      /\ q.todo # <<>> /\ q.todo \in Seq(AllGates) /\ q.paid \in BOOLEAN /\ q.moved \in BOOLEAN
      /\ Checked(q) /\ MessagesCourse(q) /\ Resolved(q) /\ Ordered(q.todo)
  BY <1>1, <1>2, AtGate DEF RequestType, Way, OnItsWay, Course
<1>4. PICK new : new = [[q EXCEPT !.todo = Tail(@)] EXCEPT !.with = cache.provider,
                                                    !.wire = IF UsesResponses(cache) THEN "responses" ELSE cache.provider]
  OBVIOUS
<1>5. ASSUME cache.provider # "none", Become(r, new)
      PROVE  RequestsIInv'
  <2>1. /\ new \in RequestType /\ Keeps(new, q, {"todo", "with", "wire"}) /\ new.todo = Tail(q.todo)
        /\ new.with = cache.provider /\ new.wire = (IF UsesResponses(cache) THEN "responses" ELSE cache.provider)
    <3>1. new = [kind |-> q.kind, todo |-> Tail(q.todo), status |-> q.status, model |-> q.model,
                 admitted |-> q.admitted, paid |-> q.paid, approved |-> q.approved, checked |-> q.checked,
                 moved |-> q.moved, with |-> cache.provider,
                 wire |-> (IF UsesResponses(cache) THEN "responses" ELSE cache.provider),
                 searched |-> q.searched]
      BY <1>4 DEF RequestType
    <3>2. Tail(q.todo) \in Seq(AllGates)
      BY <1>3
    <3>3. cache.provider \in Providers /\ (IF UsesResponses(cache) THEN "responses" ELSE cache.provider) \in Wires
      BY <1>5 DEF Configs, Providers, Wires, UsesResponses
    <3>4. QED BY <3>1, <3>2, <3>3 DEF RequestType, Keeps, Fields
  <2>2. Passes(q, new, manual) /\ new.status = "open" /\ Ahead(q, new)
    <3>1. Passes(q, new, manual) /\ new.status = "open"
      BY <1>3, <1>5, <2>1 DEF Passes, Keeps, Fields
    <3>2. QED BY <1>3, <2>1, <3>1, LookingAhead
  <2>3. Checked(new)
    <3>1. new.kind = q.kind
      BY <2>1 DEF Keeps, Fields
    <3>2. {"search", "alias", "controls", "route"} \cap Left(new.todo) = {}
      BY <1>3, <2>2 DEF Ahead, Rank, AllGates
    <3>3. QED BY <1>3, <1>5, <2>1, <2>2, <3>1, <3>2 DEF Checked, Ahead
  <2>4. Way(new, manual)
    BY <1>3, <2>1, <2>2, <2>3, Onward
  <2>5. QED BY <1>1, <1>5, <2>1, <2>4, NoReader, Becoming DEF Become, RequestsIInv
<1>6. CASE Become(r, Ended("refused"))
  BY <1>1, <1>6, EndStep DEF RequestsIInv
<1>7. QED BY <1>2, <1>4, <1>5, <1>6 DEF Resolve, Passed

LEMMA SendStep ==
    ASSUME RequestsIInv, NEW r \in Requests, Send(r)
    PROVE  RequestsIInv'
<1>1. Open(r) /\ Head(req[r].todo) = "send" /\ UNCHANGED <<readers, manual>>
  BY DEF Send, Gate, NoneMoves
<1>2. PICK q \in RequestType : q = req[r]
  BY <1>1, AtGate
<1>3. /\ q.status = "open" /\ Way(q, manual) /\ Head(q.todo) = "send" /\ manual \in BOOLEAN /\ q.kind \in Kinds
      /\ q.todo # <<>> /\ q.todo \in Seq(AllGates) /\ Ordered(q.todo)
  BY <1>1, <1>2, AtGate
<1>4. PICK new : new = [q EXCEPT !.status = "sent", !.todo = <<>>, !.checked = Defaults]
  OBVIOUS
<1>5. CASE Become(r, new)
  <2>1. /\ new \in RequestType /\ Keeps(new, q, {"status", "todo", "checked"})
        /\ new.status = "sent" /\ new.todo = <<>>
    <3>1. new = [kind |-> q.kind, todo |-> <<>>, status |-> "sent", model |-> q.model,
                 admitted |-> q.admitted, paid |-> q.paid, approved |-> q.approved, checked |-> Defaults,
                 moved |-> q.moved, with |-> q.with, wire |-> q.wire, searched |-> q.searched]
      BY <1>4 DEF RequestType
    <3>2. <<>> \in Seq(AllGates) /\ "sent" \in Statuses /\ Defaults \in Configs
      BY Texts DEF Statuses
    <3>3. QED BY <3>1, <3>2 DEF RequestType, Keeps, Fields
  <2>2. Left(q.todo) = {"send"} /\ Left(new.todo) = {} /\ Ordered(new.todo)
    <3>1. \A gate \in Left(Tail(q.todo)) : gate \in AllGates /\ Rank("send") < Rank(gate)
      BY <1>3, Passing
    <3>2. Left(Tail(q.todo)) = {}
      BY <3>1 DEF Rank, AllGates
    <3>3. Left(q.todo) = {"send"}
      BY <1>3, <3>2, Passing
    <3>4. QED BY <2>1, <3>3, Plans DEF Plan
  <2>3. /\ AdmittedOnce(q) /\ PaidOrAhead(q) /\ ApprovedOrAhead(q, manual) /\ Checked(q)
    BY <1>3 DEF Way, OnItsWay
  <2>4. /\ new.kind = q.kind /\ new.admitted = q.admitted /\ new.paid = q.paid /\ new.approved = q.approved
        /\ new.searched = q.searched /\ new.with = q.with /\ new.moved = q.moved /\ new.wire = q.wire
    BY <2>1 DEF Keeps, Fields
  <2>5. Course(new) /\ Resolved(new) /\ MessagesCourse(new)
    BY <1>3, <2>1, <2>2, <2>4 DEF Course, Resolved, MessagesCourse
  <2>6. AdmittedOnce(new) /\ PaidOrAhead(new)
    BY <2>2, <2>3, <2>4 DEF AdmittedOnce, PaidOrAhead, ToProvider
  <2>7. ApprovedOrAhead(new, manual)
    BY <2>2, <2>3, <2>4 DEF ApprovedOrAhead, ToProvider
  <2>8. Checked(new)
    BY <2>2, <2>3, <2>4 DEF Checked
  <2>9. Way(new, manual)
    BY <2>5, <2>6, <2>7, <2>8 DEF Way
  <2>10. QED BY <1>1, <1>3, <1>5, <2>1, <2>9, NoReader, Becoming, <1>2 DEF Become, RequestsIInv
<1>6. CASE Become(r, Ended("failed"))
  BY <1>1, <1>6, EndStep DEF RequestsIInv
<1>7. QED BY <1>2, <1>4, <1>5, <1>6 DEF Send

\* A request that another handler takes over: a provider's, or Copilot's search.
LEMMA Turning ==
    ASSUME NEW asked \in BOOLEAN, NEW q \in RequestType, NEW new \in RequestType, q.status = "open", Way(q, asked),
           q.todo # <<>>, Head(q.todo) \in {"search", "alias"},
           Keeps(new, q, {"todo", "moved", "searched", "wire"}),
           NEW gates, Plan(new.todo, gates),
           \/ gates = {"resolve", "supports", "recheck", "send"}
           \/ gates = {"resolve", "supports", "send"} /\ ~q.kind.controls
           \/ gates = {"premium", "send"} /\ new.searched /\ (q.kind.controls => new.moved),
           gates # {"premium", "send"} => new.wire = q.wire /\ (q.kind.controls /\ q.wire = "responses" => new.moved)
    PROVE  Way(new, asked)
<1>1. /\ Course(q) /\ AdmittedOnce(q) /\ PaidOrAhead(q) /\ ApprovedOrAhead(q, asked) /\ Resolved(q)
      /\ MessagesCourse(q) /\ Checked(q)
  BY DEF Way, OnItsWay
<1>2. q.todo \in Seq(AllGates) /\ Ordered(q.todo)
  BY <1>1 DEF RequestType, Course
<1>3. PICK on : on = [todo |-> Tail(q.todo)]
  OBVIOUS
<1>4. Ahead(q, on)
  BY <1>2, <1>3, LookingAhead
<1>5. "admit" \notin Left(q.todo) /\ q.with = "none"
  BY <1>1, <1>4 DEF Resolved, Ahead, Rank, AllGates
<1>6. /\ new.kind = q.kind /\ new.admitted = q.admitted /\ new.paid = q.paid /\ new.approved = q.approved
      /\ new.with = q.with /\ new.status = "open" /\ Left(new.todo) = gates /\ Ordered(new.todo)
  BY DEF Keeps, Fields, Plan
<1>7. Course(new)
  BY <1>1, <1>6 DEF Course
<1>8. AdmittedOnce(new)
  BY <1>1, <1>5, <1>6 DEF AdmittedOnce
<1>9. PaidOrAhead(new) /\ ApprovedOrAhead(new, asked)
  BY <1>6 DEF PaidOrAhead, ApprovedOrAhead, ToProvider
<1>10. Resolved(new) /\ MessagesCourse(new)
  BY <1>5, <1>6 DEF Resolved, MessagesCourse
<1>11. Checked(new)
  BY <1>1, <1>5, <1>6 DEF Checked
<1>12. QED BY <1>7, <1>8, <1>9, <1>10, <1>11 DEF Way

LEMMA AliasStep ==
    ASSUME RequestsIInv, cache \in Configs, NEW r \in Requests, Alias(r)
    PROVE  RequestsIInv'
<1>1. Open(r) /\ Head(req[r].todo) = "alias" /\ UNCHANGED <<readers, manual>>
  BY DEF Alias, Gate, NoneMoves
<1>2. PICK q \in RequestType : q = req[r]
  BY <1>1, AtGate
<1>3. /\ q.status = "open" /\ Way(q, manual) /\ Head(q.todo) = "alias" /\ manual \in BOOLEAN /\ q.kind \in Kinds
      /\ q.todo # <<>> /\ q.todo \in Seq(AllGates) /\ q.paid \in BOOLEAN /\ q.moved \in BOOLEAN
      /\ Checked(q) /\ MessagesCourse(q) /\ Resolved(q) /\ Ordered(q.todo)
  BY <1>1, <1>2, AtGate DEF RequestType, Way, OnItsWay, Course
<1>4. q.kind.endpoint \in {"messages", "chat", "responses", "compact"}
  BY <1>1, <1>2, <1>3, Passing DEF MessagesCourse
<1>5. CASE q.model = "P"
  <2>1. PICK todo : todo = OfProvider(q.kind.endpoint)
    OBVIOUS
  <2>2. PICK gates : /\ Plan(todo, gates)
                     /\ \/ gates = {"resolve", "supports", "recheck", "send"}
                        \/ gates = {"resolve", "supports", "send"} /\ ~q.kind.controls
    <3>1. CASE q.kind.endpoint = "messages"
      BY <2>1, <3>1, Plans DEF OfProvider
    <3>2. CASE q.kind.endpoint \in {"chat", "responses", "compact"}
      <4>1. todo = ForChat
        BY <2>1, <3>2 DEF OfProvider, ForChat, ForResponses, ForCompact
      <4>2. ~q.kind.controls
        BY <1>3, <3>2, GatewayAssumption
      <4>3. QED BY <4>1, <4>2, Plans
    <3>3. QED BY <1>4, <3>1, <3>2
  <2>3. PICK new : new = [q EXCEPT !.todo = todo]
    OBVIOUS
  <2>4. new \in RequestType /\ Keeps(new, q, {"todo"}) /\ new.todo = todo
    <3>1. new = [kind |-> q.kind, todo |-> todo, status |-> q.status, model |-> q.model,
                 admitted |-> q.admitted, paid |-> q.paid, approved |-> q.approved, checked |-> q.checked,
                 moved |-> q.moved, with |-> q.with, wire |-> q.wire, searched |-> q.searched]
      BY <2>3 DEF RequestType
    <3>2. todo \in Seq(AllGates)
      BY <2>2 DEF Plan
    <3>3. QED BY <3>1, <3>2 DEF RequestType, Keeps, Fields
  <2>5. /\ Keeps(new, q, {"todo", "moved", "searched", "wire"}) /\ new.wire = q.wire /\ new.moved = q.moved
        /\ new.status = "open"
    BY <1>3, <2>4 DEF Keeps, Fields
  <2>6. q.kind.controls /\ q.wire = "responses" => new.moved
    <3>1. PICK on : on = [todo |-> Tail(q.todo)]
      OBVIOUS
    <3>2. Ahead(q, on)
      BY <1>3, <3>1, LookingAhead
    <3>3. q.with = "none"
      BY <1>3, <3>2 DEF Resolved, Ahead, Rank, AllGates
    <3>4. QED BY <1>3, <2>5, <3>2, <3>3 DEF Checked, Ahead
  <2>7. Way(new, manual)
    <3>1. gates # {"premium", "send"}
      BY <2>2
    <3>2. QED BY <1>3, <2>2, <2>4, <2>5, <2>6, <3>1, Turning
  <2>8. Become(r, new)
    BY <1>2, <1>5, <2>1, <2>3 DEF Alias
  <2>9. QED BY <1>1, <2>4, <2>5, <2>7, <2>8, NoReader, Becoming DEF Become, RequestsIInv
<1>6. CASE q.model # "P"
  <2>1. PICK new : new = [q EXCEPT !.todo = Tail(@)]
    OBVIOUS
  <2>2. new \in RequestType /\ Keeps(new, q, {"todo"}) /\ new.todo = Tail(q.todo)
    <3>1. new = [kind |-> q.kind, todo |-> Tail(q.todo), status |-> q.status, model |-> q.model,
                 admitted |-> q.admitted, paid |-> q.paid, approved |-> q.approved, checked |-> q.checked,
                 moved |-> q.moved, with |-> q.with, wire |-> q.wire, searched |-> q.searched]
      BY <2>1 DEF RequestType
    <3>2. Tail(q.todo) \in Seq(AllGates)
      BY <1>3
    <3>3. QED BY <3>1, <3>2 DEF RequestType, Keeps, Fields
  <2>3. Passes(q, new, manual) /\ new.status = "open" /\ Ahead(q, new)
    <3>1. Passes(q, new, manual) /\ new.status = "open"
      BY <1>3, <2>2 DEF Passes, Keeps, Fields
    <3>2. QED BY <1>3, <2>2, <3>1, LookingAhead
  <2>4. Checked(new)
    <3>1. \A config : WouldUseResponses(new, config) = WouldUseResponses(q, config)
      BY <2>2 DEF WouldUseResponses, Keeps, Fields
    <3>2. /\ new.kind = q.kind /\ new.with = q.with /\ new.wire = q.wire /\ new.model = q.model /\ new.moved = q.moved
          /\ new.checked = q.checked
      BY <2>2 DEF Keeps, Fields
    <3>3. QED BY <1>3, <1>6, <2>3, <3>1, <3>2 DEF Checked, Ahead, Rank, AllGates
  <2>5. Way(new, manual)
    BY <1>3, <2>2, <2>3, <2>4, Onward
  <2>6. Become(r, new)
    BY <1>2, <1>6, <2>1 DEF Alias, Passed
  <2>7. QED BY <1>1, <2>2, <2>3, <2>5, <2>6, NoReader, Becoming DEF Become, RequestsIInv
<1>7. QED BY <1>5, <1>6

LEMMA SearchStep ==
    ASSUME RequestsIInv, cache \in Configs, NEW r \in Requests, Search(r)
    PROVE  RequestsIInv'
<1>1. Open(r) /\ Head(req[r].todo) = "search" /\ UNCHANGED <<readers, manual>>
  BY DEF Search, Gate, NoneMoves
<1>2. PICK q \in RequestType : q = req[r]
  BY <1>1, AtGate
<1>3. /\ q.status = "open" /\ Way(q, manual) /\ Head(q.todo) = "search" /\ manual \in BOOLEAN /\ q.kind \in Kinds
      /\ q.todo # <<>> /\ q.todo \in Seq(AllGates) /\ q.paid \in BOOLEAN /\ q.moved \in BOOLEAN
      /\ Checked(q) /\ MessagesCourse(q) /\ Resolved(q) /\ Ordered(q.todo)
  BY <1>1, <1>2, AtGate DEF RequestType, Way, OnItsWay, Course
<1>4. /\ Ahead(q, [todo |-> Tail(q.todo)]) /\ q.kind.endpoint = "messages" /\ q.with = "none"
      /\ "controls" \notin Left(q.todo) /\ "search" \in Left(q.todo)
  <2>1. PICK on : on = [todo |-> Tail(q.todo)]
    OBVIOUS
  <2>2. on.todo = Tail(q.todo)
    BY <2>1
  <2>3. Ahead(q, on)
    BY <1>3, <2>2, LookingAhead
  <2>4. QED BY <1>3, <2>1, <2>3 DEF MessagesCourse, Resolved, Ahead, Rank, AllGates
<1>5. PICK passed, turned : /\ passed = [[q EXCEPT !.todo = Tail(@)] EXCEPT !.moved = cache # q.checked]
                           /\ turned = [passed EXCEPT !.searched = TRUE]
  OBVIOUS
<1>6. /\ passed \in RequestType /\ Keeps(passed, q, {"todo", "moved"}) /\ passed.todo = Tail(q.todo)
      /\ passed.moved = (cache # q.checked)
  <2>1. passed = [kind |-> q.kind, todo |-> Tail(q.todo), status |-> q.status, model |-> q.model,
               admitted |-> q.admitted, paid |-> q.paid, approved |-> q.approved, checked |-> q.checked,
               moved |-> (cache # q.checked), with |-> q.with, wire |-> q.wire, searched |-> q.searched]
    BY <1>5 DEF RequestType
  <2>2. Tail(q.todo) \in Seq(AllGates)
    BY <1>3
  <2>3. QED BY <2>1, <2>2 DEF RequestType, Keeps, Fields
<1>7. turned = [kind |-> q.kind, todo |-> Tail(q.todo), status |-> q.status, model |-> q.model,
               admitted |-> q.admitted, paid |-> q.paid, approved |-> q.approved, checked |-> q.checked,
               moved |-> (cache # q.checked), with |-> q.with, wire |-> q.wire, searched |-> TRUE]
  BY <1>5 DEF RequestType
<1>8. CASE Become(r, passed) /\ (~q.kind.search \/ cache.search = "strip")
  <2>1. Passes(q, passed, manual) /\ passed.status = "open" /\ Ahead(q, passed)
    <3>1. Passes(q, passed, manual) /\ passed.status = "open"
      BY <1>3, <1>6 DEF Passes, Keeps, Fields
    <3>2. QED BY <1>3, <1>6, <3>1, LookingAhead
  <2>2. Checked(passed)
    <3>1. \A config : WouldUseResponses(passed, config) = WouldUseResponses(q, config)
      BY <1>6 DEF WouldUseResponses, Keeps, Fields
    <3>2. /\ passed.kind = q.kind /\ passed.with = q.with /\ passed.wire = q.wire /\ passed.model = q.model
          /\ passed.checked = q.checked
      BY <1>6 DEF Keeps, Fields
    <3>3. QED BY <1>3, <1>4, <1>6, <1>8, <2>1, <3>1, <3>2 DEF Checked, Ahead
  <2>3. Way(passed, manual)
    BY <1>3, <1>6, <2>1, <2>2, Onward
  <2>4. QED BY <1>1, <1>6, <1>8, <2>1, <2>3, NoReader, Becoming DEF Become, RequestsIInv
<1>9. CASE Become(r, [turned EXCEPT !.todo = ForMessages])
  <2>1. PICK new : new = [turned EXCEPT !.todo = ForMessages]
    OBVIOUS
  <2>2. /\ new \in RequestType /\ Keeps(new, q, {"todo", "moved", "searched", "wire"}) /\ new.todo = ForMessages
        /\ new.wire = q.wire /\ new.status = "open"
    <3>1. new = [kind |-> q.kind, todo |-> ForMessages, status |-> q.status, model |-> q.model,
                 admitted |-> q.admitted, paid |-> q.paid, approved |-> q.approved, checked |-> q.checked,
                 moved |-> (cache # q.checked), with |-> q.with, wire |-> q.wire, searched |-> TRUE]
      BY <1>7, <2>1
    <3>2. ForMessages \in Seq(AllGates)
      BY Plans DEF Plan
    <3>3. QED BY <1>3, <3>1, <3>2 DEF RequestType, Keeps, Fields
  <2>3. q.kind.controls => q.wire = "none"
    BY <1>3, <1>4 DEF Checked
  <2>4. PICK gates : gates = {"resolve", "supports", "recheck", "send"} /\ Plan(new.todo, gates)
    BY <2>2, Plans
  <2>5. Way(new, manual)
    <3>1. gates # {"premium", "send"}
      BY <2>4
    <3>2. QED BY <1>3, <2>2, <2>3, <2>4, <3>1, Turning
  <2>6. QED BY <1>1, <1>9, <2>1, <2>2, <2>5, NoReader, Becoming DEF Become, RequestsIInv
<1>10. CASE /\ Become(r, [turned EXCEPT !.todo = <<"premium", "send">>, !.wire = "responses"])
            /\ q.kind.search /\ cache.search \notin {"strip", "P"}
  <2>1. PICK new : new = [turned EXCEPT !.todo = <<"premium", "send">>, !.wire = "responses"]
    OBVIOUS
  <2>2. /\ new \in RequestType /\ Keeps(new, q, {"todo", "moved", "searched", "wire"})
        /\ new.todo = <<"premium", "send">> /\ new.searched /\ new.moved = (cache # q.checked) /\ new.status = "open"
    <3>1. new = [kind |-> q.kind, todo |-> <<"premium", "send">>, status |-> q.status, model |-> q.model,
                 admitted |-> q.admitted, paid |-> q.paid, approved |-> q.approved, checked |-> q.checked,
                 moved |-> (cache # q.checked), with |-> q.with, wire |-> "responses", searched |-> TRUE]
      BY <1>7, <2>1
    <3>2. <<"premium", "send">> \in Seq(AllGates) /\ "responses" \in Wires
      BY Plans DEF Plan, Wires
    <3>3. QED BY <1>3, <3>1, <3>2 DEF RequestType, Keeps, Fields
  <2>3. q.kind.controls => new.moved
    <3>1. ASSUME q.kind.controls PROVE ~WouldUseResponses(q, q.checked)
      BY <1>3, <1>4, <3>1 DEF Checked, MessagesCourse
    <3>2. cache.search = "copilot"
      BY <1>10 DEF Configs, Searchers
    <3>3. WouldUseResponses(q, cache)
      BY <1>4, <1>10, <3>2 DEF WouldUseResponses
    <3>4. QED BY <2>2, <3>1, <3>3
  <2>4. PICK gates : gates = {"premium", "send"} /\ Plan(new.todo, gates)
    BY <2>2, Plans
  <2>5. Way(new, manual)
    BY <1>3, <2>2, <2>3, <2>4, Turning
  <2>6. QED BY <1>1, <1>10, <2>1, <2>2, <2>5, NoReader, Becoming DEF Become, RequestsIInv
<1>11. Become(r, CASE ~q.kind.search \/ cache.search = "strip" -> passed
                   [] q.kind.search /\ cache.search = "P" -> [turned EXCEPT !.todo = ForMessages]
                   [] OTHER -> [turned EXCEPT !.todo = <<"premium", "send">>, !.wire = "responses"])
  BY <1>2, <1>5 DEF Search, Passed
<1>12. QED BY <1>8, <1>9, <1>10, <1>11

LEMMA ArriveStep ==
    ASSUME RequestsIInv, NEW r \in Requests, NEW kind \in Kinds, Arrive(r, kind)
    PROVE  RequestsIInv'
<1>1. req[r] = Nowhere /\ UNCHANGED <<readers, manual>>
  BY DEF Arrive, NoneMoves
<1>2. PICK todo : todo = Gates(kind.endpoint)
  OBVIOUS
<1>3. PICK new : new = [Nowhere EXCEPT !.kind = kind, !.todo = todo, !.status = "open", !.model = kind.model]
  OBVIOUS
<1>4. Become(r, new)
  BY <1>2, <1>3 DEF Arrive
<1>5. /\ kind.endpoint \in Endpoints /\ kind.model \in STRING /\ kind.controls \in BOOLEAN
      /\ kind.controls => kind.endpoint \in {"messages", "provider messages"}
  BY GatewayAssumption
<1>6. PICK gates : Plan(todo, gates) /\ \/ kind.endpoint = "messages" /\ gates = {"map", "controls", "admit", "search",
                                              "alias", "premium", "approve", "route", "send"}
                                        \/ kind.endpoint = "provider messages" /\ gates = {"controls", "admit",
                                              "resolve", "supports", "recheck", "send"}
                                        \/ kind.endpoint = "chat" /\ gates = {"map", "admit", "alias", "premium",
                                              "model", "approve", "send"}
                                        \/ kind.endpoint = "responses" /\ gates = {"map", "admit", "alias", "premium",
                                              "transport", "approve", "send"}
                                        \/ kind.endpoint = "compact" /\ gates = {"map", "admit", "alias", "premium",
                                              "transport", "send"}
                                        \/ kind.endpoint = "images" /\ gates = {"admit", "premium", "resolve",
                                              "supports", "send"}
                                        \/ kind.endpoint = "embeddings" /\ gates = {"admit", "send"}
                                        \/ kind.endpoint \in Scoped /\ gates = {"resolve", "supports", "send"}
  BY <1>2, <1>5, Plans DEF Gates, Endpoints, Scoped, ForChat, ForResponses, ForCompact, ForSearch
<1>7. new = [kind |-> kind, todo |-> todo, status |-> "open", model |-> kind.model, admitted |-> 0, paid |-> FALSE,
             approved |-> FALSE, checked |-> Defaults, moved |-> FALSE, with |-> "none", wire |-> "none",
             searched |-> FALSE]
  BY <1>3 DEF Nowhere
<1>8. new \in RequestType
  BY <1>5, <1>6, <1>7, Texts DEF Plan, RequestType, Statuses, Wires, Providers
<1>9. /\ new.kind = kind /\ Left(new.todo) = gates /\ Ordered(new.todo) /\ new.status = "open" /\ new.admitted = 0
      /\ new.with = "none" /\ new.wire = "none"
  BY <1>6, <1>7 DEF Plan
<1>10. Course(new)
  BY <1>6, <1>9 DEF Course, Scoped
<1>11. AdmittedOnce(new)
  BY <1>6, <1>9 DEF AdmittedOnce, Scoped
<1>12. PaidOrAhead(new)
  BY <1>6, <1>9 DEF PaidOrAhead, ToProvider, Scoped
<1>13. ApprovedOrAhead(new, manual)
  BY <1>6, <1>9 DEF ApprovedOrAhead, ToProvider, Approved, Scoped
<1>14. Resolved(new)
  BY <1>9 DEF Resolved
<1>15. MessagesCourse(new)
  BY <1>5, <1>6, <1>9 DEF MessagesCourse, Scoped
<1>16. Checked(new)
  <2>1. CASE kind.endpoint = "messages"
    BY <1>6, <1>9, <2>1 DEF Checked, Scoped
  <2>2. CASE kind.endpoint = "provider messages"
    <3>1. gates = {"controls", "admit", "resolve", "supports", "recheck", "send"}
      BY <1>6, <2>2 DEF Scoped
    <3>2. QED BY <1>9, <3>1 DEF Checked
  <2>3. CASE ~kind.controls
    BY <1>9, <2>3 DEF Checked
  <2>4. QED BY <1>5, <2>1, <2>2, <2>3
<1>17. Way(new, manual)
  BY <1>10, <1>11, <1>12, <1>13, <1>14, <1>15, <1>16 DEF Way
<1>18. r \notin readers
  BY <1>1 DEF RequestsIInv, ReadersWait, Nowhere
<1>19. QED BY <1>1, <1>4, <1>8, <1>17, <1>18, Becoming DEF Become, RequestsIInv

LEMMA RequestsStayStep ==
    ASSUME RequestsIInv, UNCHANGED <<req, readers, manual>>
    PROVE  RequestsIInv'
<1>1. \A r \in Requests : Way(req[r], manual)'
  BY DEF RequestsIInv, Way, ApprovedOrAhead
<1>2. ReadersWait'
  BY DEF RequestsIInv, ReadersWait, Open
<1>3. QED BY <1>1, <1>2 DEF RequestsIInv

LEMMA RequestsNext ==
    ASSUME RequestsIInv, cache \in Configs, [Next]_vars
    PROVE  RequestsIInv'
<1>1. ASSUME NEW r \in Requests, RequestStep(r) PROVE RequestsIInv'
  BY <1>1, MapStep, ControlsStep, AdmitStep, SearchStep, AliasStep, PremiumStep, ModelStep, TransportStep, AskStep,
     RouteStep, ResolveStep, CapableStep, RecheckStep, SendStep, HangUpStep DEF RequestStep
<1>2. ASSUME UNCHANGED vars PROVE RequestsIInv'
  BY <1>2, RequestsStayStep DEF vars
<1>3. ASSUME RequestsStay PROVE RequestsIInv'
  BY <1>3, RequestsStayStep DEF RequestsStay
<1>4. QED BY <1>1, <1>2, <1>3, ArriveStep, AnsweredStep DEF Next

LEMMA RequestsInit ==
    ASSUME Init
    PROVE  RequestsIInv
<1>1. PICK nowhere : nowhere = Nowhere
  OBVIOUS
<1>2. nowhere \in RequestType /\ nowhere.status = "new"
  <2>1. Nowhere.todo \in Seq(AllGates)
    BY DEF Nowhere
  <2>2. QED BY <1>1, <2>1, Texts DEF Nowhere, RequestType, Statuses, Wires, Providers, NoKind
<1>3. req = [r \in Requests |-> nowhere] /\ readers = {} /\ manual \in BOOLEAN
  BY <1>1, GatewayAssumption DEF Init
<1>4. \A r \in Requests : Way(req[r], manual)
  BY <1>2, <1>3 DEF Way, OnItsWay
<1>5. QED BY <1>2, <1>3, <1>4 DEF RequestsIInv, ReadersWait

-----------------------------------------------------------------------------
(***************************************************************************)
(* The theorems about requests.                                            *)
(***************************************************************************)
IInv == ConfigIInv /\ RequestsIInv

LEMMA Inductive == Spec => []IInv
<1>1. ASSUME Init PROVE IInv
  BY <1>1, ConfigInit, RequestsInit DEF IInv
<1>2. ASSUME IInv, [Next]_vars PROVE IInv'
  <2>1. cache \in Configs
    BY <1>2 DEF IInv, ConfigIInv, ConfigTypeOK
  <2>2. QED BY <1>2, <2>1, ConfigNext, RequestsNext DEF IInv
<1>3. QED BY <1>1, <1>2, PTL DEF Spec

\* A request that was sent has no gate left, so what was ahead or passed was passed.
LEMMA WhatWasSent ==
    ASSUME RequestsIInv, NEW r \in Requests, Sent(r)
    PROVE  /\ Left(req[r].todo) = {} /\ req[r].kind \in Kinds /\ AdmittedOnce(req[r]) /\ PaidOrAhead(req[r])
           /\ ApprovedOrAhead(req[r], manual) /\ Checked(req[r])
<1>1. Way(req[r], manual) /\ req[r].status = "sent"
  BY DEF RequestsIInv, Sent
<1>2. QED BY <1>1 DEF Way, OnItsWay, Course

\* Whatever way a request takes it is sent after exactly one admission, unless the provider is in its path; to Copilot's
\* generation only past the premium gate, and with --manual only after the operator's yes.  handle_completion
\* (messages, chat), handle_responses, handle_responses_compact, try_handle_web_search, images::handle.
THEOREM GatesPassedAlways == Spec => []GatesPassed
<1>1. ASSUME IInv PROVE GatesPassed
  <2>1. ASSUME NEW r \in Requests, Sent(r)
        PROVE  req[r].admitted = IF req[r].kind.endpoint \in Scoped THEN 0 ELSE 1
    BY <1>1, <2>1, WhatWasSent DEF IInv, AdmittedOnce
  <2>2. ASSUME NEW r \in Requests, Sent(r), ToCopilot(r), req[r].kind.endpoint # "embeddings"
        PROVE  req[r].paid
    BY <1>1, <2>2, WhatWasSent DEF IInv, PaidOrAhead, ToProvider, ToCopilot
  <2>3. ASSUME NEW r \in Requests, Sent(r), manual, ToCopilot(r), req[r].kind.endpoint \in Approved, ~req[r].searched
        PROVE  req[r].approved
    BY <1>1, <2>3, WhatWasSent DEF IInv, ApprovedOrAhead, ToProvider, ToCopilot
  <2>4. QED BY <2>1, <2>2, <2>3 DEF GatesPassed
<1>2. QED BY <1>1, Inductive, PTL

\* A Messages request with controls that the Responses API cannot express reaches Responses only if the configuration
\* changed between the check and the choice of the wire, and a provider's Responses endpoint never.
\* validate_selected_responses_controls, handle_provider_messages_for_provider.
THEOREM ControlsCheckedAlways == Spec => []ControlsChecked
<1>1. ASSUME IInv PROVE ControlsChecked
  BY <1>1, WhatWasSent DEF IInv, ControlsChecked, Checked, ToCopilot
<1>2. QED BY <1>1, Inductive, PTL
==============================================================================

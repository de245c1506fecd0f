------------------------------ MODULE FilesApi ------------------------------
(***************************************************************************)
(* The Files API and what it is for: src/src/routes/files/api.rs takes     *)
(* uploads and serves downloads, a limited number of each at a time, and   *)
(* materialize.rs puts the content of the files a request refers to into   *)
(* the request.  Both use the store, whose steps are those of FileStore.   *)
(*                                                                         *)
(* A reference is a record: at, where in the request it stands; type, what *)
(* it shall be; form, "file" or how it was inlined; file, an id of Files,  *)
(* or None for one that some upstream keeps; named, whether it has a name. *)
(***************************************************************************)
EXTENDS FileStore, Sequences, FiniteSetsExt

CONSTANTS UploadSlots,    \* permits of an owner in FILE_UPLOAD_SLOTS
          DownloadSlots,  \* and in FILE_DOWNLOAD_SLOTS
          Mime,           \* what each file is
          Encoded,        \* its size in a request
          Limit,          \* MAX_MATERIALIZED_ENCODED_BYTES
          Requests        \* bound: the references of a request, of those enumerated

\* A reference as a request brings it: nothing has been inlined yet.
References == [at : STRING, type : {"image", "document", "file"}, form : {"file"},
               file : Files \cup {None}, named : BOOLEAN]

ASSUME FilesApiAssumption ==
    /\ UploadSlots \in Nat \ {0} /\ DownloadSlots \in Nat \ {0} /\ Limit \in Nat
    /\ Mime \in [Files -> {"image", "pdf", "text", "not utf-8", "other"}]
    /\ Encoded \in [Files -> Nat]
    /\ Requests \subseteq Seq(References)

VARIABLES
    call,    \* each upload request: "new", "receiving", "storing" or "ended"
    form,    \* its protocol, and the fields that have arrived
    phase,   \* each reader: "new", "download", "streaming", "sizing", "loading",
             \* "sent" or "ended"
    refs,    \* the references of its request
    left,    \* the files it has still to look at
    bytes    \* the size expected of its request

uploadVars == <<call, form>>
readerVars == <<phase, refs, left, bytes>>
apiVars == <<call, form, phase, refs, left, bytes>>

NoForm == [protocol |-> "openai", got |-> {}]

ApiInit ==
    /\ Init
    /\ call = [f \in Files |-> "new"] /\ form = [f \in Files |-> NoForm]
    /\ phase = [r \in Reads |-> "new"] /\ refs = [r \in Reads |-> <<>>]
    /\ left = [r \in Reads |-> {}] /\ bytes = [r \in Reads |-> 0]

-----------------------------------------------------------------------------
(* References                                                              *)

\* Where the walk through a Messages or a Responses request looks.  It does not
\* look at what a tool is given, nor at the outputs of custom tools.
Visited == {"content", "tool_result", "message", "function_call_output"}

Local(ref) == ref.form = "file" /\ ref.file # None /\ ref.at \in Visited
LocalIds(request) == {request[i].file : i \in {j \in DOMAIN request : Local(request[j])}}
Count(request, f) ==
    Cardinality({i \in DOMAIN request : Local(request[i]) /\ request[i].file = f})

\* require_image, require_document; a file of a Responses request may be anything.
Fits(ref, mime) ==
    CASE ref.type = "image" -> mime = "image"
      [] ref.type = "document" -> mime \in {"pdf", "text"}
      [] ref.type = "file" -> TRUE

\* Whoever has no name gets the file's.
Inline(ref, mime) ==
    [ref EXCEPT !.form = CASE ref.at \in {"message", "function_call_output"} -> "data url"
                           [] ref.type = "document" /\ mime = "text" -> "text"
                           [] OTHER -> "base64",
                !.named = @ \/ ref.type \in {"document", "file"}]

Expandable(request, mime) ==
    \A i \in DOMAIN request : Local(request[i]) => Fits(request[i], mime[request[i].file])
Expanded(request, mime) ==
    [i \in DOMAIN request |->
        IF Local(request[i]) THEN Inline(request[i], mime[request[i].file]) ELSE request[i]]

-----------------------------------------------------------------------------
(* Uploads.  The permit is held until the handler returns or is dropped.   *)

UploadHeld(f) == call[f] = "receiving" \/ (call[f] = "storing" /\ up[f] # "ended")

StartUpload(f) ==
    /\ call[f] = "new"
    /\ IF Cardinality({g \in Files : UploadHeld(g)}) < UploadSlots
       THEN /\ call' = [call EXCEPT ![f] = "receiving"]
            /\ \E protocol \in {"openai", "anthropic"} : form' = [form EXCEPT ![f].protocol = protocol]
       ELSE call' = [call EXCEPT ![f] = "ended"] /\ UNCHANGED form
    /\ UNCHANGED <<vars, readerVars>>

\* A field has been read in time, and within its limit.
ReadField(f) ==
    /\ call[f] = "receiving"
    /\ \/ "file" \notin form[f].got /\ form' = [form EXCEPT ![f].got = @ \cup {"file"}]
       \/ form' = [form EXCEPT ![f].got = @ \cup {"purpose"}]
    /\ UNCHANGED <<vars, call, readerVars>>

\* Not in time, too long, of no known name, malformed, a second file; or the
\* client is gone.
UploadRefused(f) ==
    /\ \/ call[f] = "receiving"
       \/ call[f] = "storing" /\ up[f] = "new"   \* the store has no room
    /\ call' = [call EXCEPT ![f] = "ended"]
    /\ form' = [form EXCEPT ![f] = NoForm]
    /\ UNCHANGED <<vars, readerVars>>

FormRead(f) ==
    /\ call[f] = "receiving"
    /\ LET whole == "file" \in form[f].got
                    /\ (form[f].protocol = "openai" => "purpose" \in form[f].got)
       IN call' = [call EXCEPT ![f] = IF whole THEN "storing" ELSE "ended"]
    /\ form' = [form EXCEPT ![f] = NoForm]
    /\ UNCHANGED <<vars, readerVars>>

StoreUpload(f) == call[f] = "storing" /\ UploadStep(f) /\ UNCHANGED apiVars

-----------------------------------------------------------------------------
(* Downloads and requests that refer to files, which begin with the layout *)

To(r, stage) == phase' = [phase EXCEPT ![r] = stage]
Ended(r) ==
    /\ To(r, "ended")
    /\ refs' = [refs EXCEPT ![r] = <<>>] /\ left' = [left EXCEPT ![r] = {}]
    /\ bytes' = [bytes EXCEPT ![r] = 0]
    /\ EndRead(r)

\* The permit goes with the answer's body.
DownloadHeld(r) == phase[r] \in {"download", "streaming"}

StartDownload(r, f) ==
    /\ mode = "up" /\ phase[r] = "new"
    /\ IF Cardinality({q \in Reads : DownloadHeld(q)}) < DownloadSlots /\ Visible(f)
       THEN FindToRead(r, f) /\ To(r, "download") /\ UNCHANGED <<refs, left, bytes>>
       ELSE Ended(r)
    /\ UNCHANGED uploadVars

\* A request without local files is passed on as it is.
StartRequest(r, request) ==
    /\ mode = "up" /\ phase[r] = "new" /\ LocalIds(request) # {}
    /\ To(r, "sizing")
    /\ refs' = [refs EXCEPT ![r] = request]
    /\ left' = [left EXCEPT ![r] = LocalIds(request)]
    /\ UNCHANGED <<vars, uploadVars, bytes>>

Looking(r, f) ==
    /\ mode = "up" /\ rd[r] \in {"new", "opened"} /\ f \in left[r]
    /\ phase[r] \in {"sizing", "loading"}

NotFound(r, f) ==
    /\ Looking(r, f) /\ ~Visible(f)
    /\ Ended(r)
    /\ UNCHANGED uploadVars

\* All sizes are summed up before anything is read.
AddSize(r, f) ==
    /\ Looking(r, f) /\ phase[r] = "sizing" /\ Visible(f)
    /\ LET total == bytes[r] + Count(refs[r], f) * Encoded[f]
           rest == left[r] \ {f}
       IN IF total > Limit THEN Ended(r)
          ELSE /\ bytes' = [bytes EXCEPT ![r] = IF rest = {} THEN 0 ELSE total]
               /\ left' = [left EXCEPT ![r] = IF rest = {} THEN LocalIds(refs[r]) ELSE rest]
               /\ To(r, IF rest = {} THEN "loading" ELSE "sizing")
               /\ UNCHANGED <<vars, refs>>
    /\ UNCHANGED uploadVars

Find(r, f) ==
    /\ Looking(r, f) /\ phase[r] = "loading"
    /\ FindToRead(r, f)
    /\ UNCHANGED apiVars

\* The last file of a request is there: the request is expanded at once.
Complete(r) ==
    /\ phase[r] = "loading" /\ rd[r] = "found"
    /\ left[r] = {target[r]} /\ loc[target[r]] = "bin"

Load(r) ==
    /\ ~Complete(r)
    /\ Open(r)
    /\ IF phase[r] = "download" /\ rd'[r] = "opened" THEN To(r, "streaming") ELSE UNCHANGED phase
    /\ left' = [left EXCEPT ![r] = @ \ {target[r]}]
    /\ UNCHANGED <<uploadVars, refs, bytes>>

Expand(r) ==
    /\ Complete(r) /\ Expandable(refs[r], Mime)
    /\ Open(r)
    /\ refs' = [refs EXCEPT ![r] = Expanded(refs[r], Mime)]
    /\ left' = [left EXCEPT ![r] = {}]
    /\ To(r, "sent")
    /\ UNCHANGED <<uploadVars, bytes>>

\* A file is not what it shall be, or the escapes of a text have made the
\* request too long after all.
ExpansionRefused(r) ==
    /\ Complete(r)
    /\ ~Expandable(refs[r], Mime) \/ \E f \in LocalIds(refs[r]) : Mime[f] = "text"
    /\ Ended(r)
    /\ UNCHANGED uploadVars

\* The body of a download is at its end (what has been opened stays readable),
\* the request is sent on, an error is answered; or the client has gone away.
EndCall(r) ==
    /\ phase[r] \notin {"new", "ended"}
    /\ Ended(r)
    /\ UNCHANGED uploadVars

-----------------------------------------------------------------------------
(* FileStore::list: the files of an owner, the newest first unless asked   *)
(* otherwise, from one cursor on; None is no cursor.                       *)

Page(files, after, before, limit) ==
    LET Place(cursor) == CHOOSE i \in DOMAIN files : files[i] = cursor
        first == IF after # None THEN Place(after) + 1
                 ELSE IF before # None THEN Max({1, Place(before) - (limit + 1)}) ELSE 1
        last == IF after = None /\ before # None THEN Place(before) - 1 ELSE Len(files)
        found == SubSeq(files, first, last)
        more == Len(found) > limit
    IN  [more |-> more,
         data |-> IF more /\ before # None
                  THEN SubSeq(found, Len(found) - limit + 1, Len(found))
                  ELSE SubSeq(found, 1, Min({limit, Len(found)}))]

-----------------------------------------------------------------------------
ApiStop ==
    /\ Stop
    /\ call' = [f \in Files |-> IF call[f] = "new" THEN "new" ELSE "ended"]
    /\ form' = [f \in Files |-> NoForm]
    /\ phase' = [r \in Reads |-> IF phase[r] = "new" THEN "new" ELSE "ended"]
    /\ refs' = [r \in Reads |-> <<>>]
    /\ left' = [r \in Reads |-> {}] /\ bytes' = [r \in Reads |-> 0]

UploadCallStep(f) ==
    StartUpload(f) \/ ReadField(f) \/ UploadRefused(f) \/ FormRead(f) \/ StoreUpload(f)

ReaderStep(r) ==
    \/ \E f \in Files : StartDownload(r, f) \/ NotFound(r, f) \/ AddSize(r, f) \/ Find(r, f)
    \/ \E request \in Requests : StartRequest(r, request)
    \/ Load(r) \/ Expand(r) \/ ExpansionRefused(r) \/ EndCall(r)

ApiNext ==
    \/ \E f \in Files : UploadCallStep(f)
    \/ \E r \in Reads : ReaderStep(r)
    \/ ApiStop
    \/ /\ \/ \E f \in Files : Ages(f)
          \/ \E d \in Deletes : DeleteStep(d)
          \/ \E p \in Prunes : PruneWorks(p) \/ PruneStops(p)
          \/ ReconcileWorks \/ ReconcileFails
       /\ UNCHANGED apiVars

allVars == <<vars, apiVars>>
ApiSpec == ApiInit /\ [][ApiNext]_allVars

\* Calls proceed or are cut short, the body of an upload arrives or times out;
\* clients call list or create again and again, and not every prune of theirs is
\* cut short; time passes.
ApiFairSpec ==
    /\ ApiSpec
    /\ \A f \in Files :
        /\ WF_vars(Ages(f) /\ UNCHANGED apiVars)
        /\ WF_allVars(UploadCallStep(f) /\ call[f] # "new")
    /\ \A d \in Deletes : WF_vars(DeleteStep(d) /\ del[d] # "new" /\ UNCHANGED apiVars)
    /\ []<><<\E p \in Prunes : PruneEnds(p)>>_vars

-----------------------------------------------------------------------------
(* Properties                                                              *)

ApiTypeOK ==
    /\ call \in [Files -> {"new", "receiving", "storing", "ended"}]
    /\ \A f \in Files : form[f].got \subseteq {"file", "purpose"}
    /\ phase \in [Reads -> {"new", "download", "streaming", "sizing", "loading",
                             "sent", "ended"}]
    /\ left \in [Reads -> SUBSET Files]
    /\ bytes \in [Reads -> 0..Limit]

\* No upstream is sent the name of a file that only the proxy knows, where it
\* looks for one, nor the content of a file the store could not give whole, nor
\* one in the place of another kind; whatever deletes and prunes do between the
\* size of a file, its row and its content.
SentWhole ==
    \A r \in Reads : phase[r] = "sent" =>
        /\ rd[r] = "opened" /\ LocalIds(refs[r]) = {}
        /\ \A i \in DOMAIN refs[r] : LET ref == refs[r][i] IN
            ref.form # "file" => Fits(ref, Mime[ref.file]) /\ (ref.type = "image" \/ ref.named)

\* What the store and the API have answered for stays true.
FilesKept == AnswersKept /\ ApiTypeOK /\ SentWhole

\* What a failed or abandoned call held is given back without a restart: rows,
\* temporary files, and the permit of an upload.
AllFreed ==
    /\ AbandonedFreed
    /\ \A f \in Files : UploadHeld(f) ~> ~UploadHeld(f)
=============================================================================

--------------------------- MODULE FilesApiProofs ---------------------------
(***************************************************************************)
(* Proofs about the file store and the API on top of it, for all files,    *)
(* calls, retentions, limits and any number of crashes.  What an answer    *)
(* promised is kept because every stage of a call knows where the content  *)
(* and the row of its file are, and because nobody else moves them: rows   *)
(* that are ready belong to no upload, rows that are being deleted to one  *)
(* delete at most, and a prune takes only what is old.                     *)
(***************************************************************************)
EXTENDS FilesApi, FiniteSetTheorems, TLAPS

\* Nothing runs beside reconcile: a call begins with the layout, and the end of
\* the process ends all calls.
CallsNeedLayout ==
    mode # "up" =>
        /\ \A f \in Files : ~Uploading(f)
        /\ \A d \in Deletes : ~Deleting(d) /\ del[d] # "found"
        /\ \A p \in Prunes : pr[p] = "idle"

\* Of an upload that has not begun there is nothing, and a row is ready only
\* when the upload is over.
RowsOfUploads ==
    \A f \in Files :
        /\ up[f] = "new" => /\ row[f] = "none" /\ loc[f] = "none" /\ disk[f] = "none"
                            /\ age[f] = "young" /\ f \notin slow
        /\ row[f] = "ready" => up[f] = "ended"

\* A prune selects only what is not young.
VictimsOld ==
    \A p \in Prunes :
        /\ \A f \in Files : f \in victims[p] \/ current[p] = f => age[f] # "young"
        /\ pr[p] # "files" => victims[p] = {} /\ current[p] = None

\* The content of an upload that is in time is where the upload left it.
UploadsWhole ==
    \A f \in Files : Uploading(f) /\ f \notin slow =>
        /\ age[f] = "young"
        /\ up[f] \in {"renamed", "synced"} => loc[f] = "bin"
        /\ up[f] = "synced" => disk[f] = "bin"

\* The file of a delete was uploaded and has no ready row until the delete is
\* over; its content and its row are as the delete left them.
DeletesOwn ==
    \A d \in Deletes :
        /\ del[d] = "found" => target[d] \in Files /\ up[target[d]] = "ended"
        /\ Deleting(d) => /\ target[d] \in Files /\ target[d] \in doomed
                          /\ up[target[d]] = "ended"
                          /\ row[target[d]] \in {"none", "deleting"}
        /\ del[d] \in {"moved", "synced", "unrowed"} => loc[target[d]] = "tomb"
        /\ del[d] \in {"synced", "unrowed", "emptied"} => disk[target[d]] \in {"none", "tomb"}
        /\ del[d] \in {"unrowed", "emptied"} => row[target[d]] = "none"
        /\ del[d] = "emptied" => loc[target[d]] = "none"

DeletesApart ==
    \A c, d \in Deletes : c # d /\ Deleting(c) /\ Deleting(d) => target[c] # target[d]

GoneForGood ==
    \A f \in gone : /\ up[f] = "ended" /\ row[f] = "none" /\ snap[f] = "none"
                    /\ loc[f] \in {"none", "tomb"} /\ disk[f] \in {"none", "tomb"}
                    /\ \A d \in Deletes : Deleting(d) => target[d] # f

\* What AckedUploadKept is about, and why nobody touches it.
Kept(f) == f \in acked \ (doomed \cup slow) /\ age[f] # "expired"
KeptWhole ==
    \A f \in Files : Kept(f) =>
        /\ row[f] = "ready" /\ loc[f] = "bin" /\ disk[f] = "bin"
        /\ \A p \in Prunes : f \notin victims[p] /\ current[p] # f
        /\ mode = "reconciling" => snap[f] = "ready" /\ fixing # f

\* A reader's file was uploaded, so no later answer to its upload makes a
\* reader wrong.
ReadersRight ==
    \A r \in Reads :
        /\ rd[r] \in {"found", "opened", "corrupt"} => target[r] \in Files /\ up[target[r]] = "ended"
        /\ rd[r] = "corrupt" => ~Kept(target[r])

\* Reconcile: entries looked at are settled, but for the one being mended.
Reconciled ==
    /\ mode = "reconciling" =>
        \A f \in Files :
            /\ f \in todo => row[f] = snap[f] /\ fixing # f
            /\ f \notin todo /\ fixing # f =>
                  \/ loc[f] = "none" /\ row[f] \in {snap[f], "none"}
                  \/ loc[f] = "bin" /\ row[f] = "ready"
            /\ fixing = f => /\ row[f] = snap[f]
                             /\ loc[f] = "none" \/ (loc[f] = "bin" /\ row[f] \in {"pending", "ready"})
    /\ mode # "reconciling" => fixing = None /\ snap = [f \in Files |-> "none"]

Held ==
    /\ CallsNeedLayout /\ RowsOfUploads /\ VictimsOld /\ UploadsWhole
    /\ DeletesOwn /\ DeletesApart /\ GoneForGood /\ KeptWhole /\ ReadersRight /\ Reconciled

IInv == TypeOK /\ Held

----------------------------------------------------------------------------
LEMMA InvInit == Init => IInv
<1>. SUFFICES ASSUME Init PROVE IInv OBVIOUS
<1>. USE FileStoreAssumption DEF Init, Uploading, Deleting
<1>1. TypeOK BY DEF TypeOK, RowStates, Places
<1>2. CallsNeedLayout /\ RowsOfUploads /\ VictimsOld /\ UploadsWhole
    BY DEF CallsNeedLayout, RowsOfUploads, VictimsOld, UploadsWhole
<1>3. DeletesOwn /\ DeletesApart /\ GoneForGood
    BY DEF DeletesOwn, DeletesApart, GoneForGood
<1>4. KeptWhole /\ ReadersRight /\ Reconciled
    BY DEF KeptWhole, ReadersRight, Reconciled, Kept
<1>. QED BY <1>1, <1>2, <1>3, <1>4 DEF IInv, Held

LEMMA TypeStep == IInv /\ [Next]_vars => TypeOK'
<1>. SUFFICES ASSUME TypeOK, DeletesOwn, [Next]_vars PROVE TypeOK' BY DEF IInv, Held
<1>. USE FileStoreAssumption
     DEF TypeOK, RowStates, Places, SetRow, Move, MarkReady, SyncDirectory, UpTo, DelTo,
         storeVars, bootVars, delVars, prVars, history
<1>1. ASSUME NEW f \in Files, UploadStep(f) PROVE TypeOK'
    BY <1>1 DEF UploadStep, ReserveMetadata, OpenTemp, RenameContent, SyncContent, WriteFails,
                Commit, CommitFails, UndoContent, UndoMetadata, CancelUpload
<1>2. ASSUME NEW d \in Deletes, DeleteStep(d) PROVE TypeOK'
    BY <1>2 DEF DeleteStep, FindToDelete, MarkDeleting, Entomb, DropMissing, SyncTomb, RemoveRow,
                Restore, Unmark, RemoveTomb, DeleteReturns, CancelDelete, DeletesOwn, Deleting
<1>3. ASSUME NEW r \in Reads, ReadStep(r) PROVE TypeOK'
    BY <1>3 DEF ReadStep, FindToRead, Open, EndRead
<1>4. ASSUME NEW p \in Prunes, PruneWorks(p) \/ PruneStops(p) PROVE TypeOK'
    BY <1>4 DEF PruneWorks, SelectVictims, RemoveContent, RemoveMetadata, RemoveTemps, PruneEnds,
                PruneStops
<1>5. CASE ReconcileWorks \/ ReconcileFails
    BY <1>5 DEF ReconcileWorks, Reconcile, ReconcileEntry, ReconcileRow, ReconcileEnds, ReconcileFails
<1>6. ASSUME NEW f \in Files, Ages(f) PROVE TypeOK' BY <1>6 DEF Ages
<1>7. CASE Stop BY <1>7 DEF Stop
<1>8. CASE UNCHANGED vars BY <1>8 DEF vars
<1>. QED BY <1>1, <1>2, <1>3, <1>4, <1>5, <1>6, <1>7, <1>8 DEF Next

\* What a step reads and writes, for the lemmas that go through the steps.
USE FileStoreAssumption
    DEF IInv, Held, TypeOK, CallsNeedLayout, RowsOfUploads, VictimsOld, UploadsWhole, DeletesOwn,
        DeletesApart, GoneForGood, KeptWhole, ReadersRight, Reconciled, Kept, Uploading, Deleting,
        storeVars, bootVars, delVars, prVars, history, SetRow, Move, MarkReady, SyncDirectory,
        UpTo, DelTo, Visible, Prunable

LEMMA UploadKeeps ==
    ASSUME IInv, NEW f \in Files, UploadStep(f)
    PROVE  Held'
<1>1. CASE ReserveMetadata(f) BY <1>1 DEF ReserveMetadata
<1>2. CASE OpenTemp(f) BY <1>2 DEF OpenTemp
<1>3. CASE RenameContent(f) BY <1>3 DEF RenameContent
<1>4. CASE SyncContent(f) BY <1>4 DEF SyncContent
<1>5. CASE WriteFails(f) BY <1>5 DEF WriteFails
<1>6. CASE Commit(f) BY <1>6 DEF Commit
<1>7. CASE CommitFails(f) BY <1>7 DEF CommitFails
<1>8. CASE UndoContent(f) BY <1>8 DEF UndoContent
<1>9. CASE UndoMetadata(f) BY <1>9 DEF UndoMetadata
<1>10. CASE CancelUpload(f) BY <1>10 DEF CancelUpload
<1>. QED BY <1>1, <1>2, <1>3, <1>4, <1>5, <1>6, <1>7, <1>8, <1>9, <1>10 DEF UploadStep

LEMMA DeleteKeeps ==
    ASSUME IInv, NEW d \in Deletes, DeleteStep(d)
    PROVE  Held'
<1>1. ASSUME NEW f \in Files, FindToDelete(d, f) PROVE Held' BY <1>1 DEF FindToDelete
<1>2. CASE MarkDeleting(d) BY <1>2 DEF MarkDeleting
<1>3. CASE Entomb(d) BY <1>3 DEF Entomb
<1>4. CASE DropMissing(d) BY <1>4 DEF DropMissing
<1>5. CASE SyncTomb(d) BY <1>5 DEF SyncTomb
<1>6. CASE RemoveRow(d) BY <1>6 DEF RemoveRow
<1>7. CASE Restore(d)
    <2>1. CASE loc[target[d]] = "tomb" /\ Move(target[d], "bin") /\ DelTo(d, "unmarking")
        BY <1>7, <2>1 DEF Restore
    <2>2. CASE DelTo(d, "ended") /\ UNCHANGED loc
        BY <1>7, <2>2 DEF Restore
    <2>. QED BY <1>7, <2>1, <2>2 DEF Restore
<1>8. CASE Unmark(d) BY <1>8 DEF Unmark
<1>9. CASE RemoveTomb(d) BY <1>9 DEF RemoveTomb
<1>10. CASE DeleteReturns(d) BY <1>10 DEF DeleteReturns
<1>11. CASE CancelDelete(d) BY <1>11 DEF CancelDelete
<1>. QED BY <1>1, <1>2, <1>3, <1>4, <1>5, <1>6, <1>7, <1>8, <1>9, <1>10, <1>11 DEF DeleteStep

LEMMA ReadKeeps ==
    ASSUME IInv, NEW r \in Reads, ReadStep(r)
    PROVE  Held'
<1>1. ASSUME NEW f \in Files, FindToRead(r, f) PROVE Held' BY <1>1 DEF FindToRead
<1>2. CASE Open(r) BY <1>2 DEF Open
<1>3. CASE EndRead(r) BY <1>3 DEF EndRead
<1>. QED BY <1>1, <1>2, <1>3 DEF ReadStep

LEMMA PruneKeeps ==
    ASSUME IInv, NEW p \in Prunes, PruneWorks(p) \/ PruneStops(p)
    PROVE  Held'
<1>1. CASE SelectVictims(p) BY <1>1 DEF SelectVictims
<1>2. ASSUME NEW f \in Files, RemoveContent(p, f) PROVE Held' BY SMTT(20), <1>2 DEF RemoveContent
<1>3. CASE RemoveMetadata(p) BY <1>3 DEF RemoveMetadata
<1>4. CASE RemoveTemps(p) BY <1>4 DEF RemoveTemps
<1>5. CASE PruneEnds(p) BY <1>5 DEF PruneEnds
<1>6. CASE PruneStops(p) BY <1>6 DEF PruneStops
<1>. QED BY <1>1, <1>2, <1>3, <1>4, <1>5, <1>6 DEF PruneWorks

LEMMA ReconcileKeeps ==
    ASSUME IInv, ReconcileWorks \/ ReconcileFails
    PROVE  Held'
<1>1. CASE Reconcile BY <1>1 DEF Reconcile
<1>2. ASSUME NEW f \in Files, ReconcileEntry(f) PROVE Held' BY <1>2 DEF ReconcileEntry
<1>3. CASE ReconcileRow BY <1>3 DEF ReconcileRow
<1>4. CASE ReconcileEnds BY <1>4 DEF ReconcileEnds
<1>5. CASE ReconcileFails BY <1>5 DEF ReconcileFails
<1>. QED BY <1>1, <1>2, <1>3, <1>4, <1>5 DEF ReconcileWorks

LEMMA TimeKeeps ==
    ASSUME IInv, (\E f \in Files : Ages(f)) \/ Stop \/ UNCHANGED vars
    PROVE  Held'
<1>1. ASSUME NEW f \in Files, Ages(f) PROVE Held' BY <1>1 DEF Ages
<1>2. CASE Stop BY <1>2 DEF Stop
<1>3. CASE UNCHANGED vars BY <1>3 DEF vars
<1>. QED BY <1>1, <1>2, <1>3

HIDE FileStoreAssumption
    DEF IInv, Held, TypeOK, CallsNeedLayout, RowsOfUploads, VictimsOld, UploadsWhole, DeletesOwn,
        DeletesApart, GoneForGood, KeptWhole, ReadersRight, Reconciled, Kept, Uploading, Deleting,
        storeVars, bootVars, delVars, prVars, history, SetRow, Move, MarkReady, SyncDirectory,
        UpTo, DelTo, Visible, Prunable

LEMMA InvStep == IInv /\ [Next]_vars => IInv'
<1>. SUFFICES ASSUME IInv, [Next]_vars PROVE Held'
    BY TypeStep DEF IInv
<1>1. CASE Next
    BY <1>1, UploadKeeps, DeleteKeeps, ReadKeeps, PruneKeeps, ReconcileKeeps, TimeKeeps DEF Next
<1>2. CASE UNCHANGED vars BY <1>2, TimeKeeps
<1>. QED BY <1>1, <1>2

LEMMA IInvAlways == Spec => []IInv
<1>. QED BY InvInit, InvStep, PTL DEF Spec

LEMMA InvMeans == IInv => AnswersKept
<1>. SUFFICES ASSUME IInv PROVE AnswersKept OBVIOUS
<1>1. CorruptIsRemoved
    BY DEF IInv, Held, ReadersRight, Kept, CorruptIsRemoved, TypeOK
<1>2. AckedUploadKept
    BY <1>1 DEF IInv, Held, KeptWhole, Kept, AckedUploadKept, TypeOK
<1>3. DeletesFinal
    BY DEF IInv, Held, GoneForGood, DeletesApart, DeletesFinal, TypeOK
<1>. QED BY <1>2, <1>3 DEF AnswersKept

\* Through every failure, crash and power loss the store keeps what it has
\* answered for: uploads until they are deleted or expire, deletes for good
\* (FileStore::create, delete, read, prune_expired, reconcile).
THEOREM AnswersKeptAlways == Spec => []AnswersKept
<1>. QED BY IInvAlways, InvMeans, PTL

LEMMA SettlesStep ==
    IInv /\ [Next]_vars =>
        [mode = "reconciling" /\ mode' = "up" =>
            \A f \in Files : /\ row'[f] \in {"none", "ready"}
                             /\ loc'[f] \in {"none", "bin"}
                             /\ loc'[f] = "bin" => row'[f] = "ready"]_vars
<1>. SUFFICES ASSUME IInv, Next, mode = "reconciling", mode' = "up", NEW f \in Files
              PROVE  /\ row'[f] \in {"none", "ready"}
                     /\ loc'[f] \in {"none", "bin"}
                     /\ loc'[f] = "bin" => row'[f] = "ready"
    OBVIOUS
<1>1. ReconcileEnds
    BY DEF Next, UploadStep, DeleteStep, ReadStep, PruneWorks, ReconcileWorks, bootVars,
           ReserveMetadata, OpenTemp, RenameContent, SyncContent, WriteFails, Commit, CommitFails,
           UndoContent, UndoMetadata, CancelUpload, FindToDelete, MarkDeleting, Entomb, DropMissing,
           SyncTomb, RemoveRow, Restore, Unmark, RemoveTomb, DeleteReturns, CancelDelete,
           FindToRead, Open, EndRead, SelectVictims, RemoveContent, RemoveMetadata, RemoveTemps,
           PruneEnds, PruneStops, Reconcile, ReconcileEntry, ReconcileRow, ReconcileFails, Ages, Stop
<1>. QED BY <1>1, FileStoreAssumption DEF ReconcileEnds, IInv, Held, Reconciled, TypeOK, RowStates, Places

\* When a restart is over, every file is whole or gone: there is no row without
\* content that says otherwise, and no content without a row (reconcile).
THEOREM RestartSettlesAlways == Spec => RestartSettles
<1>. QED BY IInvAlways, SettlesStep, PTL DEF Spec, RestartSettles

----------------------------------------------------------------------------
(* The API implements the store: whatever it does is a step of the store or *)
(* none.                                                                    *)

LEMMA ApiImplements == ApiNext => [Next]_vars
<1>. SUFFICES ASSUME ApiNext PROVE [Next]_vars OBVIOUS
<1>1. ASSUME NEW f \in Files, UploadCallStep(f) PROVE [Next]_vars
    BY <1>1 DEF UploadCallStep, StartUpload, ReadField, UploadRefused, FormRead, StoreUpload, Next
<1>2. ASSUME NEW r \in Reads, ReaderStep(r) PROVE (ReadStep(r) \/ UNCHANGED vars)
    BY <1>2 DEF ReaderStep, StartDownload, NotFound, AddSize, Find, StartRequest, Load, Expand,
                ExpansionRefused, EndCall, Ended, ReadStep
<1>3. CASE ApiStop BY <1>3 DEF ApiStop, Next
<1>. QED BY <1>1, <1>2, <1>3 DEF ApiNext, Next

\* Uploads, downloads and requests that refer to files use the store only as
\* its own calls do (upload_file, download_file, materialize_files).
THEOREM ApiImplementsStore == ApiSpec => Spec
<1>1. ApiInit => Init BY DEF ApiInit
<1>2. [ApiNext]_allVars => [Next]_vars BY ApiImplements DEF allVars, vars
<1>. QED BY <1>1, <1>2, PTL DEF ApiSpec, Spec

----------------------------------------------------------------------------
(* The API itself.                                                          *)

\* What is being sized or loaded is a request as it came; only what has been
\* sent is rewritten.
AsItCame == \A r \in Reads : phase[r] \in {"sizing", "loading"} => refs[r] \in Requests

\* What ApiTypeOK leaves open, for the steps that change one entry.
Shaped ==
    /\ form \in [Files -> [protocol : {"openai", "anthropic"}, got : SUBSET {"file", "purpose"}]]
    /\ refs = [r \in Reads |-> refs[r]]

ApiInv == ApiTypeOK /\ SentWhole /\ AsItCame /\ Shaped

LEMMA ReferenceOfRequest ==
    ASSUME NEW request \in Requests, NEW i \in DOMAIN request
    PROVE  request[i] \in References
<1>1. \A S : \A s \in Seq(S) : \A j \in DOMAIN s : s[j] \in S OBVIOUS
<1>2. request \in Seq(References) BY FilesApiAssumption
<1>. QED BY <1>1, <1>2

\* How often a request refers to a file is a number, so that sizes add up.
LEMMA CountIsNat ==
    ASSUME NEW request \in Requests, NEW f \in Files
    PROVE  Count(request, f) \in Nat
<1>1. request \in Seq(References) BY FilesApiAssumption
<1>2. Len(request) \in Nat /\ DOMAIN request = 1..Len(request)
    BY <1>1
<1>3. IsFiniteSet(1..Len(request)) BY <1>2, FS_Interval
<1>. DEFINE found == {i \in DOMAIN request : Local(request[i]) /\ request[i].file = f}
<1>4. IsFiniteSet(found) BY <1>2, <1>3, FS_Subset
<1>. QED BY <1>4, FS_CardinalityType DEF Count

\* The files that a request refers to are files of the store.
LEMMA LocalIdsAreFiles ==
    ASSUME NEW request \in Requests
    PROVE  LocalIds(request) \subseteq Files
<1>. QED BY ReferenceOfRequest DEF LocalIds, Local, References

\* Expansion leaves nothing to look up, and puts in the place of a reference only
\* what may stand there (rewrite_anthropic_block, materialize_responses_file_references).
LEMMA ExpansionWhole ==
    ASSUME NEW request \in Requests, Expandable(request, Mime)
    PROVE  LET sent == Expanded(request, Mime) IN
           /\ LocalIds(sent) = {}
           /\ \A i \in DOMAIN sent :
                sent[i].form # "file" => /\ Fits(sent[i], Mime[sent[i].file])
                                         /\ sent[i].type = "image" \/ sent[i].named
<1>. DEFINE sent == Expanded(request, Mime)
<1>2. ASSUME NEW i \in DOMAIN request
      PROVE  /\ sent[i].form = "file" => ~Local(sent[i])
             /\ sent[i].form # "file" => /\ Fits(sent[i], Mime[sent[i].file])
                                         /\ sent[i].type = "image" \/ sent[i].named
    <2>1. request[i] \in References BY ReferenceOfRequest
    <2>2. CASE ~Local(request[i])
        BY <2>1, <2>2 DEF Expanded, References
    <2>3. CASE Local(request[i])
        <3>1. sent[i] = Inline(request[i], Mime[request[i].file]) BY <2>3 DEF Expanded
        <3>2. /\ sent[i].form \in {"data url", "text", "base64"}
              /\ sent[i].type = request[i].type /\ sent[i].file = request[i].file
              /\ sent[i].named = (request[i].named \/ request[i].type \in {"document", "file"})
            BY <2>1, <3>1 DEF Inline, References
        <3>3. Fits(request[i], Mime[request[i].file]) BY <2>3 DEF Expandable
        <3>. QED BY <2>1, <3>2, <3>3 DEF Fits, References, Local
    <2>. QED BY <2>2, <2>3
<1>3. DOMAIN sent = DOMAIN request BY DEF Expanded
<1>4. LocalIds(sent) = {} BY <1>2, <1>3 DEF LocalIds, Local
<1>. QED BY <1>2, <1>3, <1>4

LEMMA ApiInvInit == ApiInit => ApiInv
<1>. SUFFICES ASSUME ApiInit PROVE ApiInv OBVIOUS
<1>0. Limit \in Nat BY FilesApiAssumption
<1>1. ApiTypeOK
    <2>1. bytes \in [Reads -> 0..Limit] BY <1>0 DEF ApiInit
    <2>. QED BY <2>1 DEF ApiInit, ApiTypeOK, NoForm
<1>2. SentWhole /\ AsItCame BY DEF ApiInit, SentWhole, AsItCame
<1>3. Shaped BY DEF ApiInit, Shaped, NoForm
<1>. QED BY <1>1, <1>2, <1>3 DEF ApiInv

\* The steps of an upload request touch neither readers nor what they read.
LEMMA UploadCallKeeps ==
    ASSUME IInv, ApiInv, NEW f \in Files, UploadCallStep(f)
    PROVE  ApiInv'
<1>. USE DEF ApiInv, Shaped, ApiTypeOK, NoForm, readerVars, apiVars
<1>1. UNCHANGED <<readerVars, rd>>
    BY DEF UploadCallStep, StartUpload, ReadField, UploadRefused, FormRead, StoreUpload, vars,
           UploadStep, ReserveMetadata, OpenTemp, RenameContent, SyncContent, WriteFails, Commit,
           CommitFails, UndoContent, UndoMetadata, CancelUpload
<1>2. /\ call' \in [Files -> {"new", "receiving", "storing", "ended"}]
      /\ form' \in [Files -> [protocol : {"openai", "anthropic"}, got : SUBSET {"file", "purpose"}]]
    BY SMTT(20) DEF UploadCallStep, StartUpload, ReadField, UploadRefused, FormRead, StoreUpload
<1>3. SentWhole' /\ AsItCame' BY <1>1 DEF SentWhole, AsItCame
<1>. QED BY <1>1, <1>2, <1>3

LEMMA ReaderKeeps ==
    ASSUME IInv, ApiInv, NEW r \in Reads, ReaderStep(r)
    PROVE  ApiInv'
<1>. USE DEF IInv, TypeOK, ApiInv, Shaped, ApiTypeOK, AsItCame, SentWhole, uploadVars, readerVars, apiVars, To
<1>0. Limit \in Nat BY FilesApiAssumption
<1>1. ASSUME Ended(r), UNCHANGED uploadVars PROVE ApiInv'
    <2>1. ApiTypeOK' BY <1>0, <1>1 DEF Ended, EndRead
    <2>2. SentWhole' BY <1>0, <1>1 DEF Ended, EndRead
    <2>3. AsItCame' BY <1>0, <1>1 DEF Ended, EndRead
    <2>4. Shaped' BY ZenonT(40), <1>0, <1>1 DEF Ended, EndRead
    <2>. QED BY <2>1, <2>2, <2>3, <2>4
<1>2. ASSUME NEW f \in Files, StartDownload(r, f) PROVE ApiInv'
    <2>1. CASE Ended(r) BY <1>1, <1>2, <2>1 DEF StartDownload
    <2>2. CASE FindToRead(r, f) /\ To(r, "download") /\ UNCHANGED <<refs, left, bytes>>
        <3>. UNCHANGED uploadVars BY <1>2 DEF StartDownload
        <3>1. ApiTypeOK' BY <2>2
        <3>2. SentWhole' BY <2>2 DEF FindToRead
        <3>3. AsItCame' BY <2>2
        <3>. QED BY <2>2, <3>1, <3>2, <3>3
    <2>. QED BY <1>2, <2>1, <2>2 DEF StartDownload
<1>3. ASSUME NEW f \in Files, NotFound(r, f) PROVE ApiInv'
    BY <1>1, <1>3 DEF NotFound
<1>4. ASSUME NEW f \in Files, AddSize(r, f) PROVE ApiInv'
    <2>. DEFINE total == bytes[r] + Count(refs[r], f) * Encoded[f]
    <2>1. refs[r] \in Requests BY <1>4 DEF AddSize
    <2>2. total \in Nat
        <3>1. Count(refs[r], f) \in Nat BY <2>1, CountIsNat
        <3>2. Encoded[f] \in Nat BY ZenonT(40), FilesApiAssumption
        <3>3. bytes[r] \in Nat BY <1>0
        <3>. HIDE DEF IInv, TypeOK, ApiInv, ApiTypeOK
        <3>. QED BY <3>1, <3>2, <3>3
    <2>3. LocalIds(refs[r]) \subseteq Files BY <2>1, LocalIdsAreFiles
    <2>. HIDE DEF total
    <2>4. CASE total > Limit BY <1>1, <1>4, <2>4 DEF AddSize, total
    <2>5. CASE ~(total > Limit)
        <3>1. /\ bytes' = [bytes EXCEPT ![r] = IF left[r] \ {f} = {} THEN 0 ELSE total]
              /\ left' = [left EXCEPT ![r] = IF left[r] \ {f} = {} THEN LocalIds(refs[r]) ELSE left[r] \ {f}]
              /\ To(r, IF left[r] \ {f} = {} THEN "loading" ELSE "sizing")
              /\ UNCHANGED <<vars, refs, uploadVars>>
            BY <1>4, <2>5 DEF AddSize, total
        <3>2. bytes' \in [Reads -> 0..Limit] BY <1>0, <2>2, <2>5, <3>1
        <3>3. left' \in [Reads -> SUBSET Files] BY <2>3, <3>1
        <3>4. ApiTypeOK' BY <3>1, <3>2, <3>3
        <3>5. SentWhole' BY <3>1 DEF vars
        <3>6. AsItCame' BY <2>1, <3>1
        <3>. QED BY <3>1, <3>4, <3>5, <3>6
    <2>. QED BY <2>4, <2>5
<1>5. ASSUME NEW f \in Files, Find(r, f) PROVE ApiInv'
    BY <1>5 DEF Find, FindToRead
<1>6. ASSUME NEW request \in Requests, StartRequest(r, request) PROVE ApiInv'
    <2>1. ApiTypeOK' BY <1>6, LocalIdsAreFiles DEF StartRequest, vars
    <2>2. SentWhole' BY <1>6, LocalIdsAreFiles DEF StartRequest, vars
    <2>3. AsItCame' BY <1>6, LocalIdsAreFiles DEF StartRequest, vars
    <2>4. Shaped' BY ZenonT(40), <1>6, LocalIdsAreFiles DEF StartRequest, vars
    <2>. QED BY <2>1, <2>2, <2>3, <2>4
<1>7. CASE Load(r)
    <2>0. phase' \in {phase, [phase EXCEPT ![r] = "streaming"]}
        BY <1>7 DEF Load
    <2>1. ApiTypeOK'
        <3>1. left' \in [Reads -> SUBSET Files] BY <1>7 DEF Load
        <3>2. UNCHANGED <<uploadVars, bytes>> BY <1>7 DEF Load
        <3>. QED BY ZenonT(40), <2>0, <3>1, <3>2
    <2>2. SentWhole' BY <1>7 DEF Load, Open
    <2>3. AsItCame' BY <1>7 DEF Load, Open
    <2>4. Shaped' BY <1>7 DEF Load, Open
    <2>. QED BY <2>1, <2>2, <2>3, <2>4
<1>8. CASE Expand(r)
    <2>1. ApiTypeOK' BY <1>8, ExpansionWhole DEF Expand, Complete, Open
    <2>2. SentWhole' BY <1>8, ExpansionWhole DEF Expand, Complete, Open
    <2>3. AsItCame' BY <1>8, ExpansionWhole DEF Expand, Complete, Open
    <2>4. Shaped' BY <1>8, ExpansionWhole DEF Expand, Complete, Open
    <2>. QED BY <2>1, <2>2, <2>3, <2>4
<1>9. CASE ExpansionRefused(r) \/ EndCall(r)
    BY <1>1, <1>9 DEF ExpansionRefused, EndCall
<1>. QED BY <1>2, <1>3, <1>4, <1>5, <1>6, <1>7, <1>8, <1>9 DEF ReaderStep

LEMMA ApiInvStep == IInv /\ ApiInv /\ [ApiNext]_allVars => ApiInv'
<1>. SUFFICES ASSUME IInv, ApiInv, [ApiNext]_allVars PROVE ApiInv' OBVIOUS
<1>0. Limit \in Nat BY FilesApiAssumption
<1>1. CASE ApiStop
    BY <1>0, <1>1
    DEF ApiStop, Stop, IInv, TypeOK, ApiInv, Shaped, ApiTypeOK, SentWhole, AsItCame, NoForm
<1>2. ASSUME UNCHANGED <<rd, apiVars>> PROVE ApiInv'
    BY <1>2 DEF ApiInv, Shaped, ApiTypeOK, SentWhole, AsItCame, apiVars
<1>3. ASSUME NEW d \in Deletes, DeleteStep(d) PROVE UNCHANGED rd
    BY <1>3 DEF DeleteStep, FindToDelete, MarkDeleting, Entomb, DropMissing, SyncTomb, RemoveRow,
                Restore, Unmark, RemoveTomb, DeleteReturns, CancelDelete
<1>4. ASSUME NEW p \in Prunes, PruneWorks(p) \/ PruneStops(p) PROVE UNCHANGED rd
    BY <1>4 DEF PruneWorks, PruneStops, SelectVictims, RemoveContent, RemoveMetadata, RemoveTemps, PruneEnds
<1>5. ReconcileWorks \/ ReconcileFails => UNCHANGED rd
    BY DEF ReconcileWorks, ReconcileFails, Reconcile, ReconcileEntry, ReconcileRow, ReconcileEnds
<1>6. ASSUME NEW f \in Files, Ages(f) PROVE UNCHANGED rd
    BY <1>6 DEF Ages
<1>7. CASE UNCHANGED allVars
    BY <1>2, <1>7 DEF allVars, vars
<1>. QED BY <1>1, <1>2, <1>3, <1>4, <1>5, <1>6, <1>7, UploadCallKeeps, ReaderKeeps DEF ApiNext

\* The API keeps what the store has answered for, and sends no request before
\* every file it refers to is in it, whole and of the right kind, whatever
\* deletes and prunes do in between (load_files).
THEOREM FilesKeptAlways == ApiSpec => []FilesKept
<1>1. ApiSpec => []IInv BY ApiImplementsStore, IInvAlways, PTL
<1>2. ApiSpec => []ApiInv
    BY <1>1, ApiInvInit, ApiInvStep, PTL DEF ApiSpec
<1>3. IInv /\ ApiInv => FilesKept BY InvMeans DEF FilesKept, ApiInv
<1>. QED BY <1>1, <1>2, <1>3, PTL

============================================================================

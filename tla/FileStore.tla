----------------------------- MODULE FileStore -----------------------------
(***************************************************************************)
(* The local Files API store: src/src/libs/file_store.rs.  A file is a row *)
(* of metadata.sqlite3 and its content in data/, which are changed one     *)
(* after the other by concurrent uploads, deletes, reads and prunes, any   *)
(* of which ends at an await when its client goes away, and all of which   *)
(* end when the process does.  reconcile mends what is left at the next    *)
(* start.                                                                  *)
(*                                                                         *)
(* A row transaction is atomic and durable (synchronous = FULL).  Content  *)
(* is moved by renames, so it is at one place: loc.  A directory change is *)
(* durable once the directory is synced: disk is the place that survives a *)
(* power loss for certain.  All files here belong to one owner.            *)
(***************************************************************************)
EXTENDS Naturals, FiniteSets

CONSTANTS Files,     \* ids; each is the id of one upload
          Deletes,   \* calls of delete
          Reads,     \* calls of read or open_content
          Prunes,    \* calls of prune_expired, by create and by list
          Expiring,  \* the uploads made while a retention is configured
          MaxFiles,  \* max_owner_files
          MaxStops,  \* bound: how often the process ends
          MayFail,   \* whether file operations may fail
          None

ASSUME FileStoreAssumption ==
    /\ IsFiniteSet(Files) /\ None \notin Files /\ Expiring \subseteq Files
    /\ Deletes \cap Reads = {}
    /\ MaxFiles \in Nat /\ MaxStops \in Nat /\ MayFail \in BOOLEAN

VARIABLES
    row,      \* the state column, "none" without a row
    age,      \* created_at against STALE_LIFECYCLE_SECONDS and expires_at
    loc,      \* where the content is
    disk,     \* where it surely is after a power loss
    mode,     \* whether ensure_layout has completed in this process
    snap,     \* reconcile: the states it read
    todo,     \* reconcile: directory entries not looked at
    fixing,   \* reconcile: the entry whose row is still to be changed
    up,       \* each upload
    del,      \* each delete
    target,   \* the file of each delete and read
    rd,       \* each read
    pr,       \* each prune
    victims,  \* the ids each prune has selected
    current,  \* the id whose row the prune removes next
    stops,    \* how often the process has ended
    acked,    \* history: uploads answered with success
    doomed,   \* history: files a delete has marked
    gone,     \* history: deletes answered with success
    slow      \* history: uploads at work for STALE_LIFECYCLE_SECONDS

storeVars == <<row, loc, disk>>
bootVars == <<mode, snap, todo, fixing, stops>>
delVars == <<del, target>>
prVars == <<pr, victims, current>>
history == <<acked, doomed, gone, slow>>
vars == <<row, age, loc, disk, mode, snap, todo, fixing, up, del, target, rd,
          pr, victims, current, stops, acked, doomed, gone, slow>>

RowStates == {"none", "pending", "ready", "deleting"}
Places == {"none", "tmp", "bin", "tomb"}

\* The upload is between its reservation and its answer.
Uploading(f) == up[f] \in {"reserved", "writing", "renamed", "synced", "undoing", "unrowing"}

\* The delete owns the file that it has marked.
Deleting(d) == del[d] \in {"marked", "moved", "synced", "restoring", "unmarking",
                           "missing", "unrowed", "emptied"}

TypeOK ==
    /\ row \in [Files -> RowStates]
    /\ age \in [Files -> {"young", "stale", "expired"}]
    /\ loc \in [Files -> Places] /\ disk \in [Files -> Places]
    /\ mode \in {"down", "reconciling", "up"}
    /\ snap \in [Files -> RowStates]
    /\ todo \subseteq Files /\ fixing \in Files \cup {None}
    /\ up \in [Files -> {"new", "reserved", "writing", "renamed", "synced",
                         "undoing", "unrowing", "ended"}]
    /\ del \in [Deletes -> {"new", "found", "marked", "moved", "synced", "restoring",
                            "unmarking", "missing", "unrowed", "emptied", "ended"}]
    /\ target \in [Deletes \cup Reads -> Files \cup {None}]
    /\ rd \in [Reads -> {"new", "found", "opened", "corrupt", "ended"}]
    /\ pr \in [Prunes -> {"idle", "files", "temps"}]
    /\ victims \in [Prunes -> SUBSET Files]
    /\ current \in [Prunes -> Files \cup {None}]
    /\ stops \in 0..MaxStops
    /\ acked \subseteq Files /\ doomed \subseteq Files /\ gone \subseteq Files
    /\ slow \subseteq Files

Init ==
    /\ row = [f \in Files |-> "none"]
    /\ age = [f \in Files |-> "young"]
    /\ loc = [f \in Files |-> "none"]
    /\ disk = loc
    /\ mode = "down"
    /\ snap = row
    /\ todo = {} /\ fixing = None
    /\ up = [f \in Files |-> "new"]
    /\ del = [d \in Deletes |-> "new"]
    /\ target = [t \in Deletes \cup Reads |-> None]
    /\ rd = [r \in Reads |-> "new"]
    /\ pr = [p \in Prunes |-> "idle"]
    /\ victims = [p \in Prunes |-> {}]
    /\ current = [p \in Prunes |-> None]
    /\ stops = 0
    /\ acked = {} /\ doomed = {} /\ gone = {} /\ slow = {}

SetRow(f, state) == row' = [row EXCEPT ![f] = state]
Move(f, place) == loc' = [loc EXCEPT ![f] = place]

\* mark_metadata_ready: whatever state the row is in, if there is one.
MarkReady(f) == SetRow(f, IF row[f] = "none" THEN "none" ELSE "ready")

SyncDirectory == disk' = loc

----------------------------------------------------------------------------
(* create, after its prune                                                 *)

UpTo(f, stage) == up' = [up EXCEPT ![f] = stage]

\* The quota counts the rows in every state, in the transaction that inserts.
ReserveMetadata(f) ==
    /\ mode = "up" /\ up[f] = "new"
    /\ Cardinality({g \in Files : row[g] # "none"}) + 1 <= MaxFiles
    /\ SetRow(f, "pending")
    /\ UpTo(f, "reserved")
    /\ UNCHANGED <<age, loc, disk, bootVars, delVars, rd, prVars, history>>

OpenTemp(f) ==
    /\ up[f] = "reserved"
    /\ Move(f, "tmp")
    /\ UpTo(f, "writing")
    /\ UNCHANGED <<row, age, disk, bootVars, delVars, rd, prVars, history>>

\* Mutant of RenameContent: the directory is not synced before the commit.
RenameUnsynced(f) ==
    /\ up[f] = "writing" /\ loc[f] = "tmp"
    /\ Move(f, "bin")
    /\ UpTo(f, "synced")
    /\ UNCHANGED <<row, age, disk, bootVars, delVars, rd, prVars, history>>

\* The written and synced content takes its final name, unless a prune took
\* the temporary file.
RenameContent(f) ==
    /\ up[f] = "writing"
    /\ loc[f] = "tmp"
    /\ Move(f, "bin")
    /\ UpTo(f, "renamed")
    /\ UNCHANGED <<row, age, disk, bootVars, delVars, rd, prVars, history>>

SyncContent(f) ==
    /\ up[f] = "renamed"
    /\ SyncDirectory
    /\ UpTo(f, "synced")
    /\ UNCHANGED <<row, age, loc, bootVars, delVars, rd, prVars, history>>

WriteFails(f) ==
    /\ \/ MayFail /\ up[f] \in {"reserved", "writing", "renamed"}
       \/ up[f] = "writing" /\ loc[f] # "tmp"
    /\ UpTo(f, "undoing")
    /\ UNCHANGED <<storeVars, age, bootVars, delVars, rd, prVars, history>>

Commit(f) ==
    /\ up[f] = "synced"
    /\ row[f] # "none"
    /\ MarkReady(f)
    /\ UpTo(f, "ended")
    /\ acked' = acked \cup {f}
    /\ UNCHANGED <<age, loc, disk, bootVars, delVars, rd, prVars, doomed, gone, slow>>

CommitFails(f) ==
    /\ up[f] = "synced"
    /\ row[f] = "none" \/ MayFail
    /\ UpTo(f, "undoing")
    /\ UNCHANGED <<storeVars, age, bootVars, delVars, rd, prVars, history>>

\* What an error leaves is removed: content first, then the row.  Neither
\* removal is insisted on.
UndoContent(f) ==
    /\ up[f] = "undoing"
    /\ \/ loc' = [loc EXCEPT ![f] = IF @ \in {"tmp", "bin"} THEN "none" ELSE @]
       \/ MayFail /\ UNCHANGED loc
    /\ UpTo(f, "unrowing")
    /\ UNCHANGED <<row, age, disk, bootVars, delVars, rd, prVars, history>>

UndoMetadata(f) ==
    /\ up[f] = "unrowing"
    /\ SetRow(f, "none") \/ (MayFail /\ UNCHANGED row)
    /\ UpTo(f, "ended")
    /\ UNCHANGED <<age, loc, disk, bootVars, delVars, rd, prVars, history>>

CancelUpload(f) ==
    /\ Uploading(f)
    /\ UpTo(f, "ended")
    /\ UNCHANGED <<storeVars, age, bootVars, delVars, rd, prVars, history>>

----------------------------------------------------------------------------
(* metadata, read and open_content, delete                                 *)

Visible(f) == row[f] = "ready" /\ age[f] # "expired"

\* A request that needs several files reads one after the other.
FindToRead(r, f) ==
    /\ mode = "up" /\ rd[r] \in {"new", "opened"}
    /\ Visible(f)
    /\ rd' = [rd EXCEPT ![r] = "found"]
    /\ target' = [target EXCEPT ![r] = f]
    /\ UNCHANGED <<storeVars, age, bootVars, up, del, prVars, history>>

Open(r) ==
    /\ rd[r] = "found"
    /\ rd' = [rd EXCEPT ![r] = IF loc[target[r]] = "bin" THEN "opened" ELSE "corrupt"]
    /\ UNCHANGED <<storeVars, age, bootVars, up, delVars, prVars, history>>

\* The answer is given, or the client has gone away.
EndRead(r) ==
    /\ rd[r] # "ended"
    /\ rd' = [rd EXCEPT ![r] = "ended"]
    /\ target' = [target EXCEPT ![r] = None]
    /\ UNCHANGED <<storeVars, age, bootVars, up, del, prVars, history>>

DelTo(d, stage) == del' = [del EXCEPT ![d] = stage]

FindToDelete(d, f) ==
    /\ mode = "up" /\ del[d] = "new"
    /\ Visible(f)
    /\ DelTo(d, "found")
    /\ target' = [target EXCEPT ![d] = f]
    /\ UNCHANGED <<storeVars, age, bootVars, up, rd, prVars, history>>

\* mark_metadata_deleting: only a row that is still ready.
MarkDeleting(d) ==
    LET f == target[d] IN
    /\ del[d] = "found"
    /\ IF row[f] = "ready"
         THEN SetRow(f, "deleting") /\ doomed' = doomed \cup {f} /\ DelTo(d, "marked")
         ELSE DelTo(d, "ended") /\ UNCHANGED <<row, doomed>>
    /\ UNCHANGED <<age, loc, disk, bootVars, up, target, rd, prVars, acked, gone, slow>>

Entomb(d) ==
    LET f == target[d] IN
    /\ del[d] = "marked"
    /\ \/ loc[f] = "bin" /\ Move(f, "tomb") /\ DelTo(d, "moved")
       \/ loc[f] # "bin" /\ DelTo(d, "missing") /\ UNCHANGED loc
       \/ MayFail /\ DelTo(d, "unmarking") /\ UNCHANGED loc
    /\ UNCHANGED <<row, age, disk, bootVars, up, target, rd, prVars, history>>

\* Without content the row goes and the answer is Corrupt.
DropMissing(d) ==
    /\ del[d] = "missing"
    /\ SetRow(target[d], "none") \/ (MayFail /\ UNCHANGED row)
    /\ DelTo(d, "ended")
    /\ UNCHANGED <<age, loc, disk, bootVars, up, target, rd, prVars, history>>

\* A failed sync ends the call and leaves a marked row and a tombstone.
SyncTomb(d) ==
    /\ del[d] = "moved"
    /\ \/ SyncDirectory /\ DelTo(d, "synced")
       \/ MayFail /\ DelTo(d, "ended") /\ UNCHANGED disk
    /\ UNCHANGED <<row, age, loc, bootVars, up, target, rd, prVars, history>>

RemoveRow(d) ==
    /\ del[d] = "synced"
    /\ \/ SetRow(target[d], "none") /\ DelTo(d, "unrowed")
       \/ MayFail /\ DelTo(d, "restoring") /\ UNCHANGED row
    /\ UNCHANGED <<age, loc, disk, bootVars, up, target, rd, prVars, history>>

Restore(d) ==
    /\ del[d] = "restoring"
    /\ \/ loc[target[d]] = "tomb" /\ Move(target[d], "bin") /\ DelTo(d, "unmarking")
       \/ DelTo(d, "ended") /\ UNCHANGED loc
    /\ UNCHANGED <<row, age, disk, bootVars, up, target, rd, prVars, history>>

\* The directory is synced, if it can be, and the row made ready again.
Unmark(d) ==
    /\ del[d] = "unmarking"
    /\ SyncDirectory \/ UNCHANGED disk
    /\ MarkReady(target[d]) \/ UNCHANGED row
    /\ DelTo(d, "ended")
    /\ UNCHANGED <<age, loc, bootVars, up, target, rd, prVars, history>>

RemoveTomb(d) ==
    LET f == target[d] IN
    /\ del[d] = "unrowed"
    /\ \/ loc[f] = "tomb" /\ Move(f, "none") /\ DelTo(d, "emptied") /\ UNCHANGED gone
       \/ /\ MayFail \/ loc[f] # "tomb"
          /\ DelTo(d, "ended") /\ gone' = gone \cup {f} /\ UNCHANGED loc
    /\ UNCHANGED <<row, age, disk, bootVars, up, target, rd, prVars, acked, doomed, slow>>

DeleteReturns(d) ==
    /\ del[d] = "emptied"
    /\ \/ SyncDirectory /\ gone' = gone \cup {target[d]}
       \/ MayFail /\ UNCHANGED <<disk, gone>>
    /\ DelTo(d, "ended")
    /\ UNCHANGED <<row, age, loc, bootVars, up, target, rd, prVars, acked, doomed, slow>>

CancelDelete(d) ==
    /\ Deleting(d) \/ del[d] = "found"
    /\ DelTo(d, "ended")
    /\ UNCHANGED <<storeVars, age, bootVars, up, target, rd, prVars, history>>

----------------------------------------------------------------------------
(* prune_expired                                                           *)

\* Mutant of Prunable: only expiry counts.
PrunableExpired(f) == row[f] # "none" /\ age[f] = "expired"

Prunable(f) ==
    /\ row[f] # "none"
    /\ age[f] = "expired" \/ (row[f] # "ready" /\ age[f] = "stale")

SelectVictims(p) ==
    /\ mode = "up" /\ pr[p] = "idle"
    /\ victims' = [victims EXCEPT ![p] = {f \in Files : Prunable(f)}]
    /\ row' = [f \in Files |-> IF Prunable(f) THEN "deleting" ELSE row[f]]
    /\ pr' = [pr EXCEPT ![p] = "files"]
    /\ UNCHANGED <<age, loc, disk, bootVars, up, delVars, rd, current, history>>

\* A file that cannot be removed is left for the next prune.
RemoveContent(p, f) ==
    /\ pr[p] = "files" /\ current[p] = None
    /\ f \in victims[p]
    /\ victims' = [victims EXCEPT ![p] = @ \ {f}]
    /\ \/ /\ loc' = [loc EXCEPT ![f] = IF @ = "bin" THEN "none" ELSE @]
          /\ current' = [current EXCEPT ![p] = f]
       \/ MayFail /\ loc[f] = "bin" /\ UNCHANGED <<loc, current>>
    /\ UNCHANGED <<row, age, disk, bootVars, up, delVars, rd, pr, history>>

RemoveMetadata(p) ==
    /\ current[p] # None
    /\ SetRow(current[p], "none")
    /\ current' = [current EXCEPT ![p] = None]
    /\ UNCHANGED <<age, loc, disk, bootVars, up, delVars, rd, pr, victims, history>>

\* prune_stale_temp_files goes by the time of the last write, so a file that is
\* being written may be spared.
RemoveTemps(p) ==
    /\ pr[p] = "files" /\ current[p] = None /\ victims[p] = {}
    /\ LET old == {f \in Files : loc[f] = "tmp" /\ age[f] # "young"}
           atWork == {f \in old : up[f] = "writing"}
       IN  \E spared \in SUBSET atWork :
              loc' = [f \in Files |-> IF f \in old \ spared THEN "none" ELSE loc[f]]
    /\ pr' = [pr EXCEPT ![p] = "temps"]
    /\ UNCHANGED <<row, age, disk, bootVars, up, delVars, rd, victims, current, history>>

PruneEnds(p) ==
    /\ pr[p] = "temps"
    /\ SyncDirectory \/ UNCHANGED disk
    /\ pr' = [pr EXCEPT ![p] = "idle"]
    /\ UNCHANGED <<row, age, loc, bootVars, up, delVars, rd, victims, current, history>>

\* The client is gone, or an operation that is not tolerated fails.
PruneStops(p) ==
    /\ pr[p] # "idle"
    /\ pr' = [pr EXCEPT ![p] = "idle"]
    /\ victims' = [victims EXCEPT ![p] = {}]
    /\ current' = [current EXCEPT ![p] = None]
    /\ UNCHANGED <<storeVars, age, bootVars, up, delVars, rd, history>>

----------------------------------------------------------------------------
(* ensure_layout and reconcile                                             *)

Reconcile ==
    /\ mode = "down"
    /\ mode' = "reconciling"
    /\ snap' = row
    /\ todo' = {f \in Files : loc[f] # "none"}
    /\ fixing' = None
    /\ UNCHANGED <<storeVars, age, up, delVars, rd, prVars, stops, history>>

\* Mutant of ReconcileEntry: content of a pending row is left alone.
ReconcileEntryPending(f) ==
    /\ mode = "reconciling" /\ fixing = None
    /\ f \in todo
    /\ todo' = todo \ {f}
    /\ LET keeps == loc[f] \in {"bin", "tomb"} /\ snap[f] \in {"pending", "ready"}
           mends == \/ loc[f] = "tomb" /\ snap[f] # "none"
                    \/ loc[f] = "bin" /\ snap[f] = "deleting"
       IN  /\ Move(f, IF keeps THEN "bin" ELSE "none")
           /\ fixing' = IF mends THEN f ELSE None
    /\ UNCHANGED <<row, age, disk, mode, snap, up, delVars, rd, prVars, stops, history>>

\* One directory entry.  Its row is changed after the file, in a later step.
ReconcileEntry(f) ==
    /\ mode = "reconciling" /\ fixing = None
    /\ f \in todo
    /\ todo' = todo \ {f}
    /\ LET keeps == loc[f] \in {"bin", "tomb"} /\ snap[f] \in {"pending", "ready"}
           mends == \/ loc[f] = "tomb" /\ snap[f] # "none"
                    \/ loc[f] = "bin" /\ snap[f] \in {"pending", "deleting"}
       IN  /\ Move(f, IF keeps THEN "bin" ELSE "none")
           /\ fixing' = IF mends THEN f ELSE None
    /\ UNCHANGED <<row, age, disk, mode, snap, up, delVars, rd, prVars, stops, history>>

ReconcileRow ==
    /\ fixing # None
    /\ IF loc[fixing] = "bin" THEN MarkReady(fixing) ELSE SetRow(fixing, "none")
    /\ fixing' = None
    /\ UNCHANGED <<age, loc, disk, mode, snap, todo, up, delVars, rd, prVars, stops, history>>

\* The rows without content go last; the directory is synced if it changed.
ReconcileEnds ==
    /\ mode = "reconciling" /\ fixing = None /\ todo = {}
    /\ row' = [f \in Files |->
                 IF snap[f] \in {"pending", "deleting"} /\ loc[f] # "bin" THEN "none" ELSE row[f]]
    /\ SyncDirectory \/ UNCHANGED disk
    /\ mode' = "up"
    /\ snap' = [f \in Files |-> "none"]
    /\ UNCHANGED <<age, loc, todo, fixing, up, delVars, rd, prVars, stops, history>>

\* An error, or the end of the call that initialises: the next call starts over.
ReconcileFails ==
    /\ mode = "reconciling"
    /\ mode' = "down"
    /\ snap' = [f \in Files |-> "none"] /\ todo' = {} /\ fixing' = None
    /\ UNCHANGED <<storeVars, age, up, delVars, rd, prVars, stops, history>>

\* The process ends, with or without the machine: an unsynced change may be
\* undone.
Stop ==
    /\ stops < MaxStops
    /\ stops' = stops + 1
    /\ mode' = "down"
    /\ snap' = [f \in Files |-> "none"] /\ todo' = {} /\ fixing' = None
    /\ \/ UNCHANGED <<loc, disk>>
       \/ \E lost \in SUBSET {f \in Files : loc[f] # disk[f]} :
             /\ loc' = [f \in Files |-> IF f \in lost THEN disk[f] ELSE loc[f]]
             /\ disk' = loc'
    /\ up' = [f \in Files |-> IF Uploading(f) THEN "ended" ELSE up[f]]
    /\ del' = [d \in Deletes |-> IF Deleting(d) \/ del[d] = "found" THEN "ended" ELSE del[d]]
    /\ rd' = [r \in Reads |-> IF rd[r] = "new" THEN "new" ELSE "ended"]
    /\ target' = [t \in DOMAIN target |-> IF t \in Reads THEN None ELSE target[t]]
    /\ pr' = [p \in Prunes |-> "idle"]
    /\ victims' = [p \in Prunes |-> {}]
    /\ current' = [p \in Prunes |-> None]
    /\ UNCHANGED <<row, age, history>>

\* Time passes.
Ages(f) ==
    /\ row[f] # "none" \/ loc[f] # "none"
    /\ \/ age[f] = "young" /\ age' = [age EXCEPT ![f] = "stale"]
       \/ f \in Expiring /\ age[f] = "stale" /\ age' = [age EXCEPT ![f] = "expired"]
    /\ slow' = IF Uploading(f) THEN slow \cup {f} ELSE slow
    /\ UNCHANGED <<storeVars, bootVars, up, delVars, rd, prVars, acked, doomed, gone>>

----------------------------------------------------------------------------
UploadStep(f) ==
    \/ ReserveMetadata(f) \/ OpenTemp(f) \/ RenameContent(f) \/ SyncContent(f)
    \/ WriteFails(f) \/ Commit(f) \/ CommitFails(f) \/ UndoContent(f) \/ UndoMetadata(f)
    \/ CancelUpload(f)

DeleteStep(d) ==
    \/ \E f \in Files : FindToDelete(d, f)
    \/ MarkDeleting(d) \/ Entomb(d) \/ DropMissing(d) \/ SyncTomb(d) \/ RemoveRow(d)
    \/ Restore(d) \/ Unmark(d) \/ RemoveTomb(d) \/ DeleteReturns(d) \/ CancelDelete(d)

ReadStep(r) ==
    (\E f \in Files : FindToRead(r, f)) \/ Open(r) \/ EndRead(r)

PruneWorks(p) ==
    \/ SelectVictims(p) \/ (\E f \in Files : RemoveContent(p, f)) \/ RemoveMetadata(p)
    \/ RemoveTemps(p) \/ PruneEnds(p)

ReconcileWorks == Reconcile \/ (\E f \in Files : ReconcileEntry(f)) \/ ReconcileRow \/ ReconcileEnds

Next ==
    \/ \E f \in Files : UploadStep(f) \/ Ages(f)
    \/ \E d \in Deletes : DeleteStep(d)
    \/ \E r \in Reads : ReadStep(r)
    \/ \E p \in Prunes : PruneWorks(p) \/ PruneStops(p)
    \/ ReconcileWorks \/ ReconcileFails \/ Stop

Spec == Init /\ [][Next]_vars

----------------------------------------------------------------------------
(* Properties                                                              *)

\* A client is told that a file is corrupt only if the file was being removed
\* when it was read, or its upload never succeeded in time.
CorruptIsRemoved ==
    \A r \in Reads :
        rd[r] = "corrupt" => \/ target[r] \in doomed \cup slow
                             \/ target[r] \notin acked
                             \/ age[target[r]] = "expired"

\* A file whose upload was answered with success stays whole, in the database
\* and on the medium, through every failure, crash and power loss, until it is
\* deleted or expires, and so do its readers find it: unless its upload took
\* longer than the time after which a prune takes it for abandoned.
AckedUploadKept ==
    /\ TypeOK
    /\ CorruptIsRemoved
    /\ \A f \in acked \ (doomed \cup slow) :
           age[f] # "expired" => row[f] = "ready" /\ loc[f] = "bin" /\ disk[f] = "bin"

\* A file whose delete was answered with success never comes back, whatever
\* tombstone or row the crash of another call left behind; and no two deletes
\* work on one file, although neither holds a lock: the state column admits one
\* at a time, also after a delete was rolled back.
DeletesFinal ==
    /\ \A f \in gone : row[f] = "none" /\ loc[f] \notin {"tmp", "bin"}
    /\ \A c, d \in Deletes :
           c # d /\ Deleting(c) /\ Deleting(d) => target[c] # target[d]

\* What the store has answered for stays true.
AnswersKept == AckedUploadKept /\ DeletesFinal

\* A restart settles every file: content without a ready row, and rows that
\* say neither ready nor nothing, do not outlive reconcile.
RestartSettles ==
    [][mode = "reconciling" /\ mode' = "up" =>
          \A f \in Files : /\ row'[f] \in {"none", "ready"}
                           /\ loc'[f] \in {"none", "bin"}
                           /\ loc'[f] = "bin" => row'[f] = "ready"]_vars

\* What a failed or abandoned call reserved is given back without a restart:
\* the row, and with it the quota, and the temporary file.
AbandonedFreed ==
    \A f \in Files : /\ row[f] \in {"pending", "deleting"} ~> row[f] \in {"none", "ready"}
                     /\ loc[f] = "tmp" ~> loc[f] # "tmp"
============================================================================

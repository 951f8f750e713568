--------------------------- MODULE ArchiveService ---------------------------
(***************************************************************************)
(* forge.services.snapshot_service and artifact_service with their stores:  *)
(* snapshots and artifacts are a file outside the workspace and a row, and  *)
(* a restore fills a new workspace from a snapshot.  Beside them workspaces *)
(* are deleted, and agents and commands write to the trees at any time,     *)
(* also while an archive is being written.                                  *)
(*                                                                          *)
(* One action per stretch of code between two awaits, except that writing   *)
(* an archive takes two steps per file, and unpacking one and taking a file *)
(* away again a step of their own: these block the event loop, and with it  *)
(* every other call, but neither the commands in the containers nor a crash *)
(* of the daemon.                                                           *)
(***************************************************************************)
EXTENDS Database

CONSTANTS
    Workspaces,   \* workspace ids
    Snapshots,    \* calls of SnapshotService.create; also the ids they make
    Exports,      \* calls of ArtifactService.export; also the ids they make
    Restores,     \* calls of SnapshotService.restore
    Deletes,      \* calls of WorkspaceService.delete
    Target,       \* the workspace of each call, for a restore the new one
    Source,       \* the snapshot of each restore
    Files,        \* the files a workspace may hold
    Skipped,      \* those an archive leaves out: symbolic links, .forge/exec/
    Versions,     \* what may be in either half of a file; 0 is a file that is not there
    Exported,     \* the file of each export
    Nothing,      \* no directory, no archive, no artifact
    MaxEdits,     \* bound: how often agents and commands write
    Cancellable   \* the calls whose task may be cancelled

Ids == Snapshots \cup Exports
Tasks == Ids \cup Restores \cup Deletes
Created == {Target[r] : r \in Restores}

ASSUME ArchiveAssumption ==
    /\ Snapshots \cap Exports = {} /\ Ids \cap Restores = {} /\ Ids \cap Deletes = {}
    /\ Restores \cap Deletes = {}
    /\ Target \in [Tasks -> Workspaces] /\ Source \in [Restores -> Snapshots]
    /\ \A r, q \in Restores : Target[r] = Target[q] => r = q   \* ws_id is a fresh UUID
    /\ \A i \in Ids : Target[i] \notin Created
    /\ Exported \in [Exports -> Files] /\ Skipped \subseteq Files
    /\ 0 \notin Versions
    /\ Nothing \notin [Files -> (Versions \X Versions) \cup {<<0, 0>>}] /\ Nothing \notin Files
    /\ MaxEdits \in Nat /\ Cancellable \subseteq Tasks

VARIABLES
    pc,       \* where each call is
    tree,     \* the tree of each workspace, or Nothing
    stored,   \* the archive or the artifact of each id, or Nothing
    left,     \* the files the archive in progress still has to take
    reading,  \* the one it is reading, with what was in it at first, or NoFile
    packed,   \* history: the ids whose file was completely written
    seen,     \* history: for each snapshot, the trees there were while it was taken
    edits     \* how often agents and commands have written

vars == <<db, disk, faults, pc, tree, stored, left, reading, packed, seen, edits>>
packVars == <<left, reading, packed, seen, edits>>
fileVars == <<tree, stored, packVars>>

\* A file is copied in pieces, here two halves, and a command may write in between.
Halves == 1..2
Absent == <<0, 0>>
Texts == (Versions \X Versions) \cup {Absent}
Contents == [Files -> Texts]
Bare == [f \in Files |-> Absent]
NoFile == [file |-> Nothing, was |-> Absent]
WsStatus == {"absent", "ready", "deleting"}
Rows == [ws : [Workspaces -> WsStatus], id : [Ids -> BOOLEAN]]

Blocking == {"archiving", "unpacking", "rollback"}
KeepStages == {"write", "archiving", "insert", "commit", "rollback"}
DeleteStages == {"mark", "commitMark", "delete", "commitDelete", "commitMissing"}
RestoreStages == {"source", "make", "insertWs", "commitWs", "unpacking", "cleanup"}
Calling == KeepStages \cup DeleteStages \cup RestoreStages
Ended == {"done", "error", "cancelled", "lost"}

Stages(t) ==
    {"new"} \cup Ended \cup (CASE t \in Ids -> KeepStages
                              [] t \in Restores -> RestoreStages \cup DeleteStages
                              [] OTHER -> DeleteStages)

Goto(t, l) == pc' = [pc EXCEPT ![t] = l]

Content(w, f) == IF tree[w] = Nothing THEN Absent ELSE tree[w][f]

HasWs(w) == db.ws[w] # "absent"
HasRow(i) == db.id[i]

\* Statements, with ON DELETE CASCADE from a workspace to its snapshots and artifacts.
RowInserted(i) == [db EXCEPT !.id[i] = TRUE]
WsInserted(w) == [db EXCEPT !.ws[w] = "ready"]
WsMarked(w) == IF HasWs(w) THEN [db EXCEPT !.ws[w] = "deleting"] ELSE db
WsDeleted(w) ==
    [ws |-> [db.ws EXCEPT ![w] = "absent"],
     id |-> [i \in Ids |-> db.id[i] /\ Target[i] # w]]

------------------------------------------------------------------------------
(* create a snapshot, export an artifact *)

FindWsThenRow(i) ==
    /\ i \in Ids /\ pc[i] = "new"
    /\ Goto(i, IF HasWs(Target[i]) THEN "insert" ELSE "error")
    /\ UNCHANGED <<storeVars, fileVars>>

FindWs(i) ==
    /\ i \in Ids /\ pc[i] = "new"
    /\ Goto(i, IF HasWs(Target[i]) THEN "write" ELSE "error")
    /\ UNCHANGED <<storeVars, fileVars>>

\* SnapshotStore.create opens the archive ...
OpenArchive(s) ==
    /\ s \in Snapshots /\ pc[s] = "write"
    /\ IF tree[Target[s]] = Nothing
       THEN Goto(s, "error") /\ UNCHANGED fileVars
       ELSE /\ Goto(s, "archiving")
            /\ stored' = [stored EXCEPT ![s] = Bare]
            /\ left' = Files \ Skipped /\ reading' = NoFile
            /\ seen' = [seen EXCEPT ![s] = {tree[Target[s]]}]
            /\ UNCHANGED <<tree, packed, edits>>
    /\ UNCHANGED storeVars

\* ... and adds the entries one by one.  A directory is listed once, before its entries
\* are added: a file made since may be missing from the list, one removed since may be on
\* it and is then an OSError, that is a SnapshotError.  What has been written stays.
Listed(s, f, there) == \E t \in seen[s] : (t[f] # Absent) = there

OpenFileSkippingErrors(s) ==
    /\ pc[s] = "archiving" /\ reading = NoFile
    /\ \E f \in left :
          \/ /\ Content(Target[s], f) # Absent
             /\ reading' = [file |-> f, was |-> Content(Target[s], f)] /\ UNCHANGED <<left, faults>>
          \/ left' = left \ {f} /\ Fault("fs") /\ UNCHANGED reading
          \/ left' = left \ {f} /\ Listed(s, f, FALSE) /\ UNCHANGED <<reading, faults>>
    /\ UNCHANGED <<db, disk, pc, tree, stored, packed, seen, edits>>

OpenFile(s) ==
    /\ pc[s] = "archiving" /\ reading = NoFile
    /\ \E f \in left :
          LET v == Content(Target[s], f) IN
          \/ /\ v # Absent /\ reading' = [file |-> f, was |-> v]
             /\ UNCHANGED <<faults, pc, left>>
          \/ Listed(s, f, FALSE) /\ left' = left \ {f} /\ UNCHANGED <<faults, pc, reading>>
          \/ /\ Fault("fs") \/ (v = Absent /\ Listed(s, f, TRUE) /\ UNCHANGED faults)
             /\ Goto(s, "error") /\ left' = {} /\ UNCHANGED reading
    /\ UNCHANGED <<db, disk, tree, stored, packed, seen, edits>>

\* The rest is that of the file that was opened, or what a command has put in its place
\* meanwhile; a file that has become shorter is an OSError.
ReadOn(s) ==
    /\ pc[s] = "archiving" /\ reading # NoFile
    /\ LET f == reading.file
           now == Content(Target[s], f)
       IN \/ /\ \E v \in {reading.was, now} \ {Absent} :
                   stored' = [stored EXCEPT ![s][f] = <<reading.was[1], v[2]>>]
             /\ left' = left \ {f} /\ UNCHANGED <<faults, pc>>
          \/ /\ Fault("fs") \/ (now # reading.was /\ UNCHANGED faults)
             /\ Goto(s, "error") /\ left' = {} /\ UNCHANGED stored
    /\ reading' = NoFile
    /\ UNCHANGED <<db, disk, tree, packed, seen, edits>>

\* The archive may be complete and the stat() of it fail: that is outside the try.
CloseArchive(s) ==
    /\ pc[s] = "archiving" /\ left = {}
    /\ \/ packed' = packed \cup {s} /\ Goto(s, "insert") /\ UNCHANGED faults
       \/ packed' \in {packed, packed \cup {s}} /\ Fault("fs") /\ Goto(s, "error")
    /\ UNCHANGED <<db, disk, tree, stored, left, reading, seen, edits>>

\* ArtifactStore.export copies one file; if the copy fails its directory is removed, if
\* that can be done.  A failing stat() leaves the complete copy.
CopyFile(e) ==
    /\ e \in Exports /\ pc[e] = "write"
    /\ LET f == Exported[e]
           v == Content(Target[e], f)
           copy == [stored EXCEPT ![e] = [Bare EXCEPT ![f] = v]]
       IN \/ /\ v # Absent /\ stored' = copy /\ packed' = packed \cup {e}
             /\ Goto(e, "insert") /\ UNCHANGED faults
          \/ v = Absent /\ Goto(e, "error") /\ UNCHANGED <<faults, stored, packed>>
          \/ /\ Fault("fs") /\ Goto(e, "error")
             /\ \/ stored' \in {stored, [stored EXCEPT ![e] = Bare]} /\ UNCHANGED packed
                \/ v # Absent /\ stored' = copy /\ packed' = packed \cup {e}
    /\ UNCHANGED <<db, disk, tree, left, reading, seen, edits>>

\* The foreign key refuses the row when the workspace has gone meanwhile.
InsertRow(i) ==
    /\ pc[i] = "insert"
    /\ \/ HasWs(Target[i]) /\ Write(RowInserted(i)) /\ Goto(i, "commit")
       \/ ~HasWs(Target[i]) /\ UNCHANGED storeVars /\ Goto(i, "rollback")
       \/ WriteFails /\ Goto(i, "rollback")
    /\ UNCHANGED fileVars

CommitRow(i) ==
    /\ pc[i] = "commit"
    /\ \/ Commit /\ Goto(i, "done")
       \/ CommitFails /\ Goto(i, "rollback")
    /\ UNCHANGED fileVars

RolledBackNot(i) ==
    /\ pc[i] = "rollback" /\ Goto(i, "error")
    /\ UNCHANGED <<storeVars, fileVars>>

\* The row could not be written: the file is removed again.  A deletion that fails leaves
\* it; that of an artifact does so without a word, that of an archive raises another error.
RolledBack(i) ==
    /\ pc[i] = "rollback" /\ Goto(i, "error")
    /\ \/ stored' = [stored EXCEPT ![i] = Nothing] /\ UNCHANGED faults
       \/ Fault("fs") /\ UNCHANGED stored
    /\ UNCHANGED <<db, disk, tree, packVars>>

KeepStep(i) ==
    \/ FindWs(i) \/ OpenArchive(i) \/ OpenFile(i) \/ ReadOn(i) \/ CloseArchive(i) \/ CopyFile(i)
    \/ InsertRow(i) \/ CommitRow(i) \/ RolledBack(i)

------------------------------------------------------------------------------
(* restore *)

FindSnapshot(r) ==
    /\ r \in Restores /\ pc[r] = "new"
    /\ Goto(r, IF HasRow(Source[r]) THEN "source" ELSE "error")
    /\ UNCHANGED <<storeVars, fileVars>>

\* The new workspace takes its settings from the one the snapshot was made of.
FindSource(r) ==
    /\ pc[r] = "source"
    /\ Goto(r, IF HasWs(Target[Source[r]]) THEN "make" ELSE "error")
    /\ UNCHANGED <<storeVars, fileVars>>

TreeIs(w, t) == tree' = [tree EXCEPT ![w] = t]

\* WorkspaceService.create: a directory, then a row.
MakeDir(r) ==
    /\ pc[r] = "make"
    /\ \/ TreeIs(Target[r], Bare) /\ Goto(r, "insertWs") /\ UNCHANGED faults
       \/ Fault("fs") /\ Goto(r, "error") /\ UNCHANGED tree
    /\ UNCHANGED <<db, disk, stored, packVars>>

InsertWs(r) ==
    /\ pc[r] = "insertWs"
    /\ \/ Write(WsInserted(Target[r])) /\ Goto(r, "commitWs") /\ UNCHANGED tree
       \/ WriteFails /\ TreeIs(Target[r], Nothing) /\ Goto(r, "error")
    /\ UNCHANGED <<stored, packVars>>

\* Once the row is committed ensure_dir_empty wipes the directory; it raises an OSError,
\* which nobody catches, when that fails or the directory has gone.
CommitWs(r) ==
    /\ pc[r] = "commitWs"
    /\ LET w == Target[r] IN
       \/ tree[w] # Nothing /\ Commit /\ TreeIs(w, Bare) /\ Goto(r, "unpacking")
       \/ tree[w] = Nothing /\ Commit /\ Goto(r, "error") /\ UNCHANGED tree
       \/ Fault("fs") /\ disk' = db /\ UNCHANGED <<db, tree>> /\ Goto(r, "error")
       \/ CommitFails /\ TreeIs(w, Nothing) /\ Goto(r, "error")
    /\ UNCHANGED <<stored, packVars>>

\* A missing or broken archive is a SnapshotError, which deletes the new workspace.
UnpackFailedWithoutCleanup(r) == Goto(r, "error")
UnpackFailed(r) == Goto(r, "cleanup")

\* What is broken in an archive may go unnoticed; and once all is unpacked, .forge/exec is
\* made, an OSError of which nobody catches.
Unpack(r) ==
    /\ pc[r] = "unpacking"
    /\ LET w == Target[r]
           archive == stored[Source[r]]
       IN \/ archive # Nothing /\ TreeIs(w, archive) /\ Goto(r, "done") /\ UNCHANGED faults
          \/ archive # Nothing /\ TreeIs(w, archive) /\ Goto(r, "error") /\ Fault("fs")
          \/ archive = Nothing /\ UnpackFailed(r) /\ UNCHANGED <<faults, tree>>
          \/ /\ archive # Nothing /\ Fault("archive") /\ UnpackFailed(r)
             /\ tree' \in {tree, [tree EXCEPT ![w] = archive]}
          \/ /\ archive # Nothing /\ Fault("archive") /\ Goto(r, "done")
             /\ \E f \in Files \ Skipped, v \in Texts : TreeIs(w, [archive EXCEPT ![f] = v])
    /\ UNCHANGED <<db, disk, stored, packVars>>

RestoreStep(r) ==
    \/ FindSnapshot(r) \/ FindSource(r) \/ MakeDir(r) \/ InsertWs(r) \/ CommitWs(r)
    \/ Unpack(r)

------------------------------------------------------------------------------
(* delete a workspace: a call of its own, or the cleanup of a restore *)

Raised(t) == Goto(t, "error")

FindDoomed(t) ==
    /\ (t \in Deletes /\ pc[t] = "new") \/ pc[t] = "cleanup"
    /\ Goto(t, IF HasWs(Target[t]) THEN "mark" ELSE "error")
    /\ UNCHANGED <<storeVars, fileVars>>

MarkWs(t) ==
    /\ pc[t] = "mark"
    /\ \/ /\ Write(WsMarked(Target[t]))
          /\ Goto(t, IF HasWs(Target[t]) THEN "commitMark" ELSE "commitMissing")
       \/ WriteFails /\ Raised(t)
    /\ UNCHANGED fileVars

\* A statement that finds no row is committed all the same, then raises NotFoundError.
CommitMissing(t) ==
    /\ pc[t] = "commitMissing"
    /\ Commit \/ CommitFails
    /\ Raised(t)
    /\ UNCHANGED fileVars

CommitMark(t) ==
    /\ pc[t] = "commitMark"
    /\ \/ Commit /\ TreeIs(Target[t], Nothing) /\ Goto(t, "delete")
       \/ Fault("fs") /\ disk' = db /\ UNCHANGED <<db, tree>> /\ Raised(t)
       \/ CommitFails /\ Raised(t) /\ UNCHANGED tree
    /\ UNCHANGED <<stored, packVars>>

DeleteWs(t) ==
    /\ pc[t] = "delete"
    /\ \/ /\ Write(WsDeleted(Target[t]))
          /\ Goto(t, IF HasWs(Target[t]) THEN "commitDelete" ELSE "commitMissing")
       \/ WriteFails /\ Raised(t)
    /\ UNCHANGED fileVars

\* A restore raises its SnapshotError again once the workspace is deleted.
CommitDelete(t) ==
    /\ pc[t] = "commitDelete"
    /\ \/ Commit /\ Goto(t, IF t \in Restores THEN "error" ELSE "done")
       \/ CommitFails /\ Raised(t)
    /\ UNCHANGED fileVars

DeleteStep(t) ==
    \/ FindDoomed(t) \/ MarkWs(t) \/ CommitMissing(t) \/ CommitMark(t) \/ DeleteWs(t)
    \/ CommitDelete(t)

------------------------------------------------------------------------------
(* What goes on beside the calls *)

\* A command in a container, or an agent, writes or removes a file.
Edit(w) ==
    /\ edits < MaxEdits /\ tree[w] # Nothing
    /\ \E f \in Files, v \in Texts :
          v # tree[w][f] /\ tree' = [tree EXCEPT ![w][f] = v]
    /\ seen' = [s \in Snapshots |-> IF pc[s] = "archiving" /\ Target[s] = w
                                    THEN seen[s] \cup {tree'[w]} ELSE seen[s]]
    /\ edits' = edits + 1
    /\ UNCHANGED <<storeVars, pc, stored, left, reading, packed>>

Written(t) ==
    CASE pc[t] = "insert" /\ HasWs(Target[t]) -> RowInserted(t)
      [] pc[t] = "insertWs" -> WsInserted(Target[t])
      [] pc[t] = "mark"     -> WsMarked(Target[t])
      [] pc[t] = "delete"   -> WsDeleted(Target[t])
      [] OTHER              -> db

Committing == {"commit", "commitWs", "commitMark", "commitDelete", "commitMissing"}

\* The task is cancelled at an await: `except Exception` does not catch CancelledError,
\* and the statement or the commit it was waiting for may be carried out all the same.
Cancel(t) ==
    /\ t \in Cancellable /\ pc[t] \in Calling \ Blocking
    /\ \/ Write(Written(t))
       \/ UNCHANGED storeVars
       \/ pc[t] \in Committing /\ Commit
    /\ Goto(t, "cancelled")
    /\ UNCHANGED fileVars

\* The daemon dies, in the middle of an archive or not, and is started again.
Crash ==
    /\ Reopened
    /\ pc' = [t \in Tasks |-> IF pc[t] \in Calling THEN "lost" ELSE pc[t]]
    /\ left' = {} /\ reading' = NoFile
    /\ UNCHANGED <<tree, stored, packed, seen, edits>>

Free == \A t \in Tasks : pc[t] \notin Blocking

AllEnded == (\A t \in Tasks : pc[t] \in Ended) /\ UNCHANGED vars

------------------------------------------------------------------------------
Init ==
    /\ db = [ws |-> [w \in Workspaces |-> IF w \in Created THEN "absent" ELSE "ready"],
             id |-> [i \in Ids |-> FALSE]]
    /\ disk = db /\ faults = {}
    /\ pc = [t \in Tasks |-> "new"]
    /\ \E v \in Versions :
          tree = [w \in Workspaces |-> IF w \in Created THEN Nothing ELSE [f \in Files |-> <<v, v>>]]
    /\ stored = [i \in Ids |-> Nothing]
    /\ left = {} /\ reading = NoFile /\ packed = {} /\ seen = [s \in Snapshots |-> {}] /\ edits = 0

Next ==
    \/ \E t \in Tasks :
          /\ Free \/ pc[t] \in Blocking
          /\ KeepStep(t) \/ RestoreStep(t) \/ DeleteStep(t) \/ Cancel(t)
    \/ \E w \in Workspaces : Edit(w)
    \/ Crash
    \/ AllEnded

Spec == Init /\ [][Next]_vars

------------------------------------------------------------------------------
(* Properties. *)

TypeOK ==
    /\ db \in Rows /\ disk \in Rows
    /\ faults \subseteq FaultKinds
    /\ pc \in [Tasks -> {"new"} \cup Calling \cup Ended]
    /\ \A t \in Tasks : pc[t] \in Stages(t)
    /\ tree \in [Workspaces -> Contents \cup {Nothing}]
    /\ stored \in [Ids -> Contents \cup {Nothing}]
    /\ left \subseteq Files /\ packed \subseteq Ids
    /\ reading = NoFile \/ reading \in [file : left, was : Texts \ {Absent}]
    /\ seen \in [Snapshots -> SUBSET Contents] /\ edits \in 0..MaxEdits

CommitNeverFailed == "commit" \notin faults

\* Whoever finds the row of a snapshot or an artifact, also after a restart, finds its
\* complete file: the file is written first, and removed only if its row never came to
\* be.  A commit that fails without rolling back breaks this, and nothing else.
RowHasFile ==
    CommitNeverFailed =>
        \A i \in Ids : db.id[i] \/ disk.id[i] => stored[i] # Nothing /\ i \in packed

\* What a restore hands out is what the workspace held while the snapshot was taken: each
\* half of each file as it was in one of the trees there were, and nothing else, however
\* the workspace has been written to or deleted since.  So a file that nobody wrote
\* meanwhile is as it was; one that a command wrote may be torn, with an old and a new
\* half.  An archive damaged since, when nobody notices, is the exception.
RestoredAsItWas ==
    [][\A r \in Restores : pc[r] # "done" /\ pc'[r] = "done" /\ "archive" \notin faults' =>
          \A f \in Files :
             LET got == tree'[Target[r]][f] IN
             IF f \in Skipped THEN got = Absent
             ELSE \A h \in Halves : \E t \in seen[Source[r]] : got[h] = t[f][h]]_vars

\* A broken archive alone never leaves a workspace behind that looks restored: a retry
\* starts clean.
FailedRestoreCleaned ==
    faults \subseteq {"archive"} =>
        \A r \in Restores : pc[r] = "error" =>
            disk.ws[Target[r]] # "ready" /\ tree[Target[r]] = Nothing

\* As long as files can be removed and looked at, a call that raised leaves no complete
\* file behind: such a file is that of a call that is keeping it or removing it, of one
\* that was cancelled, or of one that succeeded, whose row goes only with its workspace.
NoStrayFile ==
    faults \cap {"crash", "fs"} = {} =>
        \A i \in packed : stored[i] # Nothing =>
            \/ pc[i] \in {"insert", "commit", "rollback", "cancelled"}
            \/ pc[i] = "done" /\ (CommitNeverFailed => HasRow(i) \/ db.ws[Target[i]] = "absent")

\* What was reported is on disk: a snapshot or an artifact until its workspace goes, the
\* workspace of a restore unless somebody is deleting it.
ReportedDurable ==
    CommitNeverFailed =>
        /\ \A i \in Ids : pc[i] = "done" => disk.id[i] \/ disk.ws[Target[i]] = "absent"
        /\ \A r \in Restores : pc[r] = "done" =>
               \/ disk.ws[Target[r]] = "ready"
               \/ \E t \in Deletes : Target[t] = Target[r] /\ pc[t] # "new"

------------------------------------------------------------------------------
(* The inductive invariant behind RowHasFile.                                    *)

\* Before its INSERT an id has no row; from the opening of its archive it has a file, and
\* from the closing on a complete one.
FileFirst ==
    \A i \in Ids :
        /\ pc[i] \in {"new", "write", "archiving", "insert"} => ~db.id[i] /\ ~disk.id[i]
        /\ pc[i] = "rollback" /\ CommitNeverFailed => ~db.id[i] /\ ~disk.id[i]
        /\ pc[i] \in {"archiving", "insert", "commit"} => stored[i] # Nothing
        /\ pc[i] \in {"insert", "commit"} => i \in packed

IndInv == TypeOK /\ FileFirst /\ RowHasFile

------------------------------------------------------------------------------
(* What the documents and the comments say, and the code does not do.            *)

\* snapshot_service.py:55: a failure must not "leak orphan files".  An archive cut off
\* while it is written is not removed, and a command that removes a file of the workspace
\* meanwhile is enough to cut it off.
FailedLeavesNoFile == \A i \in Ids : pc[i] = "error" => stored[i] = Nothing

\* snapshot_service.py:89: the half-materialized workspace is cleaned "so callers can
\* retry safely".  A crash or an OSError after its row is committed leaves it, ready.
HalfRestoredIsCleaned ==
    \A r \in Restores : pc[r] \in {"error", "lost"} => disk.ws[Target[r]] # "ready"

\* docs/product.md:74: a snapshot is a point-in-time record of workspace state.  Files
\* are read one after the other, and each piece by piece, while commands write.
PointInTime ==
    \A s \in packed \cap Snapshots : stored[s] # Nothing =>
        \E t \in seen[s] : \A f \in Files \ Skipped : stored[s][f] = t[f]

\* docs/architecture/data-model.md:219 and 232: the foreign keys of snapshots and artifacts
\* are ON DELETE SET NULL, so a row outlives its workspace.  They are ON DELETE CASCADE.
RowOutlivesWorkspace == CommitNeverFailed => \A i \in Ids : pc[i] = "done" => HasRow(i)
==============================================================================

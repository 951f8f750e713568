--------------------------- MODULE WorkspaceService ---------------------------
(***************************************************************************)
(* forge.services.workspace_service: create and delete a workspace, that is *)
(* its row in the metastore and its directory.  One action per stretch of   *)
(* code between two awaits; directories are made and removed synchronously. *)
(***************************************************************************)
EXTENDS MetaStore

VARIABLES
    pc,     \* where each call is
    dirs    \* the workspaces that have a directory

Ended == {"done", "error", "conflict", "cancelled", "lost"}

Goto(t, l) == pc' = [pc EXCEPT ![t] = l]

------------------------------------------------------------------------------
(* create *)

\* mkdir comes before the row.
MakeDir(t) ==
    /\ t \in Creates /\ pc[t] = "new"
    /\ dirs' = dirs \cup {Target[t]}
    /\ Goto(t, "insertWs")
    /\ UNCHANGED storeVars

MakeDirFails(t) ==
    /\ t \in Creates /\ pc[t] = "new" /\ Fault("fs")
    /\ dirs' \in {dirs, dirs \cup {Target[t]}}
    /\ Goto(t, "error")
    /\ UNCHANGED <<db, disk>>

\* The row could not be written: the directory is removed again.
CreateRolledBack(t) == dirs' = dirs \ {Target[t]} /\ Goto(t, "error")

InsertWs(t) ==
    /\ pc[t] = "insertWs"
    /\ \/ Write(WsInserted(Target[t])) /\ Goto(t, "commitWs") /\ UNCHANGED dirs
       \/ WriteFails /\ CreateRolledBack(t)

CommitWs(t) ==
    /\ pc[t] = "commitWs"
    /\ \/ Commit /\ Goto(t, "done") /\ UNCHANGED dirs
       \/ CommitFails /\ CreateRolledBack(t)

------------------------------------------------------------------------------
(* delete *)

FindDoomed(t) ==
    /\ t \in Deletes /\ pc[t] = "new"
    /\ Goto(t, IF HasWs(Target[t]) THEN "markWs" ELSE "error")
    /\ UNCHANGED <<storeVars, dirs>>

\* A statement that finds no row (rowcount 0) is committed all the same, and then
\* raises NotFoundError.
MarkWs(t) ==
    /\ pc[t] = "markWs"
    /\ \/ /\ Write(WsMarked(Target[t]))
          /\ Goto(t, IF HasWs(Target[t]) THEN "commitMark" ELSE "commitMissing")
       \/ WriteFails /\ Goto(t, "error")
    /\ UNCHANGED dirs

CommitMissing(t) ==
    /\ pc[t] = "commitMissing"
    /\ Commit \/ CommitFails
    /\ Goto(t, "error")
    /\ UNCHANGED dirs

\* Once "deleting" is committed the tree is removed (or, by an OSError, only part of it).
TreeRemovedBeforeCommit(t) ==
    /\ pc[t] = "commitMark"
    /\ Goto(t, "deleteWs") /\ dirs' = dirs \ {Target[t]}
    /\ UNCHANGED storeVars

CommitMark(t) ==
    /\ pc[t] = "commitMark"
    /\ \/ Commit /\ Goto(t, "deleteWs") /\ dirs' = dirs \ {Target[t]}
       \/ Fault("fs") /\ disk' = db /\ UNCHANGED <<db, dirs>> /\ Goto(t, "error")
       \/ CommitFails /\ Goto(t, "error") /\ UNCHANGED dirs

DeleteWs(t) ==
    /\ pc[t] = "deleteWs"
    /\ \/ /\ Write(WsDeleted(Target[t]))
          /\ Goto(t, IF HasWs(Target[t]) THEN "commitDelete" ELSE "commitMissing")
       \/ WriteFails /\ Goto(t, "error")
    /\ UNCHANGED dirs

CommitDelete(t) ==
    /\ pc[t] = "commitDelete"
    /\ \/ Commit /\ Goto(t, "done")
       \/ CommitFails /\ Goto(t, "error")
    /\ UNCHANGED dirs

WorkspaceStep(t) ==
    \/ MakeDir(t) \/ MakeDirFails(t) \/ InsertWs(t) \/ CommitWs(t)
    \/ FindDoomed(t) \/ MarkWs(t) \/ CommitMark(t) \/ DeleteWs(t) \/ CommitDelete(t)
    \/ CommitMissing(t)
==============================================================================

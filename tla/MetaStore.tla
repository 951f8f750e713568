------------------------------ MODULE MetaStore ------------------------------
(***************************************************************************)
(* forge.storage.meta_store.MetaStore: the SQLite rows that the services    *)
(* share, and the calls (Tasks) that use them.                              *)
(*                                                                          *)
(* An execution's row is identified with the task that inserts it (its id   *)
(* is a fresh UUID); of its columns only the status is kept, its workspace  *)
(* and its idempotency key are those of the task.                           *)
(***************************************************************************)
EXTENDS Database

CONSTANTS
    Workspaces,   \* workspace ids
    Execs,        \* calls of ExecutionService.exec; also the ids of their rows
    Creates,      \* calls of WorkspaceService.create
    Deletes,      \* calls of WorkspaceService.delete
    Target,       \* the workspace of each call
    Key,          \* the idempotency key of each exec
    NoKey         \* no idempotency key

Tasks == Execs \cup Creates \cup Deletes

ASSUME MetaAssumption ==
    /\ Execs \cap Creates = {} /\ Execs \cap Deletes = {} /\ Creates \cap Deletes = {}
    /\ Target \in [Tasks -> Workspaces]
    /\ \A c, d \in Creates : Target[c] = Target[d] => c = d    \* ws_id is a fresh UUID
    /\ DOMAIN Key = Execs

WsStatus == {"absent", "ready", "deleting"}
Terminal == {"succeeded", "failed", "timed_out"}
ExStatus == {"none", "queued", "running"} \cup Terminal
Rows == [ws : [Workspaces -> WsStatus], ex : [Execs -> ExStatus]]

------------------------------------------------------------------------------
(* Statements: the rows after each of them. *)

WsInserted(w) == [db EXCEPT !.ws[w] = "ready"]

HasWs(w) == db.ws[w] # "absent"
WsMarked(w) == IF HasWs(w) THEN [db EXCEPT !.ws[w] = "deleting"] ELSE db

\* ON DELETE CASCADE: the executions of the workspace go with it.
WsDeleted(w) ==
    [ws |-> [db.ws EXCEPT ![w] = "absent"],
     ex |-> [x \in Execs |-> IF Target[x] = w THEN "none" ELSE db.ex[x]]]

SameKey(x, y) == Key[x] # NoKey /\ Key[x] = Key[y] /\ Target[x] = Target[y]

\* The UNIQUE index on (workspace_id, idempotency_key) of keyed executions.
KeyFreeWithoutIndex(x) == TRUE
KeyFree(x) == \A y \in Execs : SameKey(x, y) => db.ex[y] = "none"

HasEx(x) == db.ex[x] # "none"
ExInserted(x) == [db EXCEPT !.ex[x] = "queued"]
ExUpdated(x, status) == IF HasEx(x) THEN [db EXCEPT !.ex[x] = status] ELSE db
==============================================================================

------------------------------ MODULE Database ------------------------------
(***************************************************************************)
(* The SQLite file behind one shared aiosqlite connection, whatever its     *)
(* rows are: how a statement or a commit of forge.storage.meta_store ends,  *)
(* and what may fail in and around it.                                      *)
(*                                                                          *)
(* All tasks share the connection, and a statement and its commit are two   *)
(* awaits.  So a task sees what another has written and not committed yet,  *)
(* a commit makes everybody's writes durable, and a commit that fails may   *)
(* roll everybody's writes back.                                            *)
(***************************************************************************)
EXTENDS Integers, FiniteSets

CONSTANTS
    FaultKinds,   \* what may go wrong: "write", "commit", "fs", "infra", "crash"
    MaxFaults     \* bound: each kind happens at most once, and no more than so many kinds

ASSUME DatabaseAssumption == MaxFaults \in Nat

VARIABLES
    db,      \* what a statement sees: the rows, with the writes of the open transaction
    disk,    \* the committed rows
    faults   \* the kinds of faults that have happened

storeVars == <<db, disk, faults>>

Fault(kind) ==
    /\ kind \in FaultKinds \ faults /\ Cardinality(faults) < MaxFaults
    /\ faults' = faults \cup {kind}

\* (Definitions named ...Without..., ...Before... and the like, here and in the other
\* modules, are the deliberate errors a run must detect; no specification uses them.)

Write(rows) == db' = rows /\ UNCHANGED <<disk, faults>>

\* The statement raises (the database is locked by another process, say).
WriteFails == Fault("write") /\ UNCHANGED <<db, disk>>

CommitWithoutSave == UNCHANGED storeVars
Commit == disk' = db /\ UNCHANGED <<db, faults>>

\* The commit raises (the disk is full): SQLite may have rolled the transaction back,
\* or kept it open for whoever commits next.
CommitFails == Fault("commit") /\ db' \in {db, disk} /\ UNCHANGED disk

\* The process dies and is started again: connect() finds the committed rows.
Reopened == Fault("crash") /\ db' = disk /\ UNCHANGED disk
==============================================================================

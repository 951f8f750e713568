--------------------------- MODULE ExecutionService ---------------------------
(***************************************************************************)
(* forge.services.execution_service: ExecutionService.exec, composed with   *)
(* the creation and the deletion of workspaces that go on beside it.        *)
(*                                                                          *)
(* The pool and the driver are seen from outside: a session is granted or   *)
(* raises, the command ends with an exit code or raises (LeaseService and   *)
(* ContainerPool say how).  Events, environments, durations and the text of *)
(* the output are left out.                                                 *)
(***************************************************************************)
EXTENDS WorkspaceService

CONSTANTS
    ExitCodes,     \* the exit codes a command may end with; 124 is the driver's timeout, -1 unknown
    NoAnswer,      \* no result returned
    EmptyCommands, \* the execs whose command is empty
    Cancellable    \* the calls whose task may be cancelled

ASSUME ExecAssumption ==
    /\ ExitCodes \subseteq Int
    /\ EmptyCommands \subseteq Execs
    /\ Cancellable \subseteq Tasks
    /\ NoAnswer \notin [of : Execs, status : Terminal]

VARIABLES
    outcome,   \* the status an exec is going to write
    ran,       \* the execs that got a container and started their command
    answer     \* the result an exec returned: of which row, with which status

vars == <<db, disk, faults, pc, dirs, outcome, ran, answer>>
execVars == <<outcome, ran, answer>>

CreateStages == {"insertWs", "commitWs"}
DeleteStages == {"markWs", "commitMark", "deleteWs", "commitDelete", "commitMissing"}
ExecStages == {"lookup", "insertEx", "commitInsert", "start", "commitStart", "session",
               "executing", "finish", "commitFinish", "fail", "commitFail", "commitMissing"}
Calling == CreateStages \cup DeleteStages \cup ExecStages

Stages(t) == {"new"} \cup Ended \cup (CASE t \in Creates -> CreateStages
                                        [] t \in Deletes -> DeleteStages
                                        [] OTHER -> ExecStages)

Answers == [of : Execs, status : Terminal]

------------------------------------------------------------------------------
(* exec *)

FindWs(x) ==
    /\ x \in Execs /\ pc[x] = "new"
    /\ Goto(x, IF ~HasWs(Target[x]) THEN "error"
               ELSE IF Key[x] = NoKey THEN "insertEx" ELSE "lookup")
    /\ UNCHANGED <<storeVars, dirs, execVars>>

CachedWithoutStatus(x, y) == SameKey(x, y) /\ HasEx(y)
Cached(x, y) == SameKey(x, y) /\ db.ex[y] \in Terminal

\* A terminal execution with the same key answers the request.
Lookup(x) ==
    /\ pc[x] = "lookup"
    /\ \/ \E y \in Execs :
             /\ Cached(x, y)
             /\ answer' = [answer EXCEPT ![x] = [of |-> y, status |-> db.ex[y]]]
             /\ Goto(x, "done")
       \/ /\ \A y \in Execs : ~Cached(x, y)
          /\ Goto(x, "insertEx")
          /\ UNCHANGED answer
    /\ UNCHANGED <<storeVars, dirs, outcome, ran>>

\* INSERT OR REPLACE in its place: the row of an earlier request with the key goes.
InsertOrReplaceEx(x) ==
    /\ pc[x] = "insertEx" /\ HasWs(Target[x])
    /\ Write([db EXCEPT !.ex = [y \in Execs |-> IF y = x THEN "queued"
                                 ELSE IF SameKey(x, y) THEN "none" ELSE db.ex[y]]])
    /\ Goto(x, "commitInsert")
    /\ UNCHANGED <<dirs, execVars>>

\* The foreign key and the unique index raise IntegrityError, which nobody catches.
InsertEx(x) ==
    /\ pc[x] = "insertEx"
    /\ \/ /\ HasWs(Target[x]) /\ KeyFree(x)
          /\ Write(ExInserted(x)) /\ Goto(x, "commitInsert")
       \/ ~HasWs(Target[x]) /\ UNCHANGED storeVars /\ Goto(x, "error")
       \/ HasWs(Target[x]) /\ ~KeyFree(x) /\ UNCHANGED storeVars /\ Goto(x, "conflict")
       \/ WriteFails /\ Goto(x, "error")
    /\ UNCHANGED <<dirs, execVars>>

CommitThenWithoutCommit(x, next) == UNCHANGED storeVars /\ Goto(x, next)

\* A commit, then next or, if it fails, an exception.
CommitThen(x, next) ==
    \/ Commit /\ Goto(x, next)
    \/ CommitFails /\ Goto(x, "error")

CommitInsert(x) ==
    /\ pc[x] = "commitInsert"
    /\ CommitThen(x, "start")
    /\ UNCHANGED <<dirs, execVars>>

\* An UPDATE of the row, then its commit at next.
UpdateThen(x, status, next) ==
    \/ Write(ExUpdated(x, status)) /\ Goto(x, IF HasEx(x) THEN next ELSE "commitMissing")
    \/ WriteFails /\ Goto(x, "error")

Start(x) ==
    /\ pc[x] = "start"
    /\ UpdateThen(x, "running", "commitStart")
    /\ UNCHANGED <<dirs, execVars>>

\* Once the row is committed as running, _prepare_command raises for an empty command.
CommitStart(x) ==
    /\ pc[x] = "commitStart"
    /\ CommitThen(x, IF x \in EmptyCommands THEN "error" ELSE "session")
    /\ UNCHANGED <<dirs, execVars>>

\* pool.session() yields a lease and the command starts, or it raises.  In a workspace
\* without a directory forge-run ends before it starts the command.
Session(x) ==
    /\ pc[x] = "session"
    /\ \/ /\ Target[x] \in dirs /\ Goto(x, "executing") /\ ran' = ran \cup {x}
          /\ UNCHANGED <<faults, outcome>>
       \/ /\ Target[x] \notin dirs /\ Goto(x, "finish") /\ UNCHANGED <<faults, ran>>
          /\ outcome' = [outcome EXCEPT ![x] = "failed"]
       \/ /\ Fault("infra") /\ Goto(x, "fail") /\ UNCHANGED ran
          /\ outcome' = [outcome EXCEPT ![x] = "failed"]
    /\ UNCHANGED <<db, disk, dirs, answer>>

Classify(code) == CASE code = 0 -> "succeeded" [] code = 124 -> "timed_out" [] OTHER -> "failed"

Spill(x) == dirs \cup {Target[x]}

\* The command ends with an exit code, and a truncated output is written to the
\* workspace's tree (mkdir makes what is missing, the directory itself included;
\* an OSError is raised outside the try block); or sess.exec raises.
Executed(x) ==
    /\ pc[x] = "executing"
    /\ \/ \E code \in ExitCodes :
             /\ outcome' = [outcome EXCEPT ![x] = Classify(code)]
             /\ dirs' \in {dirs, Spill(x)}
             /\ Goto(x, "finish") /\ UNCHANGED faults
       \/ Fault("fs") /\ Goto(x, "error") /\ UNCHANGED <<dirs, outcome>>
       \/ /\ Fault("infra") /\ Goto(x, "fail") /\ UNCHANGED dirs
          /\ outcome' = [outcome EXCEPT ![x] = "failed"]
    /\ UNCHANGED <<db, disk, ran, answer>>

Finish(x) ==
    /\ pc[x] = "finish"
    /\ UpdateThen(x, outcome[x], "commitFinish")
    /\ UNCHANGED <<dirs, execVars>>

CommitFinish(x) ==
    /\ pc[x] = "commitFinish"
    /\ CommitThen(x, "done")
    /\ answer' = IF pc'[x] = "done"
                 THEN [answer EXCEPT ![x] = [of |-> x, status |-> outcome[x]]] ELSE answer
    /\ UNCHANGED <<dirs, outcome, ran>>

\* An exception of the session or of the driver: the row fails and it is raised again.
Fail(x) ==
    /\ pc[x] = "fail"
    /\ UpdateThen(x, "failed", "commitFail")
    /\ UNCHANGED <<dirs, execVars>>

CommitFail(x) ==
    /\ pc[x] = "commitFail"
    /\ CommitThen(x, "error")
    /\ UNCHANGED <<dirs, execVars>>

ExecStep(x) ==
    \/ FindWs(x) \/ Lookup(x) \/ InsertEx(x) \/ CommitInsert(x) \/ Start(x) \/ CommitStart(x)
    \/ Session(x) \/ Executed(x) \/ Finish(x) \/ CommitFinish(x) \/ Fail(x) \/ CommitFail(x)

------------------------------------------------------------------------------
(* Cancellation and crashes. *)

\* The rows after the statement a task is waiting for.
Written(t) ==
    CASE pc[t] = "insertWs" -> WsInserted(Target[t])
      [] pc[t] = "markWs"   -> WsMarked(Target[t])
      [] pc[t] = "deleteWs" -> WsDeleted(Target[t])
      [] pc[t] = "insertEx" -> IF HasWs(Target[t]) /\ KeyFree(t) THEN ExInserted(t) ELSE db
      [] pc[t] = "start"    -> ExUpdated(t, "running")
      [] pc[t] = "finish"   -> ExUpdated(t, outcome[t])
      [] pc[t] = "fail"     -> ExUpdated(t, "failed")
      [] OTHER              -> db

Committing == {"commitWs", "commitMark", "commitDelete", "commitMissing",
               "commitInsert", "commitStart", "commitFinish", "commitFail"}

\* The task is cancelled at an await: no handler catches CancelledError, and the
\* statement or the commit it was waiting for may be carried out all the same.
Cancel(t) ==
    /\ t \in Cancellable /\ pc[t] \in Calling
    /\ \/ Write(Written(t))
       \/ UNCHANGED storeVars
       \/ pc[t] \in Committing /\ Commit
    /\ Goto(t, "cancelled")
    /\ UNCHANGED <<dirs, execVars>>

\* The daemon dies and is started again.  Every call in flight is lost; nothing
\* looks at the rows and the directories it left.
Crash ==
    /\ Reopened
    /\ pc' = [t \in Tasks |-> IF pc[t] \in Calling THEN "lost" ELSE pc[t]]
    /\ UNCHANGED <<dirs, execVars>>

AllEnded == (\A t \in Tasks : pc[t] \in Ended) /\ UNCHANGED vars

------------------------------------------------------------------------------
\* Every workspace that no call creates is there already.
Existing == Workspaces \ {Target[t] : t \in Creates}

Init ==
    /\ db = [ws |-> [w \in Workspaces |-> IF w \in Existing THEN "ready" ELSE "absent"],
             ex |-> [x \in Execs |-> "none"]]
    /\ disk = db
    /\ faults = {}
    /\ pc = [t \in Tasks |-> "new"] /\ dirs = Existing
    /\ outcome = [x \in Execs |-> "failed"] /\ ran = {}
    /\ answer = [x \in Execs |-> NoAnswer]

Next ==
    \/ \E x \in Execs : ExecStep(x)
    \/ \E t \in Tasks : (WorkspaceStep(t) /\ UNCHANGED execVars) \/ Cancel(t)
    \/ Crash
    \/ AllEnded

Spec == Init /\ [][Next]_vars

------------------------------------------------------------------------------
(* Properties. *)

TypeOK ==
    /\ db \in Rows /\ disk \in Rows
    /\ faults \subseteq FaultKinds
    /\ pc \in [Tasks -> {"new"} \cup Calling \cup Ended]
    /\ \A t \in Tasks : pc[t] \in Stages(t)
    /\ dirs \subseteq Workspaces
    /\ outcome \in [Execs -> Terminal] /\ ran \subseteq Execs
    /\ answer \in [Execs -> Answers \cup {NoAnswer}]

\* A command with an idempotency key is run at most once in its workspace, however
\* requests and retries with that key interleave, and whatever is cancelled, fails,
\* rolls back or crashes in between: exec claims the key before it leases a container.
AtMostOnce == \A x, y \in ran : SameKey(x, y) => x = y

\* What has run is on record: as long as its workspace exists on disk, a restart
\* finds a row for every command that was ever started.
RunOnRecord == \A x \in ran : disk.ws[Target[x]] # "absent" => disk.ex[x] # "none"

CommitNeverFailed == "commit" \notin faults

\* A call that reported success has left its effect on disk: an exec its status, a
\* create or a delete its row.  Only a later deletion takes it away, and only the
\* failure of another task's commit can have lost it.
DoomedOnDisk(w) == \E t \in Deletes : Target[t] = w /\ pc[t] # "new"
SuccessDurable ==
    CommitNeverFailed =>
        /\ \A x \in Execs : pc[x] = "done" /\ answer[x].of = x
               => \/ disk.ex[x] = answer[x].status
                  \/ disk.ws[Target[x]] = "absent"
        /\ \A t \in Creates : pc[t] = "done" /\ disk.ws[Target[t]] = "absent"
               => DoomedOnDisk(Target[t])
        /\ \A t \in Deletes : pc[t] = "done" => disk.ws[Target[t]] = "absent"

\* A workspace whose row says "ready" has its directory, also for who reads the row
\* after a crash: create makes the directory before the row, delete commits
\* "deleting" before it touches the tree.
ReadyHasDirectory ==
    CommitNeverFailed => \A w \in Workspaces : "ready" \in {db.ws[w], disk.ws[w]} => w \in dirs

\* The committed status of an execution only moves forward, until its workspace goes.
Rank(s) == CASE s = "none" -> 0 [] s = "queued" -> 1 [] s = "running" -> 2 [] OTHER -> 3
StatusForward ==
    [][\A x \in Execs : disk'.ws[Target[x]] # "absent"
         => \/ disk'.ex[x] = disk.ex[x]
            \/ Rank(disk'.ex[x]) > Rank(disk.ex[x])]_vars

------------------------------------------------------------------------------
(* The inductive invariant behind AtMostOnce, RunOnRecord and KeepsPromise.      *)

\* The execs that have run, or have marked their row running and may run, and those
\* whose status some exec has returned.
Marked == {"commitStart", "session", "executing", "finish", "commitFinish", "fail", "commitFail"}
Claimed ==
    ran \cup {x \in Execs : pc[x] \in Marked}
        \cup {x \in Execs : \E z \in Execs : answer[z] # NoAnswer /\ answer[z].of = x}

\* The constraints of the schema: the unique index and the foreign key.
Unique(rows) == \A x, y \in Execs :
    SameKey(x, y) /\ rows.ex[x] # "none" /\ rows.ex[y] # "none" => x = y
Owned(rows) == \A x \in Execs : rows.ex[x] # "none" => rows.ws[Target[x]] # "absent"

Recorded(rows, x) == rows.ws[Target[x]] # "absent" => rows.ex[x] # "none"

\* The visible and the committed rows obey the schema, and hold every claim.
StoreInv ==
    /\ Unique(db) /\ Owned(db) /\ Unique(disk) /\ Owned(disk)
    /\ \A x \in Claimed : Recorded(db, x) /\ Recorded(disk, x)

\* When an exec is about to mark its row, and when the row has been marked, its INSERT
\* is committed, or the row is gone.
Advanced == {"running"} \cup Terminal
InsertSaved ==
    \A x \in Execs : HasEx(x) /\ (pc[x] = "start" \/ db.ex[x] \in Advanced) => Recorded(disk, x)

\* Nothing has claimed a key in a workspace whose row is still to be inserted.
Unborn ==
    \A t \in Creates : pc[t] \in {"new", "insertWs"} =>
        /\ db.ws[Target[t]] = "absent" /\ disk.ws[Target[t]] = "absent"
        /\ \A x \in Claimed : Target[x] # Target[t]

OneClaim == \A x, y \in Claimed : SameKey(x, y) => x = y

IndInv == TypeOK /\ StoreInv /\ InsertSaved /\ Unborn /\ OneClaim

\* Only a command that has ended gives its row a final status or its callers an answer,
\* and what rows and callers are given is the outcome of that command.
Before == {"new", "lookup", "insertEx", "commitInsert", "start", "commitStart", "session"}
Settled(x) == pc[x] \notin Before \cup {"executing"}

RanInOrder ==
    \A x \in Execs : /\ pc[x] \in Before => x \notin ran
                     /\ pc[x] = "executing" => x \in ran
                     /\ pc[x] = "fail" => outcome[x] = "failed"
                     /\ outcome[x] # "failed" => x \in ran
Final(rows) == \A x \in Execs : rows.ex[x] \in Terminal => rows.ex[x] = outcome[x] /\ Settled(x)
AnsweredInOrder ==
    \A x \in Execs :
        /\ pc[x] # "done" => answer[x] = NoAnswer
        /\ answer[x] # NoAnswer =>
              /\ x = answer[x].of \/ SameKey(x, answer[x].of)
              /\ answer[x].status = outcome[answer[x].of] /\ Settled(answer[x].of)

OutcomeInv == RanInOrder /\ Final(db) /\ Final(disk) /\ AnsweredInOrder

------------------------------------------------------------------------------
(* What exec promises to callers who retry, also across crashes: KeyedCommands.  *)
Promise == INSTANCE KeyedCommands WITH started <- ran, answer <- answer
KeepsPromise == Promise!Spec

------------------------------------------------------------------------------
(* What the documents and the tests say, and the code does not do.               *)

\* docs data-model.md:349 and :368: once the row is visible a second identical
\* request returns the cached execution row.  Until the first one is terminal the
\* unique index refuses the second one, and exec raises IntegrityError.
RetryGetsCached == \A x \in Execs : pc[x] # "conflict"

\* test_workspace_service.py:45: a deletion removes the row and the directory.  A
\* command that was running in the workspace puts its overflow log, and so the
\* directory, back.
DeletedIsGone == \A t \in Deletes : pc[t] = "done" => Target[t] \notin dirs
==============================================================================

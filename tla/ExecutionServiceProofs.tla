------------------------ MODULE ExecutionServiceProofs ------------------------
(***************************************************************************)
(* Type correctness of ExecutionService, that a keyed command runs at most  *)
(* once and is on record, that the service implements KeyedCommands, and    *)
(* what is on disk: the status of an execution moves forward, what was      *)
(* reported is there, and a ready workspace has its directory; for every    *)
(* set of calls, keys, workspaces and faults.                               *)
(***************************************************************************)
EXTENDS ExecutionService, TLAPS

USE MetaAssumption, ExecAssumption

------------------------------------------------------------------------------
(* Types. *)

\* The statements yield rows.
LEMMA RowTypes ==
    ASSUME TypeOK, NEW w \in Workspaces, NEW x \in Execs, NEW s \in Terminal \cup {"running"}
    PROVE  /\ WsInserted(w) \in Rows /\ WsMarked(w) \in Rows /\ WsDeleted(w) \in Rows
           /\ ExInserted(x) \in Rows /\ ExUpdated(x, s) \in Rows
BY DEF TypeOK, Rows, WsInserted, WsMarked, WsDeleted, ExInserted, ExUpdated, HasWs, HasEx,
       WsStatus, ExStatus, Terminal, Tasks

\* What a step may write next to the program counter.
StoreTyped == db' \in Rows /\ disk' \in Rows /\ faults' \subseteq FaultKinds

\* Commits and failures leave typed rows.
LEMMA CommitTyped == TypeOK /\ (Commit \/ CommitFails \/ WriteFails \/ UNCHANGED storeVars) => StoreTyped
BY DEF TypeOK, StoreTyped, Commit, CommitFails, WriteFails, Fault, storeVars

\* So do statements.
LEMMA WriteTyped ==
    ASSUME TypeOK, NEW w \in Workspaces, NEW x \in Execs, NEW s \in Terminal \cup {"running"},
           \/ Write(WsInserted(w)) \/ Write(WsMarked(w)) \/ Write(WsDeleted(w))
           \/ Write(ExInserted(x)) \/ Write(ExUpdated(x, s))
    PROVE  StoreTyped
BY RowTypes DEF TypeOK, StoreTyped, Write

\* Every call is at a stage of its own kind.
Staged == /\ pc \in [Tasks -> {"new"} \cup Calling \cup Ended]
          /\ \A t \in Tasks : pc[t] \in Stages(t)

\* Which stages belong to which kind of call.
LEMMA StageKinds ==
    /\ \A t \in Creates : Stages(t) = {"new"} \cup Ended \cup CreateStages
    /\ \A t \in Deletes : Stages(t) = {"new"} \cup Ended \cup DeleteStages
    /\ \A t \in Execs : Stages(t) = {"new"} \cup Ended \cup ExecStages
BY DEF Stages

\* A call moves between stages of its own kind.
LEMMA GotoStaged ==
    ASSUME Staged, NEW t \in Tasks, NEW l \in Stages(t), Goto(t, l)
    PROVE  Staged'
<1>1. Stages(t) \subseteq {"new"} \cup Calling \cup Ended
  BY StageKinds DEF Tasks, Calling
<1> QED  BY <1>1 DEF Staged, Goto

\* The initial states are typed.
LEMMA InitTyped == Init => TypeOK
<1> SUFFICES ASSUME Init PROVE TypeOK
  OBVIOUS
<1>1. Staged
  BY DEF Init, Staged, Stages
<1>2. db \in Rows
  BY DEF Init, Rows, WsStatus, ExStatus, Terminal
<1> QED  BY <1>1, <1>2 DEF Init, TypeOK, Staged, Terminal, Existing

\* Every step of create and delete preserves the types.
LEMMA WorkspaceTyped ==
    ASSUME TypeOK, NEW t \in Tasks, WorkspaceStep(t), UNCHANGED execVars
    PROVE  TypeOK'
<1>0. Target[t] \in Workspaces /\ dirs \subseteq Workspaces /\ Staged
  BY DEF TypeOK, Staged
<1>1. ASSUME NEW l \in Stages(t), Goto(t, l)  PROVE Staged'
  BY <1>0, <1>1, GotoStaged
<1>2. ASSUME StoreTyped, Staged', dirs' \subseteq Workspaces  PROVE TypeOK'
  BY <1>2 DEF TypeOK, Staged, StoreTyped, execVars
<1>3. Staged'
  <2>1. CASE t \in Creates
    <3>1. Stages(t) = {"new"} \cup Ended \cup CreateStages
      BY <2>1, StageKinds
    <3> QED  BY <1>0, <1>1, <2>1, <3>1 DEF Staged, WorkspaceStep, MakeDir, MakeDirFails, InsertWs,
                CommitWs, CreateRolledBack, FindDoomed, MarkWs, CommitMark, DeleteWs,
                CommitDelete, CommitMissing, CreateStages, Ended
  <2>2. CASE t \in Deletes
    <3>1. Stages(t) = {"new"} \cup Ended \cup DeleteStages
      BY <2>2, StageKinds
    <3> QED  BY <1>0, <1>1, <2>2, <3>1 DEF Staged, WorkspaceStep, MakeDir, MakeDirFails, InsertWs,
                CommitWs, CreateRolledBack, FindDoomed, MarkWs, CommitMark, DeleteWs,
                CommitDelete, CommitMissing, DeleteStages, Ended
  <2>3. CASE t \in Execs
    <3>1. Stages(t) = {"new"} \cup Ended \cup ExecStages
      BY <2>3, StageKinds
    <3> QED  BY <1>0, <1>1, <2>3, <3>1 DEF Staged, WorkspaceStep, MakeDir, MakeDirFails, InsertWs,
                CommitWs, CreateRolledBack, FindDoomed, MarkWs, CommitMark, DeleteWs,
                CommitDelete, CommitMissing, ExecStages, Ended
  <2> QED  BY <2>1, <2>2, <2>3 DEF Tasks
<1>4. dirs' \subseteq Workspaces
  BY <1>0 DEF WorkspaceStep, MakeDir, MakeDirFails, InsertWs, CommitWs, CreateRolledBack,
              FindDoomed, MarkWs, CommitMark, DeleteWs, CommitDelete, CommitMissing
<1>5. StoreTyped
  <2>1. CASE MakeDir(t) \/ FindDoomed(t)
    BY <2>1, CommitTyped DEF MakeDir, FindDoomed
  <2>2. CASE MakeDirFails(t)
    BY <2>2 DEF MakeDirFails, Fault, StoreTyped, TypeOK
  <2>3. CASE InsertWs(t) \/ MarkWs(t) \/ DeleteWs(t)
    <3>1. ASSUME Write(WsInserted(Target[t])) \/ Write(WsMarked(Target[t]))
                    \/ Write(WsDeleted(Target[t]))
          PROVE  StoreTyped
      BY <3>1, <1>0 DEF TypeOK, StoreTyped, Write, Rows, WsInserted, WsMarked, WsDeleted, HasWs,
         WsStatus, ExStatus
    <3> QED  BY <2>3, <3>1, CommitTyped DEF InsertWs, MarkWs, DeleteWs
  <2>4. CASE CommitWs(t) \/ CommitDelete(t) \/ CommitMissing(t)
    BY <2>4, CommitTyped DEF CommitWs, CommitDelete, CommitMissing
  <2>5. CASE CommitMark(t)
    <3>1. CASE Fault("fs") /\ disk' = db /\ UNCHANGED <<db, dirs>>
      BY <3>1 DEF Fault, StoreTyped, TypeOK
    <3> QED  BY <2>5, <3>1, CommitTyped DEF CommitMark
  <2> QED  BY <2>1, <2>2, <2>3, <2>4, <2>5 DEF WorkspaceStep
<1> QED  BY <1>2, <1>3, <1>4, <1>5

\* Every step of exec preserves the types.
LEMMA ExecTyped ==
    ASSUME TypeOK, NEW x \in Execs, ExecStep(x)
    PROVE  TypeOK'
<1>0. /\ x \in Tasks /\ Target[x] \in Workspaces /\ dirs \subseteq Workspaces
      /\ outcome[x] \in Terminal /\ Staged
      /\ Stages(x) = {"new"} \cup Ended \cup ExecStages
  BY StageKinds DEF TypeOK, Tasks, Staged
<1>1. ASSUME NEW l \in Stages(x), Goto(x, l)  PROVE Staged'
  BY <1>0, <1>1, GotoStaged
<1>2. ASSUME StoreTyped, Staged', dirs' \subseteq Workspaces,
             outcome' \in [Execs -> Terminal], ran' \subseteq Execs,
             answer' \in [Execs -> Answers \cup {NoAnswer}]
      PROVE  TypeOK'
  BY <1>2 DEF TypeOK, Staged, StoreTyped
<1>3. ASSUME NEW s \in Terminal \cup {"running"}, NEW l \in Stages(x), UpdateThen(x, s, l)
      PROVE  StoreTyped /\ Staged'
  <2>1. Staged'
    BY <1>0, <1>1, <1>3 DEF UpdateThen, ExecStages, Ended
  <2>2. StoreTyped
    BY <1>3, <1>0, WriteTyped, CommitTyped DEF UpdateThen
  <2> QED  BY <2>1, <2>2
<1>4. ASSUME NEW l \in Stages(x), CommitThen(x, l)
      PROVE  StoreTyped /\ Staged'
  BY <1>0, <1>1, <1>4, CommitTyped DEF CommitThen, Ended
<1>5. CASE FindWs(x)
  <2>1. Staged'
    BY <1>5, <1>0, <1>1 DEF FindWs, ExecStages, Ended
  <2> QED  BY <2>1, <1>2, <1>5, CommitTyped DEF FindWs, TypeOK, execVars
<1>6. CASE Lookup(x)
  <2>1. Staged'
    BY <1>6, <1>0, <1>1 DEF Lookup, ExecStages, Ended
  <2>2. answer' \in [Execs -> Answers \cup {NoAnswer}]
    BY <1>6 DEF Lookup, TypeOK, Answers, Cached
  <2> QED  BY <2>1, <2>2, <1>2, <1>6, CommitTyped DEF Lookup, TypeOK
<1>7. CASE InsertEx(x)
  <2>1. Staged'
    BY <1>7, <1>0, <1>1 DEF InsertEx, ExecStages, Ended
  <2>2. StoreTyped
    BY <1>7, <1>0, WriteTyped, CommitTyped DEF InsertEx
  <2> QED  BY <2>1, <2>2, <1>2, <1>7 DEF InsertEx, TypeOK, execVars
<1>8. CASE CommitInsert(x) \/ CommitStart(x) \/ CommitFail(x)
  <2>1. StoreTyped /\ Staged'
    BY <1>0, <1>8, <1>4 DEF CommitInsert, CommitStart, CommitFail, ExecStages, Ended
  <2> QED  BY <2>1, <1>2, <1>8 DEF CommitInsert, CommitStart, CommitFail, TypeOK, execVars
<1>9. CASE Start(x) \/ Finish(x) \/ Fail(x)
  <2>1. StoreTyped /\ Staged'
    BY <1>9, <1>3, <1>0 DEF Start, Finish, Fail, ExecStages, Terminal
  <2> QED  BY <2>1, <1>2, <1>9 DEF Start, Finish, Fail, TypeOK, execVars
<1>10. CASE Session(x)
  <2>1. Staged'
    BY <1>10, <1>0, <1>1 DEF Session, ExecStages
  <2>2. outcome' \in [Execs -> Terminal] /\ ran' \subseteq Execs
    BY <1>10 DEF Session, TypeOK, Terminal
  <2>3. StoreTyped
    BY <1>10 DEF Session, Fault, StoreTyped, TypeOK
  <2> QED  BY <2>1, <2>2, <2>3, <1>2, <1>10 DEF Session, TypeOK
<1>11. CASE Executed(x)
  <2>1. Staged'
    BY <1>11, <1>0, <1>1 DEF Executed, ExecStages, Ended
  <2>2. outcome' \in [Execs -> Terminal]
    BY <1>11 DEF Executed, TypeOK, Terminal, Classify
  <2>3. StoreTyped /\ dirs' \subseteq Workspaces
    BY <1>11, <1>0 DEF Executed, Fault, StoreTyped, TypeOK, Spill
  <2> QED  BY <2>1, <2>2, <2>3, <1>2, <1>11 DEF Executed, TypeOK
<1>12. CASE CommitFinish(x)
  <2>1. StoreTyped /\ Staged'
    BY <1>0, <1>12, <1>4 DEF CommitFinish, Ended
  <2>2. answer' \in [Execs -> Answers \cup {NoAnswer}]
    BY <1>12, <1>0 DEF CommitFinish, TypeOK, Answers
  <2> QED  BY <2>1, <2>2, <1>2, <1>12 DEF CommitFinish, TypeOK
<1> QED
  BY <1>5, <1>6, <1>7, <1>8, <1>9, <1>10, <1>11, <1>12 DEF ExecStep

\* A cancellation preserves the types.
LEMMA CancelTyped ==
    ASSUME TypeOK, NEW t \in Tasks, Cancel(t)
    PROVE  TypeOK'
<1>0. Target[t] \in Workspaces /\ Staged
  BY DEF TypeOK, Staged
<1>1. ASSUME Write(Written(t))  PROVE StoreTyped
  <2>1. CASE t \in Execs
    <3>1. outcome[t] \in Terminal
      BY <2>1 DEF TypeOK
    <3>2. pc[t] \notin {"insertWs", "markWs", "deleteWs"}
      BY <1>0, <2>1, StageKinds DEF Staged, Ended, ExecStages
    <3>3. Written(t) \in {ExInserted(t), ExUpdated(t, "running"), ExUpdated(t, outcome[t]),
                          ExUpdated(t, "failed"), db}
      BY <3>2 DEF Written
    <3>4. Written(t) \in Rows
      BY <2>1, <3>1, <3>3, <1>0, RowTypes DEF TypeOK, Terminal
    <3> QED  BY <1>1, <3>4 DEF Write, StoreTyped, TypeOK
  <2>2. CASE t \notin Execs
    <3>1. pc[t] \notin {"insertEx", "start", "finish", "fail"}
      BY <1>0, <2>2, StageKinds DEF Staged, Ended, CreateStages, DeleteStages, Tasks
    <3>2. Written(t) \in {WsInserted(Target[t]), WsMarked(Target[t]), WsDeleted(Target[t]), db}
      BY <3>1 DEF Written
    <3>3. Written(t) \in Rows
      BY <3>2, <1>0 DEF TypeOK, Rows, WsInserted, WsMarked, WsDeleted, HasWs, WsStatus, ExStatus
    <3> QED  BY <1>1, <3>3 DEF Write, StoreTyped, TypeOK
  <2> QED  BY <2>1, <2>2
<1>2. StoreTyped
  BY <1>1, CommitTyped DEF Cancel
<1>3. Staged'
  BY <1>0, GotoStaged DEF Cancel, Stages, Ended
<1> QED  BY <1>2, <1>3 DEF Cancel, TypeOK, StoreTyped, Staged, execVars

\* A crash preserves the types.
LEMMA CrashTyped == TypeOK /\ Crash => TypeOK'
<1> SUFFICES ASSUME TypeOK, Crash PROVE TypeOK'
  OBVIOUS
<1>1. StoreTyped
  BY DEF Crash, Reopened, Fault, StoreTyped, TypeOK
<1>2. Staged'
  BY DEF Crash, TypeOK, Staged, Stages, Calling, Ended
<1> QED  BY <1>1, <1>2 DEF Crash, TypeOK, StoreTyped, Staged, execVars

\* So does a stutter.
LEMMA StutterTyped == TypeOK /\ UNCHANGED vars => TypeOK'
BY DEF TypeOK, vars

\* Every step preserves the types.
LEMMA NextTyped == TypeOK /\ [Next]_vars => TypeOK'
BY WorkspaceTyped, ExecTyped, CancelTyped, CrashTyped, StutterTyped DEF Next, AllEnded

\* Type correctness of the calls, the rows, the directories and the answers.
THEOREM ExecTypeCorrect == Spec => []TypeOK
BY InitTyped, NextTyped, PTL DEF Spec

------------------------------------------------------------------------------
(* A keyed command runs at most once.  Every step but two leaves the claims  *)
(* alone or drops some, and changes the rows in one of the ways below; the   *)
(* two are the UPDATE that marks an exec's row running, and the lookup that  *)
(* answers with the status of another exec.                                  *)

Rollback == db' = disk /\ disk' = disk
Save == db' = db /\ disk' = db

\* A statement that neither makes nor unmakes an execution, a workspace's removal
\* with its executions, and the two kinds of INSERT.
Kept(rows) ==
    /\ \A w \in Workspaces : rows.ws[w] = "absent" <=> db.ws[w] = "absent"
    /\ \A x \in Execs : rows.ex[x] = "none" <=> db.ex[x] = "none"
Removed(rows, w) ==
    /\ \A v \in Workspaces : rows.ws[v] = "absent" <=> db.ws[v] = "absent" \/ v = w
    /\ \A x \in Execs : rows.ex[x] = "none" <=> db.ex[x] = "none" \/ Target[x] = w
Queued(rows, x) ==
    /\ pc[x] = "insertEx" /\ pc'[x] # "start" /\ HasWs(Target[x]) /\ KeyFree(x)
    /\ \A v \in Workspaces : rows.ws[v] = "absent" <=> db.ws[v] = "absent"
    /\ \A y \in Execs : rows.ex[y] = "none" <=> db.ex[y] = "none" /\ y # x
    /\ rows.ex[x] \notin Advanced
Born(rows, t) ==
    /\ pc[t] = "insertWs" /\ pc'[t] # "new" /\ pc'[t] # "insertWs"
    /\ \A v \in Workspaces : rows.ws[v] = "absent" <=> db.ws[v] = "absent" /\ v # Target[t]
    /\ \A x \in Execs : rows.ex[x] = "none" <=> db.ex[x] = "none"

\* A row that becomes running or final belongs to an exec that has claimed it, or is
\* about to.
Earned(rows) ==
    \A x \in Execs : rows.ex[x] \in Advanced =>
        db.ex[x] \in Advanced \/ pc[x] = "start" \/ x \in Claimed

RowsChange ==
    \/ Rollback \/ Save
    \/ /\ disk' = disk /\ Earned(db')
       /\ \/ Kept(db')
          \/ \E w \in Workspaces : Removed(db', w)
          \/ \E x \in Execs : Queued(db', x)
          \/ \E t \in Creates : Born(db', t)

\* Nothing is claimed, no exec comes to its UPDATE but by a commit, and no create
\* goes back before its INSERT.
Calm ==
    /\ Claimed' \subseteq Claimed
    /\ \A x \in Execs : pc'[x] = "start" => pc[x] = "start" \/ Save
    /\ \A t \in Creates : pc'[t] \in {"new", "insertWs"} => pc[t] \in {"new", "insertWs"}

\* What each statement does to the rows, as RowsChange describes it.
LEMMA RowEffects ==
    ASSUME TypeOK
    PROVE  /\ Kept(db)
           /\ \A w \in Workspaces : Kept(WsMarked(w))
           /\ \A w \in Workspaces : Removed(WsDeleted(w), w)
           /\ \A x \in Execs :
                  pc[x] = "insertEx" /\ pc'[x] # "start" /\ HasWs(Target[x]) /\ KeyFree(x)
                      => Queued(ExInserted(x), x)
           /\ \A x \in Execs, s \in Terminal \cup {"running"} : Kept(ExUpdated(x, s))
           /\ \A t \in Creates : pc[t] = "insertWs" /\ pc'[t] # "new" /\ pc'[t] # "insertWs"
                                     => Born(WsInserted(Target[t]), t)
<1>0. db \in Rows
  BY DEF TypeOK
<1>1. Kept(db) /\ \A w \in Workspaces : Kept(WsMarked(w))
  BY <1>0 DEF Kept, WsMarked, HasWs, Rows
<1>2. \A w \in Workspaces : Removed(WsDeleted(w), w)
  BY <1>0 DEF Removed, WsDeleted, Rows
<1>3. \A x \in Execs :
                  pc[x] = "insertEx" /\ pc'[x] # "start" /\ HasWs(Target[x]) /\ KeyFree(x)
                      => Queued(ExInserted(x), x)
  BY <1>0 DEF Queued, ExInserted, Rows, Advanced, Terminal
<1>4. \A x \in Execs, s \in Terminal \cup {"running"} : Kept(ExUpdated(x, s))
  BY <1>0 DEF Kept, ExUpdated, HasEx, Rows, Terminal
<1>5. \A t \in Creates : pc[t] = "insertWs" /\ pc'[t] # "new" /\ pc'[t] # "insertWs"
                             => Born(WsInserted(Target[t]), t)
  BY <1>0 DEF Born, WsInserted, Rows
<1> QED  BY <1>1, <1>2, <1>3, <1>4, <1>5

\* What each statement makes running or final.
LEMMA RowsEarned ==
    ASSUME TypeOK
    PROVE  /\ Earned(db)
           /\ \A w \in Workspaces :
                  Earned(WsInserted(w)) /\ Earned(WsMarked(w)) /\ Earned(WsDeleted(w))
           /\ \A x \in Execs : Earned(ExInserted(x))
           /\ \A x \in Execs, s \in Terminal \cup {"running"} :
                  pc[x] = "start" \/ x \in Claimed => Earned(ExUpdated(x, s))
<1>0. db \in Rows
  BY DEF TypeOK
<1>1. \A w \in Workspaces :
          Earned(WsInserted(w)) /\ Earned(WsMarked(w)) /\ Earned(WsDeleted(w)) /\ Earned(db)
  BY <1>0 DEF Earned, Advanced, Terminal, WsInserted, WsMarked, WsDeleted, Rows
<1>2. \A x \in Execs : Earned(ExInserted(x))
  BY <1>0 DEF Earned, Advanced, Terminal, ExInserted, Rows
<1>3. \A x \in Execs, s \in Terminal \cup {"running"} :
          pc[x] = "start" \/ x \in Claimed => Earned(ExUpdated(x, s))
  BY <1>0 DEF Earned, ExUpdated, Rows
<1> QED  BY <1>1, <1>2, <1>3 DEF Earned

\* A calm step preserves the invariant, whatever it does to the rows.
LEMMA CalmStep ==
    ASSUME IndInv, Calm, RowsChange
    PROVE  StoreInv' /\ InsertSaved' /\ Unborn' /\ OneClaim'
<1> USE DEF HasWs, HasEx
<1>0. /\ \A t \in Tasks : Target[t] \in Workspaces
      /\ Execs \subseteq Tasks /\ Creates \subseteq Tasks /\ Claimed \subseteq Execs
  BY DEF Tasks, Claimed, IndInv, TypeOK
<1>1. OneClaim'
  BY DEF IndInv, OneClaim, Calm
<1>2. InsertSaved'
  <2> SUFFICES ASSUME NEW x \in Execs, db'.ex[x] # "none",
                      pc'[x] = "start" \/ db'.ex[x] \in Advanced
               PROVE  Recorded(disk, x)'
    BY DEF InsertSaved
  <2>1. CASE Rollback \/ Save
    BY <2>1 DEF Rollback, Save, Recorded
  <2>2. CASE ~Save /\ disk' = disk /\ Earned(db') /\ db.ex[x] # "none"
    BY <2>2 DEF IndInv, StoreInv, InsertSaved, Calm, Recorded, Earned
  <2>3. CASE ~Save /\ db.ex[x] = "none"
    <3>1. Rollback
      BY <1>0, <2>3 DEF RowsChange, Kept, Removed, Queued, Born
    <3> QED  BY <3>1, <2>1
  <2> QED  BY <2>1, <2>2, <2>3 DEF RowsChange
<1>3. CASE Rollback \/ Save
  BY <1>3, <1>1, <1>2 DEF IndInv, StoreInv, Unique, Owned, Recorded, Unborn, Calm, Rollback, Save
<1>4. CASE disk' = disk /\ Kept(db')
  <2>1. StoreInv'
    BY <1>0, <1>4 DEF IndInv, StoreInv, Unique, Owned, Recorded, Calm, Kept
  <2>2. Unborn'
    BY <1>0, <1>4 DEF IndInv, Unborn, Calm, Kept
  <2> QED  BY <1>1, <1>2, <2>1, <2>2
<1>5. ASSUME NEW w \in Workspaces, disk' = disk, Removed(db', w)
      PROVE  StoreInv' /\ Unborn'
  <2>1. StoreInv'
    BY <1>0, <1>5 DEF IndInv, StoreInv, Unique, Owned, Recorded, Calm, Removed
  <2>2. Unborn'
    BY <1>0, <1>5 DEF IndInv, Unborn, Calm, Removed
  <2> QED  BY <2>1, <2>2
<1>6. ASSUME NEW x \in Execs, disk' = disk, Queued(db', x)
      PROVE  StoreInv' /\ Unborn'
  <2>1. StoreInv'
    BY <1>0, <1>6 DEF IndInv, StoreInv, Unique, Owned, Recorded, Calm, Queued, KeyFree, SameKey
  <2>2. Unborn'
    BY <1>0, <1>6 DEF IndInv, Unborn, Calm, Queued
  <2> QED  BY <2>1, <2>2
<1>7. ASSUME NEW t \in Creates, disk' = disk, Born(db', t)
      PROVE  StoreInv' /\ Unborn'
  <2>1. \A x \in Claimed : Target[x] # Target[t]
    BY <1>7 DEF IndInv, Unborn, Born
  <2>2. StoreInv'
    BY <1>0, <1>7, <2>1 DEF IndInv, StoreInv, Unique, Owned, Recorded, Calm, Born
  <2>3. Unborn'
    BY <1>0, <1>7 DEF IndInv, Unborn, Calm, Born
  <2> QED  BY <2>2, <2>3
<1> QED
  BY <1>1, <1>2, <1>3, <1>4, <1>5, <1>6, <1>7 DEF RowsChange

\* A call that goes on to a stage that claims nothing new is calm.
LEMMA GotoCalm ==
    ASSUME TypeOK, NEW t \in Tasks, NEW l, Goto(t, l), ran' = ran, answer' = answer,
           l \notin {"new", "insertWs", "start"}, l \in Marked => pc[t] \in Marked
    PROVE  Calm
BY DEF Calm, Claimed, Marked, Goto, TypeOK, Tasks

\* A step that writes no row changes the rows in a permitted way.
LEMMA ReadOrCommit ==
    UNCHANGED storeVars \/ Commit \/ CommitFails \/ WriteFails => RowsChange
<1> SUFFICES ASSUME UNCHANGED storeVars \/ Commit \/ CommitFails \/ WriteFails
             PROVE  RowsChange
  OBVIOUS
<1> QED  BY DEF RowsChange, Save, Rollback, Kept, Earned, storeVars, Commit, CommitFails, WriteFails

\* The steps of create and delete claim nothing.
LEMMA WorkspaceCalm ==
    ASSUME IndInv, NEW t \in Tasks, WorkspaceStep(t), UNCHANGED execVars
    PROVE  Calm /\ RowsChange
<1>0. /\ TypeOK /\ ran' = ran /\ answer' = answer /\ Target[t] \in Workspaces
      /\ pc \in [Tasks -> {"new"} \cup Calling \cup Ended] /\ Staged
  BY DEF IndInv, TypeOK, execVars, Staged
<1>1. CASE MakeDir(t)
  <2>1. Calm
    BY <1>0, <1>1 DEF MakeDir, Goto, Calm, Claimed, Marked, Tasks
  <2> QED  BY <1>1, <2>1, ReadOrCommit DEF MakeDir
<1>2. CASE MakeDirFails(t)
  <2>1. RowsChange
    BY <1>2 DEF MakeDirFails, RowsChange, Kept, Earned
  <2> QED  BY <1>0, <1>2, <2>1, GotoCalm DEF Marked, MakeDirFails
<1>3. CASE InsertWs(t)
  <2>1. t \in Creates
    BY <1>0, <1>3, StageKinds DEF InsertWs, Staged, Tasks, Ended, DeleteStages, ExecStages
  <2>2. Calm /\ pc'[t] # "new" /\ pc'[t] # "insertWs"
    BY <1>0, <1>3, GotoCalm DEF Marked, InsertWs, CreateRolledBack, Goto
  <2>3. CASE Write(WsInserted(Target[t]))
    BY <1>0, <1>3, <2>1, <2>2, <2>3, RowEffects, RowsEarned DEF InsertWs, Write, RowsChange
  <2> QED  BY <1>3, <2>2, <2>3, ReadOrCommit DEF InsertWs
<1>4. CASE CommitWs(t) \/ CommitDelete(t) \/ CommitMissing(t) \/ FindDoomed(t)
  <2>1. Calm
    BY <1>0, <1>4, GotoCalm DEF Marked, CommitWs, CommitDelete, CommitMissing, FindDoomed,
                                CreateRolledBack
  <2> QED  BY <1>4, <2>1, ReadOrCommit DEF CommitWs, CommitDelete, CommitMissing, FindDoomed
<1>5. CASE MarkWs(t)
  <2>1. Calm
    BY <1>0, <1>5, GotoCalm DEF Marked, MarkWs
  <2>2. CASE Write(WsMarked(Target[t]))
    BY <1>0, <2>1, <2>2, RowEffects, RowsEarned DEF Write, RowsChange
  <2> QED  BY <1>5, <2>1, <2>2, ReadOrCommit DEF MarkWs
<1>6. CASE CommitMark(t)
  <2>1. Calm
    BY <1>0, <1>6, GotoCalm DEF Marked, CommitMark
  <2>2. CASE Fault("fs") /\ disk' = db /\ UNCHANGED <<db, dirs>>
    BY <2>1, <2>2 DEF RowsChange, Save
  <2> QED  BY <1>6, <2>1, <2>2, ReadOrCommit DEF CommitMark
<1>7. CASE DeleteWs(t)
  <2>1. Calm
    BY <1>0, <1>7, GotoCalm DEF Marked, DeleteWs
  <2>2. CASE Write(WsDeleted(Target[t]))
    BY <1>0, <2>1, <2>2, RowEffects, RowsEarned DEF Write, RowsChange
  <2> QED  BY <1>7, <2>1, <2>2, ReadOrCommit DEF DeleteWs
<1> QED
  BY <1>1, <1>2, <1>3, <1>4, <1>5, <1>6, <1>7 DEF WorkspaceStep

\* A step that claims x, whose row is visible and whose INSERT is committed.
Claiming(x) ==
    /\ HasEx(x) /\ Recorded(disk, x) /\ Claimed' \subseteq Claimed \cup {x}
    /\ disk' = disk /\ Kept(db') /\ Earned(db')
    /\ \A y \in Execs : pc'[y] = "start" => pc[y] = "start"
    /\ \A t \in Creates : pc'[t] \in {"new", "insertWs"} => pc[t] \in {"new", "insertWs"}

\* The steps of exec claim nothing, but for the UPDATE to running and for a lookup with
\* a hit.
LEMMA ExecCalm ==
    ASSUME IndInv, NEW x \in Execs, ExecStep(x)
    PROVE  (Calm /\ RowsChange) \/ \E y \in Execs : Claiming(y)
<1>0. /\ TypeOK /\ x \in Tasks /\ Target[x] \in Workspaces /\ outcome[x] \in Terminal
      /\ pc \in [Tasks -> {"new"} \cup Calling \cup Ended]
  BY DEF IndInv, TypeOK, Tasks
<1>1. ASSUME NEW s \in Terminal \cup {"running"}, NEW l, UpdateThen(x, s, l), pc[x] \in Marked,
             ran' = ran, answer' = answer, l \notin {"new", "insertWs", "start"}
      PROVE  Calm /\ RowsChange
  <2>1. Calm
    BY <1>0, <1>1, GotoCalm DEF UpdateThen
  <2>2. x \in Claimed
    BY <1>1 DEF Claimed
  <2>3. CASE Write(ExUpdated(x, s))
    <3>1. Kept(ExUpdated(x, s)) /\ Earned(ExUpdated(x, s))
      BY <1>0, <2>2, RowEffects, RowsEarned
    <3> QED  BY <2>1, <2>3, <3>1 DEF Write, RowsChange
  <2> QED  BY <1>1, <2>1, <2>3, ReadOrCommit DEF UpdateThen
<1>2. CASE FindWs(x)
  <2>1. Calm
    BY <1>0, <1>2, GotoCalm DEF FindWs, execVars, Marked
  <2> QED  BY <1>2, <2>1, ReadOrCommit DEF FindWs
<1>3. CASE Lookup(x)
  <2>1. CASE answer' = answer
    <3>1. Calm
      BY <1>0, <1>3, <2>1, GotoCalm DEF Lookup, Marked
    <3> QED  BY <1>3, <3>1, ReadOrCommit DEF Lookup
  <2>2. ASSUME NEW y \in Execs, Cached(x, y), Goto(x, "done"),
               answer' = [answer EXCEPT ![x] = [of |-> y, status |-> db.ex[y]]]
        PROVE  Claiming(y)
    <3>1. HasEx(y) /\ Recorded(disk, y)
      BY <2>2 DEF Cached, HasEx, IndInv, InsertSaved, Advanced, Terminal
    <3>2. Claimed' \subseteq Claimed \cup {y}
      BY <1>0, <1>3, <2>2 DEF Lookup, Claimed, Marked, Goto, TypeOK
    <3>3. Kept(db') /\ Earned(db') /\ disk' = disk
      BY <1>0, <1>3, RowEffects, RowsEarned DEF Lookup, storeVars
    <3> QED  BY <1>0, <2>2, <3>1, <3>2, <3>3 DEF Claiming, Goto, Tasks
  <2> QED  BY <1>3, <2>1, <2>2 DEF Lookup
<1>4. CASE InsertEx(x)
  <2>1. Calm /\ pc'[x] # "start"
    BY <1>0, <1>4, GotoCalm DEF InsertEx, execVars, Goto, Marked
  <2>2. CASE HasWs(Target[x]) /\ KeyFree(x) /\ Write(ExInserted(x))
    BY <1>0, <1>4, <2>1, <2>2, RowEffects, RowsEarned DEF InsertEx, Write, RowsChange
  <2> QED  BY <1>4, <2>1, <2>2, ReadOrCommit DEF InsertEx
<1>5. CASE CommitInsert(x)
  <2>1. CASE Commit /\ Goto(x, "start")
    BY <1>0, <1>5, <2>1 DEF CommitInsert, execVars, Commit, Goto, Calm, Claimed, Marked,
                            RowsChange, Save, Tasks
  <2>2. CASE CommitFails /\ Goto(x, "error")
    BY <1>0, <1>5, <2>2, GotoCalm, ReadOrCommit DEF CommitInsert, execVars, Marked
  <2> QED  BY <1>5, <2>1, <2>2 DEF CommitInsert, CommitThen
<1>6. CASE Start(x)
  <2>1. ran' = ran /\ answer' = answer /\ pc[x] = "start"
    BY <1>6 DEF Start, execVars
  <2>2. CASE Write(ExUpdated(x, "running")) /\ Goto(x, "commitMissing")
    BY <1>0, <2>1, <2>2, GotoCalm, RowEffects, RowsEarned DEF Write, RowsChange, Marked
  <2>3. CASE WriteFails /\ Goto(x, "error")
    BY <1>0, <2>1, <2>3, GotoCalm, ReadOrCommit DEF Marked
  <2>4. ASSUME HasEx(x), Write(ExUpdated(x, "running")), Goto(x, "commitStart")
        PROVE  Claiming(x)
    <3>1. Recorded(disk, x)
      BY <2>1, <2>4 DEF IndInv, InsertSaved
    <3>2. Kept(db') /\ Earned(db') /\ disk' = disk
      BY <1>0, <2>1, <2>4, RowEffects, RowsEarned DEF Write
    <3>3. Claimed' \subseteq Claimed \cup {x}
      BY <1>0, <2>1, <2>4 DEF Goto, Claimed
    <3> QED  BY <1>0, <2>4, <3>1, <3>2, <3>3 DEF Claiming, Goto, Tasks
  <2> QED  BY <1>6, <2>2, <2>3, <2>4 DEF Start, UpdateThen
<1>7. CASE CommitStart(x)
  <2>1. Calm
    BY <1>0, <1>7, GotoCalm DEF CommitStart, CommitThen, execVars, Marked
  <2> QED  BY <1>7, <2>1, ReadOrCommit DEF CommitStart, CommitThen
<1>8. CASE Session(x)
  <2>1. Calm
    BY <1>0, <1>8 DEF Session, Goto, Calm, Claimed, Marked, Tasks
  <2> QED  BY <1>0, <1>8, <2>1, RowsEarned DEF Session, RowsChange, Kept
<1>9. CASE Executed(x)
  <2>1. Calm
    BY <1>0, <1>9, GotoCalm DEF Executed, Marked
  <2> QED  BY <1>0, <1>9, <2>1, RowsEarned DEF Executed, RowsChange, Kept
<1>10. CASE Finish(x) \/ Fail(x)
  BY <1>0, <1>1, <1>10 DEF Finish, Fail, execVars, Terminal, Marked
<1>11. CASE CommitFinish(x)
  <2>1. Calm
    BY <1>0, <1>11 DEF CommitFinish, CommitThen, Goto, Calm, Claimed, Marked, Tasks, TypeOK
  <2> QED  BY <1>11, <2>1, ReadOrCommit DEF CommitFinish, CommitThen
<1>12. CASE CommitFail(x)
  <2>1. Calm
    BY <1>0, <1>12, GotoCalm DEF CommitFail, CommitThen, execVars, Marked
  <2> QED  BY <1>12, <2>1, ReadOrCommit DEF CommitFail, CommitThen
<1> QED
  BY <1>2, <1>3, <1>4, <1>5, <1>6, <1>7, <1>8, <1>9, <1>10, <1>11, <1>12 DEF ExecStep

\* A cancellation claims nothing.
LEMMA CancelCalm ==
    ASSUME IndInv, NEW t \in Tasks, Cancel(t)
    PROVE  Calm /\ RowsChange
<1>0. /\ TypeOK /\ Target[t] \in Workspaces /\ Staged /\ ran' = ran /\ answer' = answer
      /\ t \in Execs => outcome[t] \in Terminal
  BY DEF IndInv, TypeOK, Staged, Cancel, execVars
<1>1. Calm /\ pc'[t] = "cancelled"
  BY <1>0, GotoCalm DEF Marked, Cancel, Goto, TypeOK
<1>2. ASSUME Write(Written(t))  PROVE RowsChange
  <2>1. CASE t \in Execs
    <3>1. pc[t] \notin {"insertWs", "markWs", "deleteWs"}
      BY <1>0, <2>1, StageKinds DEF Staged, Ended, ExecStages
    <3>2. CASE pc[t] = "insertEx" /\ HasWs(Target[t]) /\ KeyFree(t)
      <4>1. Queued(ExInserted(t), t)
        BY <1>0, <1>1, <2>1, <3>2, RowEffects
      <4>2. Written(t) = ExInserted(t)
        BY <3>2 DEF Written
      <4> QED  BY <1>0, <1>2, <2>1, <4>1, <4>2, RowsEarned DEF Write, RowsChange
    <3>3. CASE ~(pc[t] = "insertEx" /\ HasWs(Target[t]) /\ KeyFree(t))
      <4>1. Written(t) \in {ExUpdated(t, "running"), ExUpdated(t, outcome[t]),
                            ExUpdated(t, "failed"), db}
        BY <3>1, <3>3 DEF Written
      <4>2. Kept(Written(t))
        BY <1>0, <2>1, <4>1, RowEffects DEF Terminal
      <4>3. Earned(Written(t))
        <5>1. pc[t] \in {"start", "finish", "fail"} => pc[t] = "start" \/ t \in Claimed
          BY <2>1 DEF Claimed, Marked
        <5>2. pc[t] \notin {"start", "finish", "fail"} => Written(t) = db
          BY <3>1, <3>3 DEF Written
        <5> QED  BY <1>0, <2>1, <4>1, <5>1, <5>2, RowsEarned DEF Terminal
      <4> QED  BY <1>2, <4>2, <4>3 DEF Write, RowsChange
    <3> QED  BY <3>2, <3>3
  <2>2. CASE t \notin Execs
    <3>1. pc[t] \notin {"insertEx", "start", "finish", "fail"}
      BY <1>0, <2>2, StageKinds DEF Staged, Ended, CreateStages, DeleteStages, Tasks
    <3>2. CASE pc[t] = "insertWs"
      <4>1. t \in Creates
        BY <1>0, <3>2, StageKinds DEF Staged, Tasks, Ended, DeleteStages, ExecStages
      <4>2. Born(WsInserted(Target[t]), t)
        BY <1>0, <1>1, <3>2, <4>1, RowEffects
      <4>3. Written(t) = WsInserted(Target[t])
        BY <3>2 DEF Written
      <4> QED  BY <1>0, <1>2, <4>1, <4>2, <4>3, RowsEarned DEF Write, RowsChange
    <3>3. CASE pc[t] = "deleteWs"
      <4>1. Written(t) = WsDeleted(Target[t])
        BY <3>3 DEF Written
      <4> QED  BY <1>0, <1>2, <4>1, RowEffects, RowsEarned DEF Write, RowsChange
    <3>4. CASE pc[t] \notin {"insertWs", "deleteWs"}
      <4>1. Written(t) \in {WsMarked(Target[t]), db}
        BY <3>1, <3>4 DEF Written
      <4>2. Kept(Written(t))
        BY <1>0, <4>1, RowEffects
      <4> QED  BY <1>0, <1>2, <4>1, <4>2, RowsEarned DEF Write, RowsChange
    <3> QED  BY <3>2, <3>3, <3>4
  <2> QED  BY <2>1, <2>2
<1> QED  BY <1>1, <1>2, ReadOrCommit DEF Cancel

\* A crash claims nothing.
LEMMA CrashCalm == IndInv /\ Crash => Calm /\ RowsChange
<1> SUFFICES ASSUME IndInv, Crash PROVE Calm /\ RowsChange
  OBVIOUS
<1>1. Calm
  BY DEF Crash, Calm, Claimed, Marked, execVars, Tasks, IndInv, TypeOK
<1> QED  BY <1>1 DEF Crash, Reopened, RowsChange, Rollback

\* A stutter claims nothing.
LEMMA StutterCalm == UNCHANGED vars => Calm /\ RowsChange
<1> SUFFICES ASSUME UNCHANGED vars PROVE Calm /\ RowsChange
  OBVIOUS
<1> QED  BY ReadOrCommit DEF vars, storeVars, Calm, Claimed

\* The claim of x: its row is visible, so the unique index keeps every other claim to
\* its key away, and its INSERT is committed.
LEMMA ClaimStep ==
    ASSUME IndInv, NEW x \in Execs, Claiming(x)
    PROVE  StoreInv' /\ InsertSaved' /\ Unborn' /\ OneClaim'
<1> USE DEF HasWs, HasEx
<1>0. /\ \A t \in Tasks : Target[t] \in Workspaces
      /\ Execs \subseteq Tasks /\ Creates \subseteq Tasks /\ Claimed \subseteq Execs
      /\ TypeOK /\ disk' = disk /\ Claimed' \subseteq Claimed \cup {x}
  BY DEF Tasks, Claimed, IndInv, TypeOK, Claiming
<1>1. /\ db.ex[x] # "none" /\ db.ws[Target[x]] # "absent"
      /\ Recorded(db, x) /\ Recorded(disk, x)
  BY DEF Claiming, IndInv, StoreInv, Owned, Recorded
<1>2. OneClaim'
  BY <1>0, <1>1 DEF OneClaim, IndInv, StoreInv, Unique, Recorded, SameKey
<1>3. StoreInv'
  BY <1>0, <1>1 DEF IndInv, StoreInv, Unique, Owned, Recorded, Claiming, Kept
<1>4. InsertSaved'
  BY <1>0 DEF IndInv, StoreInv, InsertSaved, Recorded, Claiming, Kept, Earned
<1>5. Unborn'
  BY <1>0, <1>1 DEF IndInv, Unborn, Claiming, Kept
<1> QED  BY <1>2, <1>3, <1>4, <1>5

\* The invariant holds at first.
LEMMA InitInd == Init => IndInv
<1> SUFFICES ASSUME Init PROVE IndInv
  OBVIOUS
<1>1. Claimed = {}
  BY DEF Init, Claimed, Marked, Tasks
<1>2. /\ \A t \in Creates : Target[t] \in Workspaces /\ Target[t] \notin Existing
      /\ \A t \in Creates : db.ws[Target[t]] = "absent"
  BY DEF Init, Existing, Tasks
<1> QED  BY <1>1, <1>2, InitTyped DEF IndInv, Init, StoreInv, Unique, Owned, InsertSaved, HasEx,
            Advanced, Terminal, Unborn, OneClaim, Tasks

\* Every step preserves the invariant.
LEMMA NextInd == IndInv /\ [Next]_vars => IndInv'
<1> SUFFICES ASSUME IndInv, [Next]_vars PROVE IndInv'
  OBVIOUS
<1>1. TypeOK'
  BY NextTyped DEF IndInv
<1>2. CASE Calm /\ RowsChange
  BY <1>1, <1>2, CalmStep DEF IndInv
<1>3. ASSUME NEW x \in Execs, ExecStep(x)  PROVE IndInv'
  BY <1>1, <1>2, <1>3, ExecCalm, ClaimStep DEF IndInv
<1> QED
  BY <1>2, <1>3, WorkspaceCalm, CancelCalm, CrashCalm, StutterCalm DEF Next, AllEnded

\* A command with an idempotency key is run at most once in its workspace, whatever
\* retries, cancellations, failures, rollbacks and crashes there are.
THEOREM RunsOnce == Spec => []AtMostOnce
<1>1. IndInv => AtMostOnce
  BY DEF IndInv, OneClaim, AtMostOnce, Claimed
<1> QED  BY <1>1, InitInd, NextInd, PTL DEF Spec

\* What has run is on record on disk, until its workspace is deleted.
THEOREM RunsRecorded == Spec => []RunOnRecord
<1>1. IndInv => RunOnRecord
  BY DEF IndInv, StoreInv, RunOnRecord, Recorded, Claimed
<1> QED  BY <1>1, InitInd, NextInd, PTL DEF Spec

------------------------------------------------------------------------------
(* The promise.  A status that rows or callers have been given is the outcome *)
(* of its exec, which no longer changes; so no step but the beginning and the *)
(* end of a command touches OutcomeInv, as long as it writes such statuses.   *)

Steady ==
    /\ UNCHANGED execVars /\ Final(db') /\ Final(disk')
    /\ \A x \in Execs : /\ pc'[x] \in Before => pc[x] \in Before
                        /\ pc'[x] \in {"executing", "fail"} => pc[x] = pc'[x]
                        /\ pc[x] = "done" => pc'[x] = "done"

\* A steady step preserves OutcomeInv.
LEMMA SteadyStep == TypeOK /\ OutcomeInv /\ Steady => OutcomeInv'
<1> SUFFICES ASSUME TypeOK, OutcomeInv, Steady PROVE OutcomeInv'
  OBVIOUS
<1>1. \A x \in Execs : Settled(x) => Settled(x)'
  BY DEF Settled, Steady
<1>2. RanInOrder'
  BY DEF OutcomeInv, RanInOrder, Steady, execVars
<1>3. Final(db)' /\ Final(disk)'
  BY <1>1 DEF Final, Steady, execVars
<1>4. \A x \in Execs : answer[x] # NoAnswer => answer[x].of \in Execs
  BY DEF TypeOK, Answers
<1>5. AnsweredInOrder'
  BY <1>1, <1>4 DEF OutcomeInv, AnsweredInOrder, Steady, execVars
<1> QED  BY <1>2, <1>3, <1>5 DEF OutcomeInv

\* A call that goes on without starting or ending a command is steady.
LEMMA GotoSteady ==
    ASSUME TypeOK, NEW t \in Tasks, NEW l, Goto(t, l), UNCHANGED execVars,
           Final(db'), Final(disk'), pc[t] # "done",
           l \notin {"executing", "fail"}, l \in Before => pc[t] \in Before
    PROVE  Steady
BY DEF Steady, Goto, TypeOK, Tasks

\* What the statements write.
LEMMA RowsFinal ==
    ASSUME TypeOK, OutcomeInv
    PROVE  /\ Final(db) /\ Final(disk)
           /\ \A w \in Workspaces : Final(WsInserted(w)) /\ Final(WsMarked(w)) /\ Final(WsDeleted(w))
           /\ \A x \in Execs : Final(ExInserted(x)) /\ Final(ExUpdated(x, "running"))
           /\ \A x \in Execs : Settled(x) => Final(ExUpdated(x, outcome[x]))
<1>0. db \in Rows /\ Final(db) /\ Final(disk)
  BY DEF TypeOK, OutcomeInv
<1>1. \A w \in Workspaces : Final(WsInserted(w)) /\ Final(WsMarked(w)) /\ Final(WsDeleted(w))
  BY <1>0 DEF Final, Terminal, WsInserted, WsMarked, WsDeleted, Rows
<1>2. \A x \in Execs : Final(ExInserted(x)) /\ Final(ExUpdated(x, "running"))
  BY <1>0 DEF Final, Terminal, ExInserted, ExUpdated, Rows
<1>3. \A x \in Execs : Settled(x) => Final(ExUpdated(x, outcome[x]))
  BY <1>0 DEF Final, ExUpdated, Rows
<1> QED  BY <1>0, <1>1, <1>2, <1>3

\* Commits and failures leave statuses that are final.
LEMMA CommitFinal ==
    OutcomeInv /\ (Commit \/ CommitFails \/ WriteFails \/ UNCHANGED storeVars)
        => Final(db') /\ Final(disk')
<1> SUFFICES ASSUME OutcomeInv, Commit \/ CommitFails \/ WriteFails \/ UNCHANGED storeVars
             PROVE  Final(db') /\ Final(disk')
  OBVIOUS
<1>1. db' \in {db, disk} /\ disk' \in {db, disk}
  BY DEF Commit, CommitFails, WriteFails, storeVars
<1> QED  BY <1>1 DEF OutcomeInv

\* The steps of create and delete are steady.
LEMMA WorkspaceSteady ==
    ASSUME TypeOK, OutcomeInv, NEW t \in Tasks, WorkspaceStep(t), UNCHANGED execVars
    PROVE  Steady
<1>0. Target[t] \in Workspaces
  BY DEF TypeOK
<1>1. ASSUME NEW rows, Write(rows), Final(rows)  PROVE Final(db') /\ Final(disk')
  BY <1>1 DEF Write, OutcomeInv
<1>2. CASE MakeDir(t) \/ CommitWs(t) \/ FindDoomed(t) \/ CommitDelete(t) \/ CommitMissing(t)
  <2>1. Final(db') /\ Final(disk')
    BY <1>2, CommitFinal DEF MakeDir, CommitWs, FindDoomed, CommitDelete, CommitMissing
  <2> QED  BY <1>2, <2>1, GotoSteady DEF MakeDir, CommitWs, FindDoomed, CommitDelete,
                                         CommitMissing, CreateRolledBack, Before
<1>3. CASE MakeDirFails(t)
  BY <1>3, GotoSteady DEF MakeDirFails, OutcomeInv, Before
<1>4. CASE InsertWs(t) \/ MarkWs(t) \/ DeleteWs(t)
  <2>1. Final(db') /\ Final(disk')
    BY <1>0, <1>1, <1>4, RowsFinal, CommitFinal DEF InsertWs, MarkWs, DeleteWs
  <2> QED  BY <1>4, <2>1, GotoSteady DEF InsertWs, MarkWs, DeleteWs, CreateRolledBack, Before
<1>5. CASE CommitMark(t)
  <2>1. Final(db') /\ Final(disk')
    BY <1>5, CommitFinal DEF CommitMark, OutcomeInv
  <2> QED  BY <1>5, <2>1, GotoSteady DEF CommitMark, Before
<1> QED  BY <1>2, <1>3, <1>4, <1>5 DEF WorkspaceStep

\* A cancellation writes at most what the exec would have written.
LEMMA CancelSteady ==
    ASSUME TypeOK, OutcomeInv, NEW t \in Tasks, Cancel(t)
    PROVE  Steady
<1>0. Target[t] \in Workspaces /\ Staged
  BY DEF TypeOK, Staged
<1>1. Final(Written(t))
  <2>1. CASE t \in Execs
    <3>1. pc[t] \notin {"insertWs", "markWs", "deleteWs"}
      BY <1>0, <2>1, StageKinds DEF Staged, Ended, ExecStages
    <3>2. CASE pc[t] \in {"finish", "fail"}
      <4>1. Settled(t) /\ Written(t) = ExUpdated(t, outcome[t])
        BY <2>1, <3>2 DEF Settled, Before, Written, OutcomeInv, RanInOrder
      <4> QED  BY <2>1, <4>1, RowsFinal
    <3>3. CASE pc[t] \notin {"finish", "fail"}
      <4>1. Written(t) \in {ExInserted(t), ExUpdated(t, "running"), db}
        BY <3>1, <3>3 DEF Written
      <4> QED  BY <2>1, <4>1, RowsFinal
    <3> QED  BY <3>2, <3>3
  <2>2. CASE t \notin Execs
    <3>1. pc[t] \notin {"insertEx", "start", "finish", "fail"}
      BY <1>0, <2>2, StageKinds DEF Staged, Ended, CreateStages, DeleteStages, Tasks
    <3>2. Written(t) \in {WsInserted(Target[t]), WsMarked(Target[t]), WsDeleted(Target[t]), db}
      BY <3>1 DEF Written
    <3> QED  BY <1>0, <3>2, RowsFinal
  <2> QED  BY <2>1, <2>2
<1>2. Final(db') /\ Final(disk')
  BY <1>1, CommitFinal DEF Cancel, Write, OutcomeInv
<1>3. pc[t] # "done"
  BY DEF Cancel, Calling, CreateStages, DeleteStages, ExecStages
<1> QED  BY <1>2, <1>3, GotoSteady DEF Cancel, Before

\* A crash takes final statuses away, and puts the committed ones in their place.
LEMMA CrashSteady == TypeOK /\ OutcomeInv /\ Crash => Steady
<1> SUFFICES ASSUME TypeOK, OutcomeInv, Crash PROVE Steady
  OBVIOUS
<1>1. Final(db') /\ Final(disk')
  BY DEF Crash, Reopened, OutcomeInv
<1>2. \A x \in Execs : pc'[x] = IF pc[x] \in Calling THEN "lost" ELSE pc[x]
  BY DEF Crash, Tasks
<1>3. "done" \notin Calling
  BY DEF Calling, CreateStages, DeleteStages, ExecStages
<1> QED  BY <1>1, <1>2, <1>3 DEF Steady, Crash, Before

\* A stutter is steady.
LEMMA StutterSteady == OutcomeInv /\ UNCHANGED vars => Steady
<1> SUFFICES ASSUME OutcomeInv, UNCHANGED vars PROVE Steady
  OBVIOUS
<1>1. Final(db') /\ Final(disk')
  BY CommitFinal DEF vars, storeVars
<1> QED  BY <1>1 DEF vars, execVars, Steady

\* The steps of exec that neither start a command nor settle anything are steady.
LEMMA ExecSteady ==
    ASSUME TypeOK, OutcomeInv, NEW x \in Execs, ExecStep(x),
           ~(Lookup(x) \/ Session(x) \/ Executed(x) \/ CommitFinish(x))
    PROVE  Steady
<1>0. x \in Tasks
  BY DEF Tasks
<1>1. ASSUME NEW s, NEW l, UpdateThen(x, s, l), Final(ExUpdated(x, s))
      PROVE  Final(db') /\ Final(disk')
  BY <1>1, CommitFinal DEF UpdateThen, Write, OutcomeInv
<1>2. CASE FindWs(x)
  BY <1>0, <1>2, GotoSteady, CommitFinal DEF FindWs, Before
<1>3. CASE InsertEx(x)
  <2>1. Final(db') /\ Final(disk')
    BY <1>3, RowsFinal, CommitFinal DEF InsertEx, Write, OutcomeInv
  <2> QED  BY <1>0, <1>3, <2>1, GotoSteady DEF InsertEx, Before
<1>4. CASE CommitInsert(x) \/ CommitStart(x) \/ CommitFail(x)
  <2>1. Final(db') /\ Final(disk')
    BY <1>4, CommitFinal DEF CommitInsert, CommitStart, CommitFail, CommitThen
  <2> QED  BY <1>0, <1>4, <2>1, GotoSteady DEF CommitInsert, CommitStart, CommitFail, CommitThen,
                                               Before
<1>5. CASE Start(x)
  <2>1. Final(db') /\ Final(disk')
    BY <1>1, <1>5, RowsFinal DEF Start
  <2> QED  BY <1>0, <1>5, <2>1, GotoSteady DEF Start, UpdateThen, Before
<1>6. CASE Finish(x) \/ Fail(x)
  <2>1. Settled(x) /\ (Fail(x) => outcome[x] = "failed")
    BY <1>6 DEF Finish, Fail, Settled, Before, OutcomeInv, RanInOrder
  <2>2. Final(db') /\ Final(disk')
    BY <1>1, <1>6, <2>1, RowsFinal DEF Finish, Fail
  <2> QED  BY <1>0, <1>6, <2>2, GotoSteady DEF Finish, Fail, UpdateThen, Before
<1> QED  BY <1>2, <1>3, <1>4, <1>5, <1>6 DEF ExecStep

\* Until its command has ended an exec has no final status, and nobody an answer about it.
LEMMA Unsettled ==
    ASSUME TypeOK, OutcomeInv, NEW x \in Execs, ~Settled(x)
    PROVE  /\ db.ex[x] \notin Terminal /\ disk.ex[x] \notin Terminal
           /\ \A z \in Execs : answer[z] # NoAnswer => answer[z].of # x
BY DEF OutcomeInv, Final, AnsweredInOrder

\* The start and the end of the command of x set its outcome while it is not settled.
LEMMA OutcomeSet ==
    ASSUME TypeOK, OutcomeInv, NEW x \in Execs, Session(x) \/ Executed(x)
    PROVE  OutcomeInv'
<1>0. /\ x \in Tasks /\ ~Settled(x) /\ pc[x] \in {"session", "executing"}
      /\ db' = db /\ disk' = disk /\ answer' = answer
  BY DEF Session, Executed, Tasks, Settled, Before
<1>1. /\ \A y \in Execs : y # x => pc'[y] = pc[y] /\ outcome'[y] = outcome[y]
      /\ \A y \in Execs : y # x => (y \in ran' <=> y \in ran)
      /\ pc'[x] \in {"executing", "finish", "fail", "error"}
  <2>1. CASE Session(x)
    BY <1>0, <2>1 DEF Session, Goto, TypeOK, Tasks
  <2>2. CASE Executed(x)
    BY <1>0, <2>2 DEF Executed, Goto, TypeOK, Tasks
  <2> QED  BY <2>1, <2>2
<1>2. /\ pc'[x] = "executing" => x \in ran'
      /\ pc'[x] = "fail" => outcome'[x] = "failed"
      /\ outcome'[x] # "failed" => x \in ran'
  BY <1>0 DEF Session, Executed, Goto, TypeOK, OutcomeInv, RanInOrder, Before
<1>3. RanInOrder'
  BY <1>1, <1>2 DEF OutcomeInv, RanInOrder, Before
<1>4. \A y \in Execs : y # x => (Settled(y)' <=> Settled(y))
  BY <1>1 DEF Settled
<1>5. Final(db)' /\ Final(disk)'
  BY <1>0, <1>1, <1>4, Unsettled DEF OutcomeInv, Final
<1>6. \A z \in Execs : answer[z] # NoAnswer => answer[z].of \in Execs \ {x}
  BY <1>0, Unsettled DEF TypeOK, Answers
<1>7. AnsweredInOrder'
  BY <1>0, <1>1, <1>4, <1>6 DEF OutcomeInv, AnsweredInOrder
<1> QED  BY <1>3, <1>5, <1>7 DEF OutcomeInv

\* A lookup with a hit answers with the outcome of y, which is settled.
LEMMA LookupAnswers ==
    ASSUME TypeOK, OutcomeInv, NEW x \in Execs, Lookup(x)
    PROVE  OutcomeInv'
<1>0. /\ x \in Tasks /\ pc[x] = "lookup" /\ UNCHANGED <<db, disk, outcome, ran>>
      /\ pc'[x] \in {"done", "insertEx"} /\ \A y \in Execs : y # x => pc'[y] = pc[y]
  BY DEF Lookup, storeVars, Tasks, Goto, TypeOK
<1>1. \A y \in Execs : Settled(y) => Settled(y)'
  BY <1>0 DEF Settled, Before
<1>2. RanInOrder'
  BY <1>0 DEF OutcomeInv, RanInOrder, Before
<1>3. Final(db)' /\ Final(disk)'
  BY <1>0, <1>1 DEF OutcomeInv, Final
<1>4. \A z \in Execs : answer[z] # NoAnswer => answer[z].of \in Execs
  BY DEF TypeOK, Answers
<1>5. \A z \in Execs : z # x => answer'[z] = answer[z]
  BY DEF Lookup, TypeOK
<1>6. /\ pc'[x] # "done" => answer'[x] = NoAnswer
      /\ answer'[x] # NoAnswer => \E y \in Execs :
            /\ SameKey(x, y) /\ answer'[x].of = y /\ answer'[x].status = outcome[y] /\ Settled(y)
  BY <1>0 DEF Lookup, Cached, OutcomeInv, AnsweredInOrder, Final, Goto, TypeOK
<1>7. AnsweredInOrder'
  BY <1>0, <1>1, <1>4, <1>5, <1>6 DEF OutcomeInv, AnsweredInOrder
<1> QED  BY <1>2, <1>3, <1>7 DEF OutcomeInv

\* An exec that commits its final status answers with its outcome.
LEMMA FinishAnswers ==
    ASSUME TypeOK, OutcomeInv, NEW x \in Execs, CommitFinish(x)
    PROVE  OutcomeInv'
<1>0. /\ x \in Tasks /\ pc[x] = "commitFinish" /\ UNCHANGED <<outcome, ran>>
      /\ pc'[x] \in {"done", "error"} /\ \A y \in Execs : y # x => pc'[y] = pc[y]
  BY DEF CommitFinish, CommitThen, Tasks, Goto, TypeOK
<1>1. \A y \in Execs : Settled(y) => Settled(y)'
  BY <1>0 DEF Settled, Before
<1>2. RanInOrder'
  BY <1>0 DEF OutcomeInv, RanInOrder, Before
<1>3. Final(db)' /\ Final(disk)'
  <2>1. Final(db') /\ Final(disk')
    BY CommitFinal DEF CommitFinish, CommitThen
  <2> QED  BY <1>0, <1>1, <2>1 DEF Final
<1>4. \A z \in Execs : answer[z] # NoAnswer => answer[z].of \in Execs
  BY DEF TypeOK, Answers
<1>5. \A z \in Execs : z # x => answer'[z] = answer[z]
  BY DEF CommitFinish, TypeOK
<1>6. /\ pc'[x] # "done" => answer'[x] = NoAnswer
      /\ answer'[x] # NoAnswer =>
            answer'[x].of = x /\ answer'[x].status = outcome[x] /\ Settled(x)
  BY <1>0 DEF CommitFinish, OutcomeInv, AnsweredInOrder, TypeOK, Settled, Before
<1>7. AnsweredInOrder'
  BY <1>0, <1>1, <1>4, <1>5, <1>6 DEF OutcomeInv, AnsweredInOrder
<1> QED  BY <1>2, <1>3, <1>7 DEF OutcomeInv

\* OutcomeInv holds at first.
LEMMA InitOutcome == Init => OutcomeInv
BY DEF Init, OutcomeInv, RanInOrder, Final, AnsweredInOrder, Tasks, Terminal

\* Every step preserves OutcomeInv.
LEMMA NextOutcome == TypeOK /\ OutcomeInv /\ [Next]_vars => OutcomeInv'
<1> SUFFICES ASSUME TypeOK, OutcomeInv, [Next]_vars PROVE OutcomeInv'
  OBVIOUS
<1>1. ASSUME NEW x \in Execs, ExecStep(x)  PROVE OutcomeInv'
  BY <1>1, ExecSteady, SteadyStep, OutcomeSet, LookupAnswers, FinishAnswers
<1> QED
  BY <1>1, WorkspaceSteady, CancelSteady, CrashSteady, StutterSteady, SteadyStep DEF Next, AllEnded

\* Who answers with the status of y: all answers to that key so far are about y.
LEMMA OneAnswer ==
    ASSUME IndInv, OutcomeInv, NEW x \in Execs, NEW y \in Execs, Promise!Same(x, y),
           answer[x] = NoAnswer, y \in Claimed \/ HasEx(y)
    PROVE  \A z \in Execs : Promise!Same(x, z) /\ answer[z] # NoAnswer
               => answer[z] = [of |-> y, status |-> outcome[y]]
<1> SUFFICES ASSUME NEW z \in Execs, Promise!Same(x, z), answer[z] # NoAnswer
             PROVE  answer[z] = [of |-> y, status |-> outcome[y]]
  OBVIOUS
<1>1. /\ answer[z] \in Answers /\ answer[z].of \in Claimed
      /\ z = answer[z].of \/ SameKey(z, answer[z].of)
      /\ answer[z].status = outcome[answer[z].of]
  BY DEF IndInv, TypeOK, OutcomeInv, AnsweredInOrder, Answers, Claimed
<1>2. x # z /\ (SameKey(answer[z].of, y) \/ answer[z].of = y)
  BY <1>1 DEF Promise!Same, SameKey
<1>3. CASE y \in Claimed
  <2>1. answer[z].of = y
    BY <1>1, <1>2, <1>3 DEF IndInv, OneClaim
  <2> QED  BY <1>1, <2>1 DEF Answers
<1>4. CASE HasEx(y)
  <2>1. db.ws[Target[y]] # "absent"
    BY <1>4 DEF IndInv, StoreInv, Owned, HasEx
  <2>2. db.ex[answer[z].of] # "none"
    BY <1>1, <1>2, <1>4, <2>1 DEF IndInv, StoreInv, Recorded, SameKey, HasEx
  <2>3. answer[z].of = y
    BY <1>1, <1>2, <1>4, <2>2 DEF IndInv, StoreInv, Unique, HasEx, Answers
  <2> QED  BY <1>1, <2>3 DEF Answers
<1> QED  BY <1>3, <1>4

\* A session that starts its command is Run, a hit and the end of an exec are Answer, and
\* no other step says or starts anything.
LEMMA PromiseStep ==
    IndInv /\ OutcomeInv /\ [Next]_vars => [Promise!Next]_(Promise!keyedVars)
<1> SUFFICES ASSUME IndInv, OutcomeInv, [Next]_vars
             PROVE  Promise!Next \/ UNCHANGED <<ran, answer>>
  BY DEF Promise!keyedVars
<1>1. ASSUME NEW x \in Execs, Session(x)  PROVE Promise!Run(x) \/ UNCHANGED <<ran, answer>>
  <2>1. /\ x \in Claimed /\ x \notin ran /\ answer[x] = NoAnswer /\ ~Settled(x)
    BY <1>1 DEF Session, Claimed, Marked, Settled, Before, OutcomeInv, RanInOrder, AnsweredInOrder
  <2>2. ASSUME NEW y \in Execs, Promise!Same(x, y)  PROVE y \notin ran /\ answer[y] = NoAnswer
    <3>1. y \notin ran
      BY <2>1, <2>2 DEF IndInv, OneClaim, Claimed, Promise!Same, SameKey
    <3>2. answer[y] = NoAnswer
      <4>1. \A z \in Execs : Promise!Same(x, z) /\ answer[z] # NoAnswer
                => answer[z] = [of |-> x, status |-> outcome[x]]
        BY <2>1, OneAnswer DEF Promise!Same
      <4>2. answer[y] # NoAnswer => answer[y].of = x
        BY <2>2, <4>1
      <4> QED  BY <2>1, <4>2 DEF OutcomeInv, AnsweredInOrder
    <3> QED  BY <3>1, <3>2
  <2> QED  BY <1>1, <2>1, <2>2 DEF Session, Promise!Run
<1>2. ASSUME NEW x \in Execs, Lookup(x)  PROVE Promise!Next \/ UNCHANGED <<ran, answer>>
  <2>1. ASSUME NEW y \in Execs, Cached(x, y),
               answer' = [answer EXCEPT ![x] = [of |-> y, status |-> db.ex[y]]]
        PROVE  Promise!Answer(x, y, db.ex[y]) /\ db.ex[y] \in Terminal
    <3>1. /\ answer[x] = NoAnswer /\ Promise!Same(x, y) /\ HasEx(y) /\ ran' = ran
          /\ db.ex[y] \in Terminal /\ db.ex[y] = outcome[y]
      BY <1>2, <2>1 DEF Lookup, Cached, SameKey, Promise!Same, HasEx, Terminal, OutcomeInv, Final,
                        AnsweredInOrder
    <3>2. y \in ran \/ db.ex[y] = "failed"
      BY <3>1 DEF OutcomeInv, RanInOrder
    <3> QED  BY <2>1, <3>1, <3>2, OneAnswer DEF Promise!Answer
  <2>2. ran' = ran
    BY <1>2 DEF Lookup
  <2> QED  BY <1>2, <2>1, <2>2 DEF Lookup, Promise!Next
<1>3. ASSUME NEW x \in Execs, CommitFinish(x)  PROVE Promise!Next \/ UNCHANGED <<ran, answer>>
  <2>1. /\ x \in Claimed /\ answer[x] = NoAnswer /\ ran' = ran /\ Promise!Same(x, x)
        /\ x \in ran \/ outcome[x] = "failed"
        /\ outcome[x] \in Terminal
    BY <1>3 DEF CommitFinish, Claimed, Marked, Promise!Same, IndInv, TypeOK, OutcomeInv, RanInOrder,
                AnsweredInOrder
  <2>2. Promise!Answer(x, x, outcome[x]) \/ UNCHANGED <<ran, answer>>
    BY <1>3, <2>1, OneAnswer DEF CommitFinish, Promise!Answer
  <2> QED  BY <2>1, <2>2 DEF Promise!Next
<1>4. ASSUME NEW x \in Execs, ExecStep(x), ~(Lookup(x) \/ Session(x) \/ CommitFinish(x))
      PROVE  UNCHANGED <<ran, answer>>
  BY <1>4 DEF ExecStep, FindWs, InsertEx, CommitInsert, Start, CommitStart, Executed, Finish, Fail,
              CommitFail, execVars
<1> QED
  BY <1>1, <1>2, <1>3, <1>4 DEF Next, Cancel, Crash, AllEnded, vars, execVars, Promise!Next

\* ExecutionService implements KeyedCommands: callers who retry may rely on it across
\* cancellations, failures, rollbacks and crashes.
THEOREM KeepsTheirPromise == Spec => KeepsPromise
<1>1. Init => Promise!Init
  BY DEF Init, Promise!Init
<1>2. Init => IndInv /\ OutcomeInv
  BY InitInd, InitOutcome
<1>3. IndInv => TypeOK
  BY DEF IndInv
<1>4. IndInv /\ OutcomeInv /\ [Next]_vars => (IndInv /\ OutcomeInv)'
  <2> SUFFICES ASSUME IndInv, OutcomeInv, [Next]_vars PROVE (IndInv /\ OutcomeInv)'
    OBVIOUS
  <2>1. IndInv'
    BY NextInd
  <2>2. OutcomeInv'
    BY <1>3, NextOutcome
  <2> QED  BY <2>1, <2>2
<1> QED  BY <1>1, <1>2, <1>4, PromiseStep, PTL DEF Spec, KeepsPromise, Promise!Spec

------------------------------------------------------------------------------
(* What is on disk. *)

\* The statuses the row of an exec may have at a stage of it, visible or committed.
Allowed(l) ==
    CASE l \in {"new", "lookup", "insertEx"} -> {"none"}
      [] l \in {"commitInsert", "start"} -> {"none", "queued"}
      [] l \in {"commitStart", "session", "executing", "finish", "fail"} -> {"none", "queued", "running"}
      [] OTHER -> ExStatus

Ahead(a, b) == a = b \/ Rank(a) > Rank(b)

\* The visible status is never behind the committed one.
StatusInv ==
    \A x \in Execs :
        /\ db.ex[x] \in Allowed(pc[x]) /\ disk.ex[x] \in Allowed(pc[x])
        /\ db.ws[Target[x]] # "absent" => Ahead(db.ex[x], disk.ex[x])

\* No deletion of a workspace comes before its creation.
DoomedLate ==
    \A d \in Deletes, c \in Creates :
        Target[d] = Target[c] /\ pc[d] \in DeleteStages \cup {"done"} => pc[c] \notin {"new", "insertWs"}

DirInv ==
    /\ \A w \in Workspaces : "ready" \in {db.ws[w], disk.ws[w]} => w \in dirs
    /\ \A c \in Creates : pc[c] = "insertWs" => Target[c] \in dirs
    /\ \A d \in Deletes : pc[d] = "commitMark" => db.ws[Target[d]] # "ready"

Shows(rows, x) == rows.ex[x] = outcome[x] \/ rows.ws[Target[x]] = "absent"
There(rows, c) == rows.ws[Target[c]] # "absent" \/ DoomedOnDisk(Target[c])
Gone(rows, d) == rows.ws[Target[d]] = "absent"

DurableInv ==
    /\ \A x \in Execs :
          /\ pc[x] = "commitFinish" => Shows(db, x)
          /\ pc[x] = "done" => answer[x] \in Answers
          /\ pc[x] = "done" /\ answer[x].of = x =>
                Shows(db, x) /\ Shows(disk, x) /\ answer[x].status = outcome[x]
    /\ \A c \in Creates : /\ pc[c] = "commitWs" => There(db, c)
                          /\ pc[c] = "done" => There(db, c) /\ There(disk, c)
    /\ \A d \in Deletes : /\ pc[d] = "commitDelete" => Gone(db, d)
                          /\ pc[d] = "done" => Gone(db, d) /\ Gone(disk, d)

StoryInv == StatusInv /\ DoomedLate /\ (CommitNeverFailed => DirInv /\ DurableInv)

------------------------------------------------------------------------------
(* Statements. *)

\* The statements of an exec.
ExStatement(x, rows) ==
    \/ pc[x] = "insertEx" /\ rows = ExInserted(x)
    \/ pc[x] = "start" /\ rows = ExUpdated(x, "running")
    \/ pc[x] \in {"finish", "fail"} /\ rows = ExUpdated(x, outcome[x])

\* What a step may make of the visible rows, commits and rollbacks aside.
Statement(rows) ==
    \/ rows = db
    \/ \E c \in Creates : pc[c] = "insertWs" /\ rows = WsInserted(Target[c])
    \/ \E d \in Deletes : pc[d] = "markWs" /\ rows = WsMarked(Target[d])
    \/ \E d \in Deletes : pc[d] = "deleteWs" /\ rows = WsDeleted(Target[d])
    \/ \E x \in Execs : pc'[x] # pc[x] /\ ExStatement(x, rows)

RowStep ==
    \/ Save
    \/ Rollback /\ (Crash \/ ~CommitNeverFailed')
    \/ disk' = disk /\ Statement(db')

\* A commit, a failure or a step without any is one of these.
LEMMA EndOfStatement ==
    UNCHANGED storeVars \/ Commit \/ CommitFails \/ WriteFails => RowStep
<1> SUFFICES ASSUME UNCHANGED storeVars \/ Commit \/ CommitFails \/ WriteFails PROVE RowStep
  OBVIOUS
<1> QED  BY DEF RowStep, Save, Rollback, Statement, storeVars, Commit, CommitFails, WriteFails,
            Fault, CommitNeverFailed

\* Every step changes the rows in this way.
LEMMA StepRows ==
    ASSUME TypeOK, OutcomeInv, [Next]_vars
    PROVE  RowStep
<1>0. Staged
  BY DEF TypeOK, Staged
<1>1. ASSUME NEW t \in Tasks, WorkspaceStep(t)  PROVE RowStep
  <2>1. CASE MakeDir(t) \/ CommitWs(t) \/ FindDoomed(t) \/ CommitDelete(t) \/ CommitMissing(t)
    BY <2>1, EndOfStatement DEF MakeDir, CommitWs, FindDoomed, CommitDelete, CommitMissing
  <2>2. CASE MakeDirFails(t)
    BY <2>2 DEF MakeDirFails, RowStep, Statement
  <2>3. CASE InsertWs(t) \/ MarkWs(t) \/ DeleteWs(t)
    <3>1. /\ InsertWs(t) => t \in Creates
          /\ MarkWs(t) \/ DeleteWs(t) => t \in Deletes
      BY <1>0, StageKinds DEF InsertWs, MarkWs, DeleteWs, Staged, Tasks, Ended, CreateStages,
                              DeleteStages, ExecStages
    <3> QED  BY <2>3, <3>1, EndOfStatement DEF InsertWs, MarkWs, DeleteWs, Write, RowStep, Statement
  <2>4. CASE CommitMark(t)
    <3>1. CASE Fault("fs") /\ disk' = db /\ UNCHANGED <<db, dirs>>
      BY <3>1 DEF RowStep, Save
    <3> QED  BY <2>4, <3>1, EndOfStatement DEF CommitMark
  <2> QED  BY <1>1, <2>1, <2>2, <2>3, <2>4 DEF WorkspaceStep
<1>2. ASSUME NEW x \in Execs, ExecStep(x)  PROVE RowStep
  <2>0. \A l : Goto(x, l) => pc'[x] = l
    BY <1>0, <1>2 DEF Goto, Staged, Tasks
  <2>1. ASSUME NEW s, NEW l \in {"commitStart", "commitFinish", "commitFail"}, UpdateThen(x, s, l),
               \/ pc[x] = "start" /\ s = "running"
               \/ pc[x] \in {"finish", "fail"} /\ s = outcome[x]
        PROVE  RowStep
    <3>1. CASE WriteFails
      BY <3>1, EndOfStatement
    <3>2. CASE Write(ExUpdated(x, s)) /\ Goto(x, IF HasEx(x) THEN l ELSE "commitMissing")
      <4>1. pc'[x] \in {l, "commitMissing"}
        BY <2>0, <3>2
      <4> QED  BY <2>1, <3>2, <4>1 DEF Write, RowStep, Statement, ExStatement
    <3> QED  BY <2>1, <3>1, <3>2 DEF UpdateThen
  <2>2. CASE FindWs(x) \/ Lookup(x) \/ CommitInsert(x) \/ CommitStart(x) \/ CommitFinish(x)
             \/ CommitFail(x)
    BY <2>2, EndOfStatement DEF FindWs, Lookup, CommitInsert, CommitStart, CommitFinish,
                                CommitFail, CommitThen
  <2>3. CASE InsertEx(x)
    BY <2>0, <2>3, EndOfStatement DEF InsertEx, Write, RowStep, Statement, ExStatement
  <2>4. CASE Session(x) \/ Executed(x)
    BY <2>4 DEF Session, Executed, RowStep, Statement
  <2>5. CASE Start(x) \/ Finish(x)
    BY <2>1, <2>5 DEF Start, Finish
  <2>6. CASE Fail(x)
    <3>1. outcome[x] = "failed"
      BY <2>6 DEF Fail, OutcomeInv, RanInOrder
    <3> QED  BY <2>1, <2>6, <3>1 DEF Fail
  <2> QED  BY <1>2, <2>2, <2>3, <2>4, <2>5, <2>6 DEF ExecStep
<1>3. ASSUME NEW t \in Tasks, Cancel(t)  PROVE RowStep
  <2>1. ASSUME Write(Written(t))  PROVE RowStep
    <3>1. CASE t \in Execs
      <4>1. pc[t] \notin {"insertWs", "markWs", "deleteWs"}
        BY <1>0, <3>1, StageKinds DEF Staged, Ended, ExecStages
      <4>2. pc[t] = "fail" => outcome[t] = "failed"
        BY <3>1 DEF OutcomeInv, RanInOrder
      <4>3. pc[t] # pc'[t]
        BY <1>0, <1>3 DEF Cancel, Goto, Staged, Calling, CreateStages, DeleteStages, ExecStages
      <4> QED  BY <2>1, <3>1, <4>1, <4>2, <4>3 DEF Written, Write, RowStep, Statement, ExStatement
    <3>2. CASE t \in Creates
      <4>1. pc[t] \notin {"markWs", "deleteWs", "insertEx", "start", "finish", "fail"}
        BY <1>0, <3>2, StageKinds DEF Staged, Ended, CreateStages
      <4> QED  BY <2>1, <3>2, <4>1 DEF Written, Write, RowStep, Statement
    <3>3. CASE t \in Deletes
      <4>1. pc[t] \notin {"insertWs", "insertEx", "start", "finish", "fail"}
        BY <1>0, <3>3, StageKinds DEF Staged, Ended, DeleteStages
      <4> QED  BY <2>1, <3>3, <4>1 DEF Written, Write, RowStep, Statement
    <3> QED  BY <3>1, <3>2, <3>3 DEF Tasks
  <2> QED  BY <1>3, <2>1, EndOfStatement DEF Cancel
<1>4. CASE Crash
  BY <1>4 DEF Crash, Reopened, RowStep, Rollback
<1>5. CASE UNCHANGED vars
  BY <1>5, EndOfStatement DEF vars, storeVars
<1> QED  BY <1>1, <1>2, <1>3, <1>4, <1>5 DEF Next, AllEnded

\* What statements do to workspaces and to executions.
LEMMA StatementEffects ==
    ASSUME IndInv, StatusInv, NEW rows, Statement(rows)
    PROVE  /\ \A w \in Workspaces :
                 /\ rows.ws[w] = "ready" /\ db.ws[w] # "ready" =>
                       \E c \in Creates : Target[c] = w /\ pc[c] = "insertWs"
                 /\ rows.ws[w] # "absent" /\ db.ws[w] = "absent" =>
                       \E c \in Creates : Target[c] = w /\ pc[c] = "insertWs"
                 /\ rows.ws[w] = "absent" /\ db.ws[w] # "absent" =>
                       \E d \in Deletes : Target[d] = w /\ pc[d] # "new"
           /\ \A x \in Execs :
                 /\ rows.ws[Target[x]] = "absent" \/ Ahead(rows.ex[x], db.ex[x])
                 /\ \/ rows.ex[x] = db.ex[x] \/ rows.ws[Target[x]] = "absent"
                    \/ /\ pc[x] \in {"insertEx", "start", "finish", "fail"}
                       /\ pc'[x] # pc[x]
<1>0. /\ db \in Rows /\ \A t \in Tasks : Target[t] \in Workspaces
      /\ \A x \in Execs : db.ex[x] \in Allowed(pc[x]) /\ x \in Tasks
      /\ \A x \in Execs : outcome[x] \in Terminal
  BY DEF IndInv, TypeOK, Tasks, StatusInv
<1>1. CASE rows = db
  BY <1>1 DEF Ahead
<1>2. ASSUME NEW c \in Creates, pc[c] = "insertWs", rows = WsInserted(Target[c])
      PROVE  /\ \A x \in Execs : rows.ex[x] = db.ex[x]
             /\ \A w \in Workspaces : w # Target[c] => rows.ws[w] = db.ws[w]
             /\ rows.ws[Target[c]] = "ready"
  BY <1>0, <1>2 DEF WsInserted, Rows, Tasks
<1>3. ASSUME NEW d \in Deletes, pc[d] = "markWs", rows = WsMarked(Target[d])
      PROVE  /\ \A x \in Execs : rows.ex[x] = db.ex[x]
             /\ \A w \in Workspaces : rows.ws[w] = db.ws[w] \/ (rows.ws[w] = "deleting" /\ db.ws[w] # "absent")
  BY <1>0, <1>3 DEF WsMarked, HasWs, Rows, Tasks
<1>4. ASSUME NEW d \in Deletes, pc[d] = "deleteWs", rows = WsDeleted(Target[d])
      PROVE  /\ \A x \in Execs : rows.ex[x] = db.ex[x] \/ rows.ws[Target[x]] = "absent"
             /\ \A w \in Workspaces : w # Target[d] => rows.ws[w] = db.ws[w]
             /\ rows.ws[Target[d]] = "absent"
  BY <1>0, <1>4 DEF WsDeleted, Rows, Tasks
<1>5. ASSUME NEW x \in Execs, pc[x] = "insertEx", rows = ExInserted(x)
      PROVE  /\ rows.ws = db.ws /\ Ahead(rows.ex[x], db.ex[x])
             /\ \A y \in Execs : y # x => rows.ex[y] = db.ex[y]
  BY <1>0, <1>5 DEF ExInserted, Rows, Allowed, Ahead, Rank
<1>6. ASSUME NEW x \in Execs, pc[x] = "start", rows = ExUpdated(x, "running")
      PROVE  /\ rows.ws = db.ws /\ Ahead(rows.ex[x], db.ex[x])
             /\ \A y \in Execs : y # x => rows.ex[y] = db.ex[y]
  BY <1>0, <1>6 DEF ExUpdated, Rows, Allowed, Ahead, Rank
<1>7. ASSUME NEW x \in Execs, pc[x] \in {"finish", "fail"}, rows = ExUpdated(x, outcome[x])
      PROVE  /\ rows.ws = db.ws /\ Ahead(rows.ex[x], db.ex[x])
             /\ \A y \in Execs : y # x => rows.ex[y] = db.ex[y]
  BY <1>0, <1>7 DEF ExUpdated, Rows, Allowed, Ahead, Rank, Terminal
<1>8. \A x \in Execs : Ahead(db.ex[x], db.ex[x])
  BY DEF Ahead
<1> QED
  BY <1>0, <1>1, <1>2, <1>3, <1>4, <1>5, <1>6, <1>7, <1>8 DEF Statement, ExStatement

------------------------------------------------------------------------------
(* Stages. *)

\* What a call that moves brings about, itself and in the rows.
DeleteMoves(d) ==
    /\ pc'[d] # "new"
    /\ pc'[d] \in DeleteStages \cup {"done"} => pc[d] \in DeleteStages \/ HasWs(Target[d])
    /\ pc'[d] = "commitMark" => db'.ws[Target[d]] # "ready"
    /\ pc'[d] = "commitDelete" => Gone(db', d)
    /\ pc'[d] = "done" => pc[d] = "commitDelete" /\ Save
CreateMoves(c) ==
    /\ pc'[c] # "new"
    /\ pc'[c] = "insertWs" => pc[c] = "new" /\ Target[c] \in dirs'
    /\ pc'[c] = "commitWs" => There(db', c)
    /\ pc'[c] = "done" => pc[c] = "commitWs" /\ Save
ExecMoves(x) ==
    /\ Allowed(pc[x]) \subseteq Allowed(pc'[x]) /\ pc[x] # "done"
    /\ db'.ex[x] \in Allowed(pc'[x]) \cup {db.ex[x], disk.ex[x]}
    /\ pc'[x] = "commitFinish" => db'.ex[x] = outcome[x] /\ outcome' = outcome
    /\ pc'[x] = "done" => answer'[x] \in Answers
    /\ pc'[x] = "done" /\ answer'[x].of = x =>
          /\ pc[x] = "commitFinish" /\ Save /\ outcome' = outcome
          /\ answer'[x].status = outcome[x]

\* One call moves, or none.
Moves(t) ==
    /\ \A u \in Tasks : u # t => pc'[u] = pc[u]
    /\ \A x \in Execs : x # t => answer'[x] = answer[x] /\ outcome'[x] = outcome[x]
    /\ t \in Deletes => DeleteMoves(t)
    /\ t \in Creates => CreateMoves(t)
    /\ t \in Execs => ExecMoves(t)
Rests ==
    /\ \A u \in Tasks : pc'[u] = pc[u] \/ pc'[u] = "lost"
    /\ answer' = answer /\ outcome' = outcome /\ dirs' = dirs
    /\ Rollback \/ (disk' = disk /\ db' = db)

\* The steps of create and delete.
LEMMA WorkspaceMoves ==
    ASSUME TypeOK, NEW t \in Tasks, WorkspaceStep(t), UNCHANGED execVars
    PROVE  Moves(t)
<1>0. /\ Staged /\ Target[t] \in Workspaces /\ db \in Rows
      /\ \A u \in Tasks : u # t => pc'[u] = pc[u]
      /\ \A x \in Execs : answer'[x] = answer[x] /\ outcome'[x] = outcome[x]
  <2>1. Staged /\ Target[t] \in Workspaces /\ db \in Rows
    BY DEF TypeOK, Staged
  <2>2. \A u \in Tasks : u # t => pc'[u] = pc[u]
    BY DEF TypeOK, WorkspaceStep, MakeDir, MakeDirFails, InsertWs, CommitWs, FindDoomed,
       MarkWs, CommitMark, DeleteWs, CommitDelete, CommitMissing, CreateRolledBack, Goto
  <2> QED  BY <2>1, <2>2 DEF execVars
<1>1. ASSUME t \in Deletes  PROVE DeleteMoves(t)
  <2>1. pc[t] \notin CreateStages
    BY <1>0, <1>1, StageKinds DEF Staged, Ended, CreateStages, DeleteStages
  <2>2. CASE FindDoomed(t) \/ CommitMark(t) \/ CommitDelete(t) \/ CommitMissing(t)
    BY <1>0, <2>2 DEF FindDoomed, CommitMark, CommitDelete, CommitMissing, DeleteMoves, Goto, Staged,
                      DeleteStages, Commit, Save
  <2>3. CASE MarkWs(t)
    BY <1>0, <2>3 DEF MarkWs, DeleteMoves, Goto, Staged, DeleteStages, Write, WsMarked, HasWs, Rows
  <2>4. CASE DeleteWs(t)
    BY <1>0, <2>4 DEF DeleteWs, DeleteMoves, Goto, Staged, DeleteStages, Write, WsDeleted, Gone, Rows
  <2> QED  BY <1>1, <2>1, <2>2, <2>3, <2>4 DEF WorkspaceStep, MakeDir, MakeDirFails, InsertWs, CommitWs,
              CreateStages
<1>2. ASSUME t \in Creates  PROVE CreateMoves(t)
  <2>1. pc[t] \notin DeleteStages /\ ~FindDoomed(t)
    BY <1>0, <1>2, StageKinds DEF Staged, Ended, CreateStages, DeleteStages, FindDoomed
  <2>2. CASE MakeDir(t) \/ MakeDirFails(t) \/ CommitWs(t)
    BY <1>0, <2>2 DEF MakeDir, MakeDirFails, CommitWs, CreateRolledBack, CreateMoves, Goto, Staged,
                      Commit, Save
  <2>3. CASE InsertWs(t)
    BY <1>0, <2>3 DEF InsertWs, CreateRolledBack, CreateMoves, Goto, Staged, Write, WsInserted, There,
                      Rows
  <2> QED  BY <1>2, <2>1, <2>2, <2>3 DEF WorkspaceStep, MarkWs, CommitMark, DeleteWs, CommitDelete,
              CommitMissing, DeleteStages
<1>3. ASSUME t \in Execs  PROVE ExecMoves(t)
  <2>1. CommitMissing(t)
    BY <1>0, <1>3, StageKinds DEF Staged, Ended, ExecStages, WorkspaceStep, MakeDir, MakeDirFails,
       InsertWs, CommitWs, FindDoomed, MarkWs, CommitMark, DeleteWs, CommitDelete, Tasks
  <2>2. pc[t] = "commitMissing" /\ pc'[t] = "error" /\ db'.ex[t] \in {db.ex[t], disk.ex[t]}
    BY <1>0, <2>1 DEF CommitMissing, Commit, CommitFails, Goto, Staged
  <2> QED  BY <2>2 DEF ExecMoves, Allowed
<1> QED  BY <1>0, <1>1, <1>2, <1>3 DEF Moves

\* The steps of exec.
LEMMA ExecMovesOn ==
    ASSUME IndInv, StatusInv, OutcomeInv, NEW x \in Execs, ExecStep(x)
    PROVE  Moves(x)
<1>0. /\ TypeOK /\ x \in Tasks /\ db \in Rows /\ outcome[x] \in Terminal
      /\ pc \in [Tasks -> {"new"} \cup Calling \cup Ended]
      /\ db.ex[x] \in Allowed(pc[x]) /\ disk.ex[x] \in Allowed(pc[x])
      /\ x \notin Creates /\ x \notin Deletes
  BY DEF IndInv, TypeOK, Tasks, StatusInv
<1>1. \A u \in Tasks : u # x => pc'[u] = pc[u]
  BY <1>0 DEF ExecStep, FindWs, Lookup, InsertEx, CommitInsert, Start, CommitStart, Session, Executed,
     Finish, CommitFinish, Fail, CommitFail, CommitThen, UpdateThen, Goto
<1>2. \A y \in Execs : y # x => answer'[y] = answer[y] /\ outcome'[y] = outcome[y]
  BY <1>0 DEF TypeOK, ExecStep, FindWs, Lookup, InsertEx, CommitInsert, Start, CommitStart, Session,
     Executed, Finish, CommitFinish, Fail, CommitFail, execVars
<1>3. ASSUME Allowed(pc[x]) \subseteq Allowed(pc'[x]), pc'[x] \notin {"commitFinish", "done"},
             pc[x] # "done", db'.ex[x] \in Allowed(pc'[x]) \cup {db.ex[x], disk.ex[x]}
      PROVE  ExecMoves(x)
  BY <1>3 DEF ExecMoves
<1>4. /\ Allowed("new") = {"none"} /\ Allowed("lookup") = {"none"} /\ Allowed("insertEx") = {"none"}
      /\ Allowed("commitInsert") = {"none", "queued"} /\ Allowed("start") = {"none", "queued"}
      /\ Allowed("commitStart") = {"none", "queued", "running"} /\ Allowed("session") = {"none", "queued", "running"}
      /\ Allowed("executing") = {"none", "queued", "running"} /\ Allowed("finish") = {"none", "queued", "running"}
      /\ Allowed("fail") = {"none", "queued", "running"}
      /\ Allowed("error") = ExStatus /\ Allowed("conflict") = ExStatus /\ Allowed("commitMissing") = ExStatus
      /\ Allowed("commitFinish") = ExStatus /\ Allowed("commitFail") = ExStatus /\ Allowed("done") = ExStatus
  BY DEF Allowed
<1>5. {"none", "queued", "running"} \subseteq ExStatus /\ Terminal \subseteq ExStatus
  BY DEF ExStatus
<1>6. /\ UNCHANGED storeVars \/ Commit \/ CommitFails \/ WriteFails
             => db'.ex[x] \in {db.ex[x], disk.ex[x]}
      /\ \A s \in Terminal \cup {"running"}, l \in {"commitStart", "commitFinish", "commitFail"} :
             UpdateThen(x, s, l) =>
                /\ pc'[x] \in {l, "commitMissing", "error"}
                /\ db'.ex[x] \in {db.ex[x], s}
                /\ pc'[x] = l => db'.ex[x] = s
  <2>1. UNCHANGED storeVars \/ Commit \/ CommitFails \/ WriteFails
             => db'.ex[x] \in {db.ex[x], disk.ex[x]}
    BY DEF storeVars, Commit, CommitFails, WriteFails
  <2>2. ASSUME NEW s \in Terminal \cup {"running"}, NEW l \in {"commitStart", "commitFinish", "commitFail"},
               UpdateThen(x, s, l)
        PROVE  /\ pc'[x] \in {l, "commitMissing", "error"}
               /\ db'.ex[x] \in {db.ex[x], s}
               /\ pc'[x] = l => db'.ex[x] = s
    BY <1>0, <2>2 DEF UpdateThen, Write, WriteFails, ExUpdated, HasEx, Goto, Rows
  <2> QED  BY <2>1, <2>2
<1>7. ASSUME FindWs(x)  PROVE ExecMoves(x)
  BY <1>0, <1>3, <1>4, <1>5, <1>6, <1>7 DEF FindWs, Goto
<1>8. ASSUME Lookup(x)  PROVE ExecMoves(x)
  <2>1. ~Cached(x, x)
    BY <1>0, <1>4, <1>8 DEF Lookup, Cached, Terminal
  <2>2. pc'[x] = "done" => /\ answer'[x] \in Answers
                           /\ answer'[x].of # x
    BY <1>0, <1>8, <2>1 DEF Lookup, Goto, Answers, TypeOK, Cached
  <2> QED  BY <1>0, <1>4, <1>5, <1>6, <1>8, <2>2 DEF Lookup, Goto, ExecMoves
<1>9. ASSUME InsertEx(x)  PROVE ExecMoves(x)
  <2>1. Write(ExInserted(x)) => db'.ex[x] = "queued"
    BY <1>0 DEF Write, ExInserted, Rows
  <2> QED  BY <1>0, <1>3, <1>4, <1>5, <1>6, <1>9, <2>1 DEF InsertEx, Goto
<1>10. ASSUME CommitInsert(x) \/ CommitStart(x) \/ CommitFail(x)  PROVE ExecMoves(x)
  BY <1>0, <1>3, <1>4, <1>5, <1>6, <1>10 DEF CommitInsert, CommitStart, CommitFail, CommitThen, Goto
<1>11. ASSUME Start(x)  PROVE ExecMoves(x)
  BY <1>0, <1>3, <1>4, <1>5, <1>6, <1>11 DEF Start
<1>12. ASSUME Session(x) \/ Executed(x)  PROVE ExecMoves(x)
  BY <1>0, <1>3, <1>4, <1>5, <1>12 DEF Session, Executed, Goto
<1>13. ASSUME Fail(x)  PROVE ExecMoves(x)
  BY <1>0, <1>3, <1>4, <1>5, <1>6, <1>13 DEF Fail, Terminal
<1>14. ASSUME Finish(x)  PROVE ExecMoves(x)
  <2>1. /\ pc'[x] \in {"commitFinish", "commitMissing", "error"}
        /\ db'.ex[x] \in {db.ex[x], outcome[x]}
        /\ pc'[x] = "commitFinish" => db'.ex[x] = outcome[x]
    BY <1>0, <1>6, <1>14 DEF Finish
  <2> QED  BY <1>0, <1>4, <1>5, <1>14, <2>1 DEF Finish, execVars, ExecMoves
<1>15. ASSUME CommitFinish(x)  PROVE ExecMoves(x)
  BY <1>0, <1>4, <1>5, <1>6, <1>15 DEF CommitFinish, CommitThen, Goto, ExecMoves, Commit, Save, TypeOK,
                                       Answers
<1>16. ExecMoves(x)
  BY <1>7, <1>8, <1>9, <1>10, <1>11, <1>12, <1>13, <1>14, <1>15 DEF ExecStep
<1> QED  BY <1>0, <1>1, <1>2, <1>16 DEF Moves

\* A cancelled call brings nothing about that matters here.
LEMMA CancelMoves ==
    ASSUME IndInv, StatusInv, OutcomeInv, NEW t \in Tasks, Cancel(t)
    PROVE  Moves(t)
<1>0. /\ pc'[t] = "cancelled" /\ \A u \in Tasks : u # t => pc'[u] = pc[u]
      /\ answer' = answer /\ outcome' = outcome
  BY DEF Cancel, Goto, IndInv, TypeOK, execVars
<1>1. t \in Execs => ExecMoves(t)
  <2>1. Allowed("cancelled") = ExStatus /\ Allowed(pc[t]) \subseteq ExStatus
    BY DEF Allowed, ExStatus
  <2>2. t \in Execs => db'.ex[t] \in ExStatus
    BY CancelTyped DEF IndInv, TypeOK, Rows
  <2>3. pc[t] # "done"
    BY DEF Cancel, Calling, CreateStages, DeleteStages, ExecStages
  <2> QED  BY <1>0, <2>1, <2>2, <2>3 DEF ExecMoves
<1> QED  BY <1>0, <1>1 DEF Moves, DeleteMoves, CreateMoves, DeleteStages

\* Every step moves one call or none.
LEMMA StepMoves ==
    ASSUME IndInv, StatusInv, OutcomeInv, [Next]_vars
    PROVE  Rests \/ \E t \in Tasks : Moves(t)
<1>1. CASE Crash
  BY <1>1 DEF Crash, Reopened, Rests, Rollback, execVars
<1>2. CASE UNCHANGED vars
  BY <1>2 DEF vars, Rests
<1> QED
  BY <1>1, <1>2, WorkspaceMoves, ExecMovesOn, CancelMoves DEF Next, AllEnded, IndInv, Tasks

------------------------------------------------------------------------------
(* Directories and faults. *)

\* A directory goes only in create, whose row was not written, or in delete, once
\* "deleting" is committed; that a commit has failed is not forgotten.
LEMMA StepDirs ==
    ASSUME TypeOK, [Next]_vars
    PROVE  /\ CommitNeverFailed' => CommitNeverFailed
           /\ CommitNeverFailed' => \A w \in dirs \ dirs' :
                 \/ \E c \in Creates : /\ Target[c] = w /\ pc[c] = "insertWs" /\ pc'[c] # pc[c]
                                       /\ db' = db /\ disk' = disk
                 \/ \E d \in Deletes : Target[d] = w /\ pc[d] = "commitMark" /\ Save
<1>0. Staged
  BY DEF TypeOK, Staged
<1>1. ASSUME NEW t \in Tasks, WorkspaceStep(t)
      PROVE  /\ faults \subseteq faults'
             /\ CommitNeverFailed' => \A w \in dirs \ dirs' :
                 \/ \E c \in Creates : /\ Target[c] = w /\ pc[c] = "insertWs" /\ pc'[c] # pc[c]
                                       /\ db' = db /\ disk' = disk
                 \/ \E d \in Deletes : Target[d] = w /\ pc[d] = "commitMark" /\ Save
  <2>1. CASE MakeDir(t) \/ MakeDirFails(t) \/ FindDoomed(t) \/ MarkWs(t) \/ DeleteWs(t)
             \/ CommitDelete(t) \/ CommitMissing(t)
    BY <2>1 DEF MakeDir, MakeDirFails, FindDoomed, MarkWs, DeleteWs, CommitDelete, CommitMissing,
                storeVars, Write, WriteFails, Commit, CommitFails, Fault
  <2>2. CASE InsertWs(t)
    <3>1. t \in Creates
      BY <1>0, <2>2, StageKinds DEF InsertWs, Staged, Tasks, Ended, DeleteStages, ExecStages
    <3> QED  BY <1>0, <2>2, <3>1 DEF InsertWs, Write, WriteFails, Fault, CreateRolledBack, Goto, Staged
  <2>3. CASE CommitWs(t)
    BY <2>3 DEF CommitWs, Commit, CommitFails, Fault, CommitNeverFailed
  <2>4. CASE CommitMark(t)
    <3>1. t \in Deletes
      BY <1>0, <2>4, StageKinds DEF CommitMark, Staged, Tasks, Ended, CreateStages, ExecStages
    <3> QED  BY <2>4, <3>1 DEF CommitMark, Commit, CommitFails, Fault, Save
  <2> QED  BY <1>1, <2>1, <2>2, <2>3, <2>4 DEF WorkspaceStep
<1>2. ASSUME NEW x \in Execs, ExecStep(x)  PROVE dirs \subseteq dirs' /\ faults \subseteq faults'
  BY <1>2 DEF ExecStep, FindWs, Lookup, InsertEx, CommitInsert, Start, CommitStart, Session, Executed,
     Finish, CommitFinish, Fail, CommitFail, CommitThen, UpdateThen, Write, WriteFails, Commit,
     CommitFails, Fault, storeVars, Spill
<1>3. ASSUME NEW t \in Tasks, Cancel(t)  PROVE dirs' = dirs /\ faults' = faults
  BY <1>3 DEF Cancel, Write, Commit, storeVars
<1>4. CASE Crash \/ UNCHANGED vars
  BY <1>4 DEF Crash, Reopened, Fault, vars, CommitNeverFailed
<1>5. faults \subseteq faults' => (CommitNeverFailed' => CommitNeverFailed)
  BY DEF CommitNeverFailed
<1> QED  BY <1>1, <1>2, <1>3, <1>4, <1>5 DEF Next, AllEnded

------------------------------------------------------------------------------
(* The invariant. *)

\* What is known of a step from here on.
Step ==
    /\ IndInv /\ IndInv' /\ OutcomeInv /\ StoryInv
    /\ RowStep /\ (Rests \/ \E t \in Tasks : Moves(t))
    /\ Statement(db') =>
          /\ \A w \in Workspaces :
                /\ db'.ws[w] = "ready" /\ db.ws[w] # "ready" =>
                      \E c \in Creates : Target[c] = w /\ pc[c] = "insertWs"
                /\ db'.ws[w] # "absent" /\ db.ws[w] = "absent" =>
                      \E c \in Creates : Target[c] = w /\ pc[c] = "insertWs"
                /\ db'.ws[w] = "absent" /\ db.ws[w] # "absent" =>
                      \E d \in Deletes : Target[d] = w /\ pc[d] # "new"
          /\ \A x \in Execs :
                /\ db'.ws[Target[x]] = "absent" \/ Ahead(db'.ex[x], db.ex[x])
                /\ \/ db'.ex[x] = db.ex[x] \/ db'.ws[Target[x]] = "absent"
                   \/ /\ pc[x] \in {"insertEx", "start", "finish", "fail"}
                      /\ pc'[x] # pc[x]
    /\ CommitNeverFailed' => CommitNeverFailed
    /\ CommitNeverFailed' => \A w \in dirs \ dirs' :
          \/ \E c \in Creates : /\ Target[c] = w /\ pc[c] = "insertWs" /\ pc'[c] # pc[c]
                                /\ db' = db /\ disk' = disk
          \/ \E d \in Deletes : Target[d] = w /\ pc[d] = "commitMark" /\ Save

\* And it is known of every step.
LEMMA StepKnown == IndInv /\ OutcomeInv /\ StoryInv /\ [Next]_vars => Step
<1> SUFFICES ASSUME IndInv, OutcomeInv, StoryInv, [Next]_vars PROVE Step
  OBVIOUS
<1>1. TypeOK /\ StatusInv /\ IndInv'
  BY NextInd DEF IndInv, StoryInv
<1>2. RowStep /\ (Rests \/ \E t \in Tasks : Moves(t))
  BY <1>1, StepRows, StepMoves
<1> QED  BY <1>1, <1>2, StatementEffects, StepDirs DEF Step

\* The committed status goes where the visible one is.
LEMMA StepForward ==
    Step => \A x \in Execs : disk'.ws[Target[x]] # "absent" => Ahead(disk'.ex[x], disk.ex[x])
BY DEF Step, StoryInv, StatusInv, RowStep, Save, Rollback, Ahead

\* Being ahead is transitive.
LEMMA AheadOf ==
    ASSUME NEW a \in ExStatus, NEW b \in ExStatus, NEW c \in ExStatus, Ahead(a, b), Ahead(b, c)
    PROVE  Ahead(a, c)
BY DEF Ahead, Rank, ExStatus, Terminal

\* No statement overtakes what is committed, and none comes before its stage.
LEMMA StepStatus == Step => StatusInv'
<1> SUFFICES ASSUME Step, NEW x \in Execs
             PROVE  /\ db'.ex[x] \in Allowed(pc'[x]) /\ disk'.ex[x] \in Allowed(pc'[x])
                    /\ db'.ws[Target[x]] # "absent" => Ahead(db'.ex[x], disk'.ex[x])
  BY DEF StatusInv
<1>0. /\ x \in Tasks /\ Target[x] \in Workspaces
      /\ db \in Rows /\ disk \in Rows /\ db' \in Rows
      /\ db.ex[x] \in Allowed(pc[x]) /\ disk.ex[x] \in Allowed(pc[x])
      /\ db.ws[Target[x]] # "absent" => Ahead(db.ex[x], disk.ex[x])
      /\ db'.ws[Target[x]] = "absent" => db'.ex[x] = "none"
      /\ db.ws[Target[x]] = "absent" => db.ex[x] = "none"
      /\ disk.ws[Target[x]] = "absent" => disk.ex[x] = "none"
  BY DEF Step, IndInv, TypeOK, StoreInv, Owned, Tasks, StoryInv, StatusInv
<1>1. Rows = [ws : [Workspaces -> WsStatus], ex : [Execs -> ExStatus]]
  BY DEF Rows
<1>2. db.ex[x] \in ExStatus /\ disk.ex[x] \in ExStatus /\ db'.ex[x] \in ExStatus
  BY <1>0, <1>1
<1>3. /\ db'.ex[x] \in Allowed(pc[x]) \/ (pc'[x] # pc[x] /\ Statement(db'))
      /\ disk'.ex[x] \in Allowed(pc[x])
  <2>1. "none" \in Allowed(pc[x])
    BY DEF Allowed, ExStatus
  <2> QED  BY <1>0, <2>1 DEF Step, RowStep, Save, Rollback
<1>4. db'.ex[x] \in Allowed(pc'[x]) /\ disk'.ex[x] \in Allowed(pc'[x])
  <2>1. CASE pc'[x] = pc[x]
    BY <1>3, <2>1
  <2>2. CASE pc'[x] = "lost"
    BY <1>0, <1>2, <2>2 DEF Allowed, Step, RowStep, Save, Rollback
  <2>3. CASE ExecMoves(x)
    BY <1>0, <1>3, <2>3 DEF ExecMoves
  <2> QED  BY <1>0, <2>1, <2>2, <2>3 DEF Step, Rests, Moves
<1>5. ASSUME db'.ws[Target[x]] # "absent"  PROVE Ahead(db'.ex[x], disk'.ex[x])
  <2>1. CASE Save \/ Rollback
    BY <2>1 DEF Save, Rollback, Ahead
  <2>2. CASE disk' = disk /\ Statement(db')
    <3>1. Ahead(db'.ex[x], db.ex[x])
      BY <1>5, <2>2 DEF Step
    <3>2. CASE db.ws[Target[x]] # "absent"
      BY <1>0, <1>2, <2>2, <3>1, <3>2, AheadOf
    <3>3. CASE db.ws[Target[x]] = "absent"
      <4>1. disk.ws[Target[x]] = "absent"
        BY <1>0, <1>5, <2>2, <3>3 DEF Step, IndInv, Unborn
      <4> QED  BY <1>0, <2>2, <3>1, <3>3, <4>1
    <3> QED  BY <3>2, <3>3
  <2> QED  BY <2>1, <2>2 DEF Step, RowStep
<1> QED  BY <1>4, <1>5

\* A deletion has seen the row of its workspace.
LEMMA StepDoomed == Step => DoomedLate'
<1> SUFFICES ASSUME Step, NEW d \in Deletes, NEW c \in Creates, Target[d] = Target[c],
                    pc'[d] \in DeleteStages \cup {"done"}
             PROVE  pc'[c] \notin {"new", "insertWs"}
  BY DEF DoomedLate
<1>0. d \in Tasks /\ c \in Tasks /\ d # c /\ d \notin Creates /\ c \notin Deletes
      /\ (pc[d] \in DeleteStages \cup {"done"} => pc[c] \notin {"new", "insertWs"})
      /\ (HasWs(Target[d]) => pc[c] \notin {"new", "insertWs"})
  BY DEF Tasks, Step, StoryInv, DoomedLate, IndInv, Unborn, HasWs
<1>1. CASE Rests
  BY <1>0, <1>1 DEF Rests, DeleteStages
<1>2. ASSUME NEW t \in Tasks, Moves(t)  PROVE pc'[c] \notin {"new", "insertWs"}
  <2>1. CASE t = d
    BY <1>0, <1>2, <2>1 DEF Moves, DeleteMoves
  <2>2. CASE t = c
    BY <1>0, <1>2, <2>2 DEF Moves, CreateMoves
  <2>3. CASE t # d /\ t # c
    BY <1>0, <1>2, <2>3 DEF Moves
  <2> QED  BY <2>1, <2>2, <2>3
<1> QED  BY <1>1, <1>2 DEF Step

\* A crash ends every call in flight, and nothing else undoes a write.
LEMMA StepUndone ==
    Step /\ CommitNeverFailed' => Save \/ (disk' = disk /\ Statement(db')) \/ (Rollback /\ Crash)
BY DEF Step, RowStep

\* A row is ready after its directory was made, and until it is marked.
LEMMA StepDir == Step /\ CommitNeverFailed' => DirInv'
<1> SUFFICES ASSUME Step, CommitNeverFailed' PROVE DirInv'
  OBVIOUS
<1>0. /\ DirInv /\ DoomedLate /\ Unborn
      /\ Save \/ (disk' = disk /\ Statement(db')) \/ (Rollback /\ Crash)
      /\ \A t \in Tasks : Target[t] \in Workspaces
      /\ Creates \subseteq Tasks /\ Deletes \subseteq Tasks
  BY StepUndone DEF Step, StoryInv, IndInv, TypeOK, Tasks
<1>1. ASSUME NEW w \in Workspaces, "ready" \in {db'.ws[w], disk'.ws[w]}  PROVE w \in dirs'
  <2>1. w \in dirs
    <3>1. CASE "ready" \in {db.ws[w], disk.ws[w]}
      BY <1>0, <3>1 DEF DirInv
    <3>2. CASE db.ws[w] # "ready" /\ disk.ws[w] # "ready"
      <4>1. disk' = disk /\ Statement(db')
        BY <1>0, <1>1, <3>2 DEF Save, Rollback
      <4>2. \E c \in Creates : Target[c] = w /\ pc[c] = "insertWs"
        BY <1>1, <3>2, <4>1 DEF Step
      <4> QED  BY <1>0, <4>2 DEF DirInv
    <3> QED  BY <3>1, <3>2
  <2>2. ASSUME NEW c \in Creates, Target[c] = w, pc[c] = "insertWs", db' = db, disk' = disk
        PROVE  FALSE
    BY <1>0, <1>1, <2>2 DEF Unborn
  <2>3. ASSUME NEW d \in Deletes, Target[d] = w, pc[d] = "commitMark", Save  PROVE FALSE
    BY <1>0, <1>1, <2>3 DEF DirInv, Save
  <2> QED  BY <2>1, <2>2, <2>3 DEF Step
<1>2. ASSUME NEW c \in Creates, pc'[c] = "insertWs"  PROVE Target[c] \in dirs'
  <2>1. CASE CreateMoves(c)
    BY <1>2, <2>1 DEF CreateMoves
  <2>2. CASE pc[c] = "insertWs"
    <3>1. ASSUME NEW e \in Creates, Target[e] = Target[c], pc'[e] # pc[e]  PROVE FALSE
      BY <1>2, <2>2, <3>1
    <3>2. ASSUME NEW d \in Deletes, Target[d] = Target[c], pc[d] = "commitMark"  PROVE FALSE
      BY <1>0, <2>2, <3>2 DEF DoomedLate, DeleteStages
    <3> QED  BY <1>0, <2>2, <3>1, <3>2 DEF Step, DirInv
  <2> QED  BY <1>0, <1>2, <2>1, <2>2 DEF Step, Moves, Rests
<1>3. ASSUME NEW d \in Deletes, pc'[d] = "commitMark"  PROVE db'.ws[Target[d]] # "ready"
  <2>1. CASE DeleteMoves(d)
    BY <1>3, <2>1 DEF DeleteMoves
  <2>2. CASE pc[d] = "commitMark"
    <3>1. ~Crash
      BY <1>0, <1>3 DEF Crash, Calling, DeleteStages
    <3>2. ASSUME NEW c \in Creates, Target[c] = Target[d], pc[c] = "insertWs"  PROVE FALSE
      BY <1>0, <2>2, <3>2 DEF DoomedLate, DeleteStages
    <3> QED  BY <1>0, <2>2, <3>1, <3>2 DEF Step, DirInv, Save
  <2> QED  BY <1>0, <1>3, <2>1, <2>2 DEF Step, Moves, Rests
<1> QED  BY <1>1, <1>2, <1>3 DEF DirInv

\* What a call has brought about stays: what it wrote is not undone before it returns,
\* and afterwards it is committed.
LEMMA StepDurable == Step /\ CommitNeverFailed' => DurableInv'
<1> SUFFICES ASSUME Step, CommitNeverFailed' PROVE DurableInv'
  OBVIOUS
<1>0. /\ DurableInv /\ DoomedLate /\ Unborn
      /\ Save \/ (disk' = disk /\ Statement(db')) \/ (Rollback /\ Crash)
      /\ \A t \in Tasks : Target[t] \in Workspaces
      /\ Creates \subseteq Tasks /\ Deletes \subseteq Tasks /\ Execs \subseteq Tasks
  BY StepUndone DEF Step, StoryInv, IndInv, TypeOK, Tasks
<1>1. ASSUME Crash  PROVE \A t \in Tasks : pc'[t] \notin Calling
  BY <1>1 DEF Crash, Calling, CreateStages, DeleteStages, ExecStages
<1>2. Calling = CreateStages \cup DeleteStages \cup ExecStages
  BY DEF Calling
<1>3. ASSUME NEW x \in Execs
      PROVE  /\ pc'[x] = "commitFinish" => Shows(db, x)'
             /\ pc'[x] = "done" => answer'[x] \in Answers
             /\ pc'[x] = "done" /\ answer'[x].of = x =>
                   Shows(db, x)' /\ Shows(disk, x)' /\ answer'[x].status = outcome'[x]
  <2>1. CASE ExecMoves(x)
    BY <1>0, <2>1 DEF ExecMoves, Shows, DurableInv, Save
  <2>2. CASE pc'[x] = pc[x] /\ answer'[x] = answer[x] /\ outcome'[x] = outcome[x]
    <3>1. ASSUME Statement(db'), x \in Claimed, pc[x] \in {"commitFinish", "done"}, Shows(db, x)
          PROVE  Shows(db, x)'
      <4>1. db'.ex[x] = db.ex[x] \/ db'.ws[Target[x]] = "absent"
        BY <2>2, <3>1 DEF Step
      <4>2. db.ws[Target[x]] = "absent" => db'.ws[Target[x]] = "absent"
        BY <1>0, <3>1 DEF Step, Unborn
      <4> QED  BY <2>2, <3>1, <4>1, <4>2 DEF Shows
    <3>2. CASE pc[x] = "commitFinish"
      <4>1. x \in Claimed /\ Shows(db, x) /\ ~Crash
        BY <1>0, <1>1, <1>2, <2>2, <3>2 DEF Claimed, Marked, DurableInv, ExecStages
      <4> QED  BY <1>0, <2>2, <3>1, <3>2, <4>1 DEF Save, Shows
    <3>3. CASE pc[x] = "done" /\ answer[x].of = x
      <4>1. x \in Claimed /\ Shows(db, x) /\ Shows(disk, x) /\ answer[x].status = outcome[x]
            /\ answer[x] \in Answers
        <5>1. answer[x] \in Answers
          BY <1>0, <3>3 DEF DurableInv
        <5> QED  BY <1>0, <3>3, <5>1 DEF Claimed, DurableInv, Answers
      <4> QED  BY <1>0, <2>2, <3>1, <3>3, <4>1 DEF Save, Rollback, Shows
    <3> QED  BY <1>0, <2>2, <3>2, <3>3 DEF DurableInv
  <2>3. CASE pc'[x] = "lost"
    BY <2>3
  <2> QED  BY <1>0, <2>1, <2>2, <2>3 DEF Step, Moves, Rests
<1>4. ASSUME NEW c \in Creates
      PROVE  /\ pc'[c] = "commitWs" => There(db, c)'
             /\ pc'[c] = "done" => There(db, c)' /\ There(disk, c)'
  <2>1. \A w \in Workspaces : DoomedOnDisk(w) => DoomedOnDisk(w)'
    <3> SUFFICES ASSUME NEW d \in Deletes, pc[d] # "new" PROVE pc'[d] # "new"
      BY DEF DoomedOnDisk
    <3> QED  BY <1>0 DEF Step, Moves, Rests, DeleteMoves
  <2>2. Statement(db') /\ There(db, c) => There(db, c)'
    BY <1>0, <2>1 DEF Step, There, DoomedOnDisk
  <2>3. CASE CreateMoves(c)
    BY <1>0, <2>1, <2>3 DEF CreateMoves, There, DurableInv, Save
  <2>4. CASE pc'[c] = pc[c] /\ pc[c] = "commitWs"
    <3>1. ~Crash
      BY <1>0, <1>1, <1>2, <2>4 DEF CreateStages
    <3> QED  BY <1>0, <2>1, <2>2, <2>4, <3>1 DEF DurableInv, Save, There
  <2>5. CASE pc'[c] = pc[c] /\ pc[c] = "done"
    BY <1>0, <2>1, <2>2, <2>5 DEF DurableInv, Save, Rollback, There
  <2>6. CASE pc'[c] \notin {"commitWs", "done"}
    BY <2>6
  <2> QED  BY <1>0, <2>3, <2>4, <2>5, <2>6 DEF Step, Moves, Rests
<1>5. ASSUME NEW d \in Deletes
      PROVE  /\ pc'[d] = "commitDelete" => Gone(db', d)
             /\ pc'[d] = "done" => Gone(db', d) /\ Gone(disk', d)
  <2>1. ASSUME Statement(db'), Gone(db, d), pc[d] \in {"commitDelete", "done"}  PROVE Gone(db', d)
    <3>1. ASSUME NEW c \in Creates, Target[c] = Target[d], pc[c] = "insertWs"  PROVE FALSE
      BY <1>0, <2>1, <3>1 DEF DoomedLate, DeleteStages
    <3> QED  BY <1>0, <2>1, <3>1 DEF Step, Gone
  <2>2. CASE DeleteMoves(d)
    BY <1>0, <2>2 DEF DeleteMoves, Gone, DurableInv, Save
  <2>3. CASE pc'[d] = pc[d] /\ pc[d] = "commitDelete"
    <3>1. ~Crash
      BY <1>0, <1>1, <1>2, <2>3 DEF DeleteStages
    <3> QED  BY <1>0, <2>1, <2>3, <3>1 DEF DurableInv, Save, Gone
  <2>4. CASE pc'[d] = pc[d] /\ pc[d] = "done"
    BY <1>0, <2>1, <2>4 DEF DurableInv, Save, Rollback, Gone
  <2>5. CASE pc'[d] \notin {"commitDelete", "done"}
    BY <2>5
  <2> QED  BY <1>0, <2>2, <2>3, <2>4, <2>5 DEF Step, Moves, Rests
<1> QED  BY <1>3, <1>4, <1>5 DEF DurableInv, Gone

\* No call has come far at the start.
LEMMA InitStory == Init => StoryInv
<1> SUFFICES ASSUME Init PROVE StoryInv
  OBVIOUS
<1>1. StatusInv /\ DoomedLate
  BY DEF Init, StatusInv, DoomedLate, DeleteStages, Allowed, Ahead, Tasks
<1>2. DirInv /\ DurableInv
  BY DEF Init, DirInv, DurableInv, Tasks
<1> QED  BY <1>1, <1>2 DEF StoryInv

\* Every step keeps the invariants of the rows, the answers and the directories.
LEMMA NextStory ==
    IndInv /\ OutcomeInv /\ StoryInv /\ [Next]_vars => (IndInv /\ OutcomeInv /\ StoryInv)'
<1> SUFFICES ASSUME IndInv, OutcomeInv, StoryInv, [Next]_vars
             PROVE  (IndInv /\ OutcomeInv /\ StoryInv)'
  OBVIOUS
<1>1. Step
  BY StepKnown
<1>2. StoryInv'
  BY <1>1, StepStatus, StepDoomed, StepDir, StepDurable DEF StoryInv
<1>3. TypeOK
  BY DEF IndInv
<1>4. IndInv'
  BY NextInd
<1>5. OutcomeInv'
  BY <1>3, NextOutcome
<1> QED  BY <1>2, <1>4, <1>5

------------------------------------------------------------------------------
(* The theorems. *)

\* The committed status of an execution only moves forward, until its workspace goes.
THEOREM StatusMovesForward == Spec => StatusForward
<1>1. Init => IndInv /\ OutcomeInv /\ StoryInv
  BY InitInd, InitOutcome, InitStory
<1>2. /\ IndInv /\ OutcomeInv /\ StoryInv
      /\ [Next]_vars
      => [\A x \in Execs : disk'.ws[Target[x]] # "absent"
             => \/ disk'.ex[x] = disk.ex[x]
                \/ Rank(disk'.ex[x]) > Rank(disk.ex[x])]_vars
  BY StepKnown, StepForward DEF Ahead
<1> QED  BY <1>1, <1>2, NextStory, PTL DEF Spec, StatusForward

\* A call that reported success has left its effect on disk, unless a commit failed.
THEOREM SuccessIsDurable == Spec => []SuccessDurable
<1>1. StoryInv => SuccessDurable
  BY DEF StoryInv, DurableInv, SuccessDurable, Shows, There, Gone, DoomedOnDisk
<1> QED  BY <1>1, InitInd, InitOutcome, InitStory, NextStory, PTL DEF Spec

\* A workspace whose row says "ready", visible or committed, has its directory.
THEOREM ReadyHasItsDirectory == Spec => []ReadyHasDirectory
<1>1. StoryInv => ReadyHasDirectory
  BY DEF StoryInv, DirInv, ReadyHasDirectory
<1> QED  BY <1>1, InitInd, InitOutcome, InitStory, NextStory, PTL DEF Spec
==============================================================================

------------------------- MODULE ArchiveServiceProofs -------------------------
(***************************************************************************)
(* Type correctness of ArchiveService; that a row of a snapshot or an       *)
(* artifact always has its complete file, and a file its row or its call;   *)
(* that what was reported is on disk; that a failed restore leaves nothing; *)
(* and that a restore hands out what the workspace held: for every set of   *)
(* calls, files, workspaces and faults.                                     *)
(***************************************************************************)
EXTENDS ArchiveService, TLAPS

USE DatabaseAssumption, ArchiveAssumption

------------------------------------------------------------------------------
(* Types. *)

\* The statements yield rows.
LEMMA RowTypes ==
    ASSUME db \in Rows, NEW w \in Workspaces, NEW i \in Ids
    PROVE  /\ RowInserted(i) \in Rows /\ WsInserted(w) \in Rows
           /\ WsMarked(w) \in Rows /\ WsDeleted(w) \in Rows
BY DEF Rows, RowInserted, WsInserted, WsMarked, WsDeleted, HasWs, WsStatus

\* What a step may do to the store.
StoreTyped == db' \in Rows /\ disk' \in Rows /\ faults' \subseteq FaultKinds

\* Statements, commits, failures and a restart leave typed rows.
LEMMA StoreSteps ==
    ASSUME db \in Rows, disk \in Rows, faults \subseteq FaultKinds, NEW kind, NEW w \in Workspaces
    PROVE  /\ Commit \/ CommitFails \/ WriteFails \/ Reopened \/ UNCHANGED storeVars => StoreTyped
           /\ Fault(kind) /\ UNCHANGED <<db, disk>> => StoreTyped
           /\ Fault(kind) /\ disk' = db /\ UNCHANGED db => StoreTyped
           /\ Write(WsInserted(w)) \/ Write(WsMarked(w)) \/ Write(WsDeleted(w)) => StoreTyped
           /\ \A i \in Ids : Write(RowInserted(i)) => StoreTyped
<1>1. Commit \/ CommitFails \/ WriteFails \/ Reopened \/ UNCHANGED storeVars => StoreTyped
  BY DEF StoreTyped, Commit, CommitFails, WriteFails, Reopened, Fault, storeVars
<1>2. /\ Fault(kind) /\ UNCHANGED <<db, disk>> => StoreTyped
      /\ Fault(kind) /\ disk' = db /\ UNCHANGED db => StoreTyped
  BY DEF StoreTyped, Fault
<1>3. ASSUME NEW rows \in Rows, Write(rows)  PROVE StoreTyped
  BY <1>3 DEF StoreTyped, Write
<1>4. WsInserted(w) \in Rows /\ WsMarked(w) \in Rows /\ WsDeleted(w) \in Rows
  BY DEF Rows, WsInserted, WsMarked, WsDeleted, HasWs, WsStatus
<1>5. \A i \in Ids : RowInserted(i) \in Rows
  BY RowTypes DEF Rows
<1> QED  BY <1>1, <1>2, <1>3, <1>4, <1>5

\* Every call is at a stage of its own kind.
Staged == /\ pc \in [Tasks -> {"new"} \cup Calling \cup Ended]
          /\ \A t \in Tasks : pc[t] \in Stages(t)

\* Which stages belong to which kind of call.
LEMMA StageKinds ==
    /\ \A t \in Ids : Stages(t) = {"new"} \cup Ended \cup KeepStages
    /\ \A t \in Restores : Stages(t) = {"new"} \cup Ended \cup RestoreStages \cup DeleteStages
    /\ \A t \in Deletes : Stages(t) = {"new"} \cup Ended \cup DeleteStages
BY DEF Stages

\* A call moves between stages of its own kind.
LEMMA GotoStaged ==
    ASSUME Staged, NEW t \in Tasks, NEW l \in Stages(t), Goto(t, l)
    PROVE  Staged'
<1>1. Stages(t) \subseteq {"new"} \cup Calling \cup Ended
  BY StageKinds DEF Tasks, Calling
<1> QED  BY <1>1 DEF Staged, Goto

\* What the files and the histories are.
FilesTyped ==
    /\ tree \in [Workspaces -> Contents \cup {Nothing}]
    /\ stored \in [Ids -> Contents \cup {Nothing}]
    /\ left \subseteq Files /\ packed \subseteq Ids
    /\ reading = NoFile \/ reading \in [file : left, was : Texts \ {Absent}]
    /\ seen \in [Snapshots -> SUBSET Contents] /\ edits \in 0..MaxEdits

\* The type invariant in three parts.
LEMMA Parts ==
    TypeOK <=> db \in Rows /\ disk \in Rows /\ faults \subseteq FaultKinds /\ Staged /\ FilesTyped
BY DEF TypeOK, Staged, FilesTyped

\* The same parts after a step.
LEMMA Together == StoreTyped /\ Staged' /\ FilesTyped' => TypeOK'
BY DEF TypeOK, Staged, FilesTyped, StoreTyped

\* The kinds of ids, and their workspaces.
LEMMA Kinds ==
    /\ Snapshots \subseteq Ids /\ Exports \subseteq Ids /\ Ids \subseteq Tasks
    /\ Restores \subseteq Tasks /\ Deletes \subseteq Tasks
    /\ \A t \in Tasks : Target[t] \in Workspaces
    /\ \A r \in Restores : Source[r] \in Ids
    /\ Bare \in Contents /\ Nothing \notin Contents
BY DEF Ids, Tasks, Bare, Contents, Texts, Absent

\* The initial states are typed.
LEMMA InitTyped == Init => TypeOK
<1> SUFFICES ASSUME Init PROVE TypeOK
  OBVIOUS
<1>1. Staged
  BY DEF Init, Staged, Stages
<1>2. db \in Rows /\ disk \in Rows /\ faults \subseteq FaultKinds
  BY DEF Init, Rows, WsStatus
<1>3. FilesTyped
  <2>1. PICK v \in Versions :
          tree = [w \in Workspaces |-> IF w \in Created THEN Nothing ELSE [f \in Files |-> <<v, v>>]]
    BY DEF Init
  <2>2. [f \in Files |-> <<v, v>>] \in Contents
    BY DEF Contents, Texts
  <2>3. tree \in [Workspaces -> Contents \cup {Nothing}]
    BY <2>1, <2>2
  <2>4. reading = NoFile
    BY DEF Init
  <2>5. /\ stored \in [Ids -> Contents \cup {Nothing}] /\ left \subseteq Files /\ packed \subseteq Ids
        /\ seen \in [Snapshots -> SUBSET Contents] /\ edits \in 0..MaxEdits
    BY DEF Init
  <2> QED  BY <2>3, <2>4, <2>5 DEF FilesTyped
<1> QED  BY <1>1, <1>2, <1>3, Parts

\* What is in a file, and the text that two halves of texts make.
LEMMA ContentTyped ==
    ASSUME FilesTyped, NEW w \in Workspaces, NEW f \in Files
    PROVE  Content(w, f) \in Texts
BY DEF Content, Contents, FilesTyped, Texts
LEMMA HalvesTyped ==
    ASSUME NEW x \in Texts \ {Absent}, NEW y \in Texts \ {Absent}
    PROVE  <<x[1], y[2]>> \in Texts \ {Absent}
BY DEF Texts, Absent

\* What an archive or an export stores is a tree.
LEMMA StoredTyped ==
    ASSUME FilesTyped, NEW i \in Ids,
           \/ ReadOn(i) /\ stored[i] # Nothing
           \/ CopyFile(i) /\ stored' # stored
    PROVE  stored' \in [Ids -> Contents \cup {Nothing}] /\ stored'[i] \in Contents
<1>1. CASE ReadOn(i) /\ stored[i] # Nothing
  <2>1. /\ reading \in [file : Files, was : Texts \ {Absent}]
        /\ stored[i] \in Contents /\ Target[i] \in Workspaces
    BY <1>1, Kinds DEF ReadOn, FilesTyped
  <2>2. Content(Target[i], reading.file) \in Texts
    BY <2>1, ContentTyped
  <2>3. stored' = stored \/ \E v \in Texts \ {Absent} :
            stored' = [stored EXCEPT ![i][reading.file] = <<reading.was[1], v[2]>>]
    BY <1>1, <2>1, <2>2 DEF ReadOn
  <2>4. ASSUME NEW v \in Texts \ {Absent},
               stored' = [stored EXCEPT ![i][reading.file] = <<reading.was[1], v[2]>>]
        PROVE  stored' \in [Ids -> Contents \cup {Nothing}] /\ stored'[i] \in Contents
    <3>1. <<reading.was[1], v[2]>> \in Texts
      BY <2>1, HalvesTyped
    <3>2. [stored[i] EXCEPT ![reading.file] = <<reading.was[1], v[2]>>] \in Contents
      BY <2>1, <3>1 DEF Contents
    <3> QED  BY <2>4, <3>2 DEF FilesTyped
  <2> QED  BY <2>1, <2>3, <2>4 DEF FilesTyped
<1>2. CASE CopyFile(i) /\ stored' # stored
  <2>1. i \in Exports /\ Exported[i] \in Files
    BY <1>2 DEF CopyFile
  <2>2. Content(Target[i], Exported[i]) \in Texts
    BY <2>1, ContentTyped, Kinds
  <2>3. [Bare EXCEPT ![Exported[i]] = Content(Target[i], Exported[i])] \in Contents
    BY <2>1, <2>2, Kinds DEF Contents
  <2>4. \/ stored' = [stored EXCEPT ![i] = [Bare EXCEPT ![Exported[i]] = Content(Target[i], Exported[i])]]
        \/ stored' = [stored EXCEPT ![i] = Bare]
    BY <1>2 DEF CopyFile
  <2> QED  BY <2>3, <2>4, Kinds DEF FilesTyped
<1> QED  BY <1>1, <1>2

\* The steps of a snapshot or an export preserve the types.
LEMMA KeepTyped ==
    ASSUME TypeOK, FileFirst, NEW i \in Tasks, KeepStep(i)
    PROVE  TypeOK'
<1>0. /\ db \in Rows /\ disk \in Rows /\ faults \subseteq FaultKinds /\ Staged /\ FilesTyped
      /\ Target[i] \in Workspaces /\ tree[Target[i]] \in Contents \cup {Nothing}
  BY Parts, Kinds DEF FilesTyped
<1>1. i \in Ids
  <2>1. CASE pc[i] \in {"archiving", "insert", "commit", "rollback"}
    BY <1>0, <2>1, StageKinds DEF Staged, Tasks, Ended, RestoreStages, DeleteStages, Ids
  <2>2. CASE FindWs(i) \/ OpenArchive(i) \/ CopyFile(i)
    BY <2>2 DEF FindWs, OpenArchive, CopyFile, Ids
  <2> QED  BY <2>1, <2>2 DEF KeepStep, OpenFile, ReadOn, CloseArchive, InsertRow, CommitRow, RolledBack
<1>3. Staged'
  BY <1>0, <1>1, GotoStaged, StageKinds DEF KeepStep, FindWs, OpenArchive, OpenFile, ReadOn, CloseArchive,
     CopyFile, InsertRow, CommitRow, RolledBack, KeepStages, Ended, Staged
<1>4. StoreTyped
  <2>1. CASE FindWs(i) \/ OpenArchive(i)
    BY <2>1, <1>0, StoreSteps, Kinds DEF FindWs, OpenArchive
  <2>2. CASE OpenFile(i) \/ ReadOn(i) \/ CloseArchive(i) \/ RolledBack(i)
    BY <2>2, <1>0 DEF OpenFile, ReadOn, CloseArchive, RolledBack, Fault, StoreTyped
  <2>3. CASE CopyFile(i)
    BY <2>3, <1>0 DEF CopyFile, Fault, StoreTyped
  <2>4. CASE InsertRow(i) \/ CommitRow(i)
    BY <2>4, <1>0, <1>1, StoreSteps, Kinds DEF InsertRow, CommitRow
  <2> QED  BY <2>1, <2>2, <2>3, <2>4 DEF KeepStep
<1>5. FilesTyped'
  <2>1. CASE FindWs(i)
    BY <2>1, <1>0 DEF FindWs, FilesTyped, fileVars, packVars
  <2>2. CASE OpenArchive(i)
    BY <2>2, <1>0, <1>1, Kinds DEF OpenArchive, FilesTyped, fileVars, packVars
  <2>3. CASE OpenFile(i)
    <3>1. left' \subseteq left /\ stored' = stored /\ tree' = tree /\ packed' = packed /\ seen' = seen
          /\ edits' = edits
      BY <2>3 DEF OpenFile
    <3>2. reading' = NoFile \/ reading' \in [file : left', was : Texts \ {Absent}]
      <4>1. CASE reading' = reading
        BY <2>3, <4>1 DEF OpenFile
      <4>2. ASSUME NEW f \in left, left' = left, Content(Target[i], f) # Absent,
                   reading' = [file |-> f, was |-> Content(Target[i], f)]
            PROVE  reading' \in [file : left', was : Texts \ {Absent}]
        <5>1. Content(Target[i], f) \in Texts
          BY <1>0, ContentTyped DEF FilesTyped
        <5> QED  BY <4>2, <5>1
      <4> QED  BY <2>3, <4>1, <4>2 DEF OpenFile
    <3> QED  BY <1>0, <3>1, <3>2 DEF FilesTyped
  <2>7. CASE ReadOn(i)
    <3>1. stored' \in [Ids -> Contents \cup {Nothing}]
      BY <2>7, <1>0, <1>1, StoredTyped DEF ReadOn, FileFirst
    <3>2. left' \subseteq left /\ reading' = NoFile
      BY <2>7 DEF ReadOn
    <3> QED  BY <2>7, <1>0, <3>1, <3>2 DEF ReadOn, FilesTyped
  <2>4. CASE CloseArchive(i)
    BY <2>4, <1>0, <1>1 DEF CloseArchive, FilesTyped
  <2>5. CASE CopyFile(i)
    <3>1. stored' \in [Ids -> Contents \cup {Nothing}]
      BY <2>5, <1>0, <1>1, StoredTyped DEF FilesTyped
    <3> QED  BY <2>5, <1>0, <1>1, <3>1 DEF CopyFile, FilesTyped
  <2>6. CASE InsertRow(i) \/ CommitRow(i) \/ RolledBack(i)
    BY <2>6, <1>0, <1>1 DEF InsertRow, CommitRow, RolledBack, FilesTyped, fileVars, packVars
  <2> QED  BY <2>1, <2>2, <2>3, <2>4, <2>5, <2>6, <2>7 DEF KeepStep
<1> QED  BY <1>3, <1>4, <1>5, Together

\* The steps of a restore preserve the types.
LEMMA RestoreTyped ==
    ASSUME TypeOK, NEW r \in Tasks, RestoreStep(r)
    PROVE  TypeOK'
<1>0. /\ db \in Rows /\ disk \in Rows /\ faults \subseteq FaultKinds /\ Staged /\ FilesTyped
      /\ Target[r] \in Workspaces
  BY Parts, Kinds
<1>1. r \in Restores
  BY <1>0, StageKinds DEF RestoreStep, FindSnapshot, FindSource, MakeDir, InsertWs, CommitWs,
     Unpack, Staged, Tasks, Ended, KeepStages, DeleteStages, Ids
<1>2. Staged'
  BY <1>0, <1>1, GotoStaged, StageKinds DEF RestoreStep, FindSnapshot, FindSource, MakeDir, InsertWs,
     CommitWs, Unpack, UnpackFailed, RestoreStages, Ended, Staged
<1>3. StoreTyped
  <2>1. CASE FindSnapshot(r) \/ FindSource(r)
    BY <2>1, <1>0, StoreSteps DEF FindSnapshot, FindSource
  <2>2. CASE MakeDir(r) \/ Unpack(r)
    BY <2>2, <1>0 DEF MakeDir, Unpack, Fault, StoreTyped
  <2>3. CASE InsertWs(r)
    BY <2>3, <1>0, StoreSteps DEF InsertWs
  <2>4. CASE CommitWs(r)
    BY <2>4, <1>0, StoreSteps DEF CommitWs
  <2> QED  BY <2>1, <2>2, <2>3, <2>4 DEF RestoreStep
<1>4. FilesTyped'
  <2>1. stored[Source[r]] \in Contents \cup {Nothing}
    BY <1>0, <1>1, Kinds DEF FilesTyped
  <2>2. tree' \in [Workspaces -> Contents \cup {Nothing}]
    <3>1. CASE Unpack(r)
      <4>1. tree' = tree \/ \E c \in Contents : tree' = [tree EXCEPT ![Target[r]] = c]
        BY <2>1, <3>1 DEF Unpack, TreeIs, Contents
      <4> QED  BY <1>0, <4>1 DEF FilesTyped
    <3>2. CASE ~Unpack(r)
      BY <1>0, <3>2, Kinds DEF RestoreStep, FindSnapshot, FindSource, MakeDir, InsertWs, CommitWs,
         TreeIs, FilesTyped, fileVars
    <3> QED  BY <3>1, <3>2
  <2> QED  BY <1>0, <2>2 DEF RestoreStep, FindSnapshot, FindSource, MakeDir, InsertWs, CommitWs,
       Unpack, FilesTyped, fileVars, packVars
<1> QED  BY <1>2, <1>3, <1>4, Together

\* The steps of a deletion preserve the types.
LEMMA DeleteTyped ==
    ASSUME TypeOK, NEW t \in Tasks, DeleteStep(t)
    PROVE  TypeOK'
<1>0. /\ db \in Rows /\ disk \in Rows /\ faults \subseteq FaultKinds /\ Staged /\ FilesTyped
      /\ Target[t] \in Workspaces
  BY Parts, Kinds
<1>1. t \in Restores \/ t \in Deletes
  BY <1>0, StageKinds DEF DeleteStep, FindDoomed, MarkWs, CommitMissing, CommitMark, DeleteWs,
     CommitDelete, Staged, Tasks, Ended, KeepStages, DeleteStages, Ids
<1>2. Staged'
  BY <1>0, <1>1, GotoStaged, StageKinds DEF DeleteStep, FindDoomed, MarkWs, CommitMissing, CommitMark,
     DeleteWs, CommitDelete, Raised, DeleteStages, Ended, Staged
<1>3. StoreTyped
  <2>1. CASE FindDoomed(t)
    BY <2>1, <1>0, StoreSteps DEF FindDoomed
  <2>2. CASE MarkWs(t) \/ DeleteWs(t)
    BY <2>2, <1>0, StoreSteps DEF MarkWs, DeleteWs
  <2>3. CASE CommitMissing(t) \/ CommitDelete(t) \/ CommitMark(t)
    BY <2>3, <1>0, StoreSteps DEF CommitMissing, CommitDelete, CommitMark
  <2> QED  BY <2>1, <2>2, <2>3 DEF DeleteStep
<1>4. tree' \in [Workspaces -> Contents \cup {Nothing}]
  BY <1>0 DEF DeleteStep, FindDoomed, MarkWs, CommitMissing, CommitMark, DeleteWs, CommitDelete,
     TreeIs, FilesTyped, fileVars
<1>5. FilesTyped'
  BY <1>0, <1>4 DEF DeleteStep, FindDoomed, MarkWs, CommitMissing, CommitMark, DeleteWs,
     CommitDelete, FilesTyped, fileVars, packVars
<1> QED  BY <1>2, <1>3, <1>5, Together

\* So do writes to the trees, cancellations and crashes.
LEMMA OtherTyped ==
    ASSUME TypeOK, \/ \E w \in Workspaces : Edit(w)
                   \/ \E t \in Tasks : Cancel(t)
                   \/ Crash \/ AllEnded \/ UNCHANGED vars
    PROVE  TypeOK'
<1>0. /\ db \in Rows /\ disk \in Rows /\ faults \subseteq FaultKinds /\ Staged /\ FilesTyped
  BY Parts
<1>1. CASE \E w \in Workspaces : Edit(w)
  <2>1. PICK w \in Workspaces : Edit(w)
    BY <1>1
  <2>2. PICK f \in Files, v \in Texts : tree' = [tree EXCEPT ![w][f] = v]
    BY <2>1 DEF Edit
  <2>3. tree[w] \in Contents
    BY <1>0, <2>1 DEF Edit, FilesTyped
  <2>4. [tree[w] EXCEPT ![f] = v] \in Contents
    BY <2>3 DEF Contents
  <2>5. tree' = [tree EXCEPT ![w] = [tree[w] EXCEPT ![f] = v]]
    BY <2>2
  <2>6. tree' \in [Workspaces -> Contents \cup {Nothing}] /\ tree'[w] \in Contents
    BY <1>0, <2>4, <2>5 DEF FilesTyped
  <2>7. seen' \in [Snapshots -> SUBSET Contents]
    BY <1>0, <2>1, <2>6 DEF Edit, FilesTyped
  <2>8. edits' \in 0..MaxEdits
    BY <1>0, <2>1 DEF Edit, FilesTyped
  <2>9. StoreTyped /\ Staged'
    BY <1>0, <2>1 DEF Edit, Staged, StoreTyped, storeVars
  <2>10. FilesTyped'
    BY <1>0, <2>1, <2>6, <2>7, <2>8 DEF Edit, FilesTyped
  <2> QED  BY <2>9, <2>10, Together
<1>2. CASE \E t \in Tasks : Cancel(t)
  <2>1. PICK t \in Tasks : Cancel(t)
    BY <1>2
  <2>2. Staged'
    BY <1>0, <2>1, GotoStaged, StageKinds DEF Cancel, Ended, Tasks
  <2>3. Written(t) \in Rows
    <3>1. pc[t] = "insert" => t \in Ids
      BY <1>0, StageKinds DEF Staged, Tasks, Ended, RestoreStages, DeleteStages
    <3>2. /\ t \in Ids => RowInserted(t) \in Rows
          /\ WsInserted(Target[t]) \in Rows /\ WsMarked(Target[t]) \in Rows
          /\ WsDeleted(Target[t]) \in Rows
      BY <1>0, Kinds DEF Rows, RowInserted, WsInserted, WsMarked, WsDeleted, HasWs, WsStatus
    <3> QED  BY <1>0, <3>1, <3>2 DEF Written
  <2>4. StoreTyped
    BY <1>0, <2>1, <2>3 DEF Cancel, Write, Commit, StoreTyped, storeVars
  <2>5. FilesTyped'
    BY <1>0, <2>1 DEF Cancel, FilesTyped, fileVars, packVars
  <2> QED  BY <2>2, <2>4, <2>5, Together
<1>3. CASE Crash
  <2>1. Staged'
    BY <1>0, <1>3, StageKinds DEF Crash, Staged, Ended, Tasks
  <2>2. StoreTyped
    BY <1>0, <1>3, StoreSteps, Kinds DEF Crash, Reopened, Fault, StoreTyped
  <2>3. FilesTyped'
    BY <1>0, <1>3 DEF Crash, FilesTyped
  <2> QED  BY <2>1, <2>2, <2>3, Together
<1>4. CASE AllEnded \/ UNCHANGED vars
  <2>1. StoreTyped /\ Staged' /\ FilesTyped'
    BY <1>0, <1>4 DEF AllEnded, vars, Staged, FilesTyped, StoreTyped
  <2> QED  BY <2>1, Together
<1> QED  BY <1>1, <1>2, <1>3, <1>4

\* Every step preserves the types.
LEMMA NextTyped == TypeOK /\ FileFirst /\ [Next]_vars => TypeOK'
BY KeepTyped, RestoreTyped, DeleteTyped, OtherTyped DEF Next
------------------------------------------------------------------------------
(* Rows and their files. *)

\* Nothing makes the row of another id: after a step of task t, or of no task, a row of i
\* was there before.
OldRow(i) == (db'.id[i] => db.id[i] \/ disk.id[i]) /\ (disk'.id[i] => db.id[i] \/ disk.id[i])

\* The statements and their ends, as to the rows of ids.
LEMMA RowSteps ==
    ASSUME db \in Rows, disk \in Rows, NEW i \in Ids, NEW w \in Workspaces, NEW kind
    PROVE  /\ Commit \/ CommitFails \/ WriteFails \/ Reopened \/ UNCHANGED storeVars => OldRow(i)
           /\ disk' = db /\ UNCHANGED db => OldRow(i)
           /\ UNCHANGED <<db, disk>> => OldRow(i)
           /\ Write(WsInserted(w)) \/ Write(WsMarked(w)) \/ Write(WsDeleted(w)) => OldRow(i)
           /\ \A j \in Ids \ {i} : Write(RowInserted(j)) => OldRow(i)
<1>1. /\ Commit \/ CommitFails \/ WriteFails \/ Reopened \/ UNCHANGED storeVars => OldRow(i)
      /\ disk' = db /\ UNCHANGED db => OldRow(i)
      /\ UNCHANGED <<db, disk>> => OldRow(i)
  BY DEF OldRow, Commit, CommitFails, WriteFails, Reopened, Fault, storeVars
<1>2. Write(WsInserted(w)) \/ Write(WsMarked(w)) \/ Write(WsDeleted(w)) => OldRow(i)
  BY DEF OldRow, Write, WsInserted, WsMarked, WsDeleted, Rows
<1>3. \A j \in Ids \ {i} : Write(RowInserted(j)) => OldRow(i)
  BY DEF OldRow, Write, RowInserted, Rows
<1> QED  BY <1>1, <1>2, <1>3

\* A step leaves an id alone: its place, its file, and its rows but for their loss.
LeftAlone(i) == pc'[i] = pc[i] /\ stored'[i] = stored[i] /\ packed \subseteq packed' /\ OldRow(i)

\* The invariant for one id.
IdInv(i) ==
    /\ pc[i] \in {"new", "write", "archiving", "insert"} => ~db.id[i] /\ ~disk.id[i]
    /\ pc[i] = "rollback" /\ CommitNeverFailed => ~db.id[i] /\ ~disk.id[i]
    /\ pc[i] \in {"archiving", "insert", "commit"} => stored[i] # Nothing
    /\ pc[i] \in {"insert", "commit"} => i \in packed
    /\ CommitNeverFailed => (db.id[i] \/ disk.id[i] => stored[i] # Nothing /\ i \in packed)

\* The invariant is that of each id.
LEMMA ById ==
    /\ FileFirst /\ RowHasFile <=> \A i \in Ids : IdInv(i)
    /\ FileFirst' /\ RowHasFile' <=> \A i \in Ids : IdInv(i)'
BY DEF FileFirst, RowHasFile, IdInv

\* What is left alone keeps the invariant.
LEMMA AloneKeeps ==
    ASSUME NEW i \in Ids, IdInv(i), LeftAlone(i), faults \subseteq faults'
    PROVE  IdInv(i)'
BY DEF IdInv, LeftAlone, OldRow, CommitNeverFailed

\* Faults are remembered.
LEMMA FaultsGrow == Next => faults \subseteq faults'
<1> USE DEF Fault, storeVars
<1>1. /\ \A rows : Write(rows) => faults' = faults
      /\ Commit => faults' = faults
      /\ CommitFails \/ WriteFails \/ Reopened => faults \subseteq faults'
  BY DEF Write, Commit, CommitFails, WriteFails, Reopened
<1>2. ASSUME NEW t \in Tasks, KeepStep(t)  PROVE faults \subseteq faults'
  BY <1>1, <1>2 DEF KeepStep, FindWs, OpenArchive, OpenFile, ReadOn, CloseArchive, CopyFile, InsertRow,
     CommitRow, RolledBack
<1>3. ASSUME NEW t \in Tasks, RestoreStep(t)  PROVE faults \subseteq faults'
  BY <1>1, <1>3 DEF RestoreStep, FindSnapshot, FindSource, MakeDir, InsertWs, CommitWs, Unpack
<1>4. ASSUME NEW t \in Tasks, DeleteStep(t)  PROVE faults \subseteq faults'
  BY <1>1, <1>4 DEF DeleteStep, FindDoomed, MarkWs, CommitMissing, CommitMark, DeleteWs, CommitDelete
<1>5. (\E w \in Workspaces : Edit(w)) \/ (\E t \in Tasks : Cancel(t)) \/ Crash \/ AllEnded
         => faults \subseteq faults'
  BY <1>1 DEF Edit, Cancel, Crash, AllEnded, vars
<1> QED  BY <1>2, <1>3, <1>4, <1>5 DEF Next

\* A step of a call leaves the other ids alone.
LEMMA OthersAlone ==
    ASSUME TypeOK, NEW t \in Tasks, NEW i \in Ids \ {t},
           KeepStep(t) \/ RestoreStep(t) \/ DeleteStep(t) \/ Cancel(t)
    PROVE  LeftAlone(i)
<1>0. /\ db \in Rows /\ disk \in Rows /\ Staged /\ FilesTyped /\ Target[t] \in Workspaces /\ i \in Tasks
      /\ pc \in [Tasks -> {"new"} \cup Calling \cup Ended]
  BY Parts, Kinds DEF Staged
<1>1. pc[t] = "insert" => t \in Ids
  BY <1>0, StageKinds DEF Staged, Tasks, Ended, RestoreStages, DeleteStages
<1>2. CASE KeepStep(t)
  <2>1. pc'[i] = pc[i] /\ stored'[i] = stored[i] /\ packed \subseteq packed'
    <3>1. CASE FindWs(t) \/ OpenArchive(t) \/ CloseArchive(t)
      BY <1>0, <3>1 DEF FindWs, OpenArchive, CloseArchive, Goto, fileVars, packVars, FilesTyped
    <3>2. CASE OpenFile(t) \/ ReadOn(t)
      BY <1>0, <3>2 DEF OpenFile, ReadOn, Goto, FilesTyped
    <3>3. CASE CopyFile(t)
      BY <1>0, <3>3 DEF CopyFile, Goto, FilesTyped
    <3>4. CASE InsertRow(t) \/ CommitRow(t) \/ RolledBack(t)
      BY <1>0, <3>4 DEF InsertRow, CommitRow, RolledBack, Goto, fileVars, packVars, FilesTyped
    <3> QED  BY <1>2, <3>1, <3>2, <3>3, <3>4 DEF KeepStep
  <2>2. OldRow(i)
    BY <1>0, <1>1, <1>2, RowSteps DEF KeepStep, FindWs, OpenArchive, OpenFile, ReadOn, CloseArchive,
       CopyFile, InsertRow, CommitRow, RolledBack, storeVars
  <2> QED  BY <2>1, <2>2 DEF LeftAlone
<1>3. CASE RestoreStep(t)
  <2>1. pc'[i] = pc[i] /\ stored'[i] = stored[i] /\ packed \subseteq packed'
    BY <1>0, <1>3 DEF RestoreStep, FindSnapshot, FindSource, MakeDir, InsertWs, CommitWs, Unpack,
       UnpackFailed, Goto, fileVars, packVars
  <2>2. OldRow(i)
    BY <1>0, <1>3, RowSteps DEF RestoreStep, FindSnapshot, FindSource, MakeDir, InsertWs, CommitWs,
       Unpack
  <2> QED  BY <2>1, <2>2 DEF LeftAlone
<1>4. CASE DeleteStep(t)
  <2>1. pc'[i] = pc[i] /\ stored'[i] = stored[i] /\ packed \subseteq packed'
    BY <1>0, <1>4 DEF DeleteStep, FindDoomed, MarkWs, CommitMissing, CommitMark, DeleteWs,
       CommitDelete, Raised, Goto, fileVars, packVars
  <2>2. OldRow(i)
    BY <1>0, <1>4, RowSteps DEF DeleteStep, FindDoomed, MarkWs, CommitMissing, CommitMark, DeleteWs,
       CommitDelete
  <2> QED  BY <2>1, <2>2 DEF LeftAlone
<1>5. CASE Cancel(t)
  <2>1. pc'[i] = pc[i] /\ stored'[i] = stored[i] /\ packed \subseteq packed'
    BY <1>0, <1>5 DEF Cancel, Goto, fileVars, packVars
  <2>2. Write(Written(t)) => OldRow(i)
    BY <1>0, <1>1, RowSteps DEF Written, Write, OldRow
  <2>3. OldRow(i)
    BY <1>0, <1>5, <2>2, RowSteps DEF Cancel
  <2> QED  BY <2>1, <2>3 DEF LeftAlone
<1> QED  BY <1>2, <1>3, <1>4, <1>5

\* An id keeps the invariant in its own steps.
LEMMA OwnKeeps ==
    ASSUME TypeOK, NEW i \in Ids, IdInv(i), KeepStep(i) \/ Cancel(i), faults \subseteq faults'
    PROVE  IdInv(i)'
<1>0. /\ db \in Rows /\ disk \in Rows /\ Staged /\ FilesTyped /\ Target[i] \in Workspaces /\ i \in Tasks
      /\ pc \in [Tasks -> {"new"} \cup Calling \cup Ended]
  BY Parts, Kinds DEF Staged
<1>1. CASE FindWs(i) \/ OpenArchive(i) \/ OpenFile(i) \/ ReadOn(i) \/ CloseArchive(i) \/ CopyFile(i)
  <2>1. UNCHANGED <<db, disk>> /\ ~db.id[i] /\ ~disk.id[i]
    BY <1>1 DEF FindWs, OpenArchive, OpenFile, ReadOn, CloseArchive, CopyFile, storeVars, IdInv
  <2>2. pc'[i] \in {"archiving", "insert", "commit"} => stored'[i] # Nothing
    <3>1. CASE FindWs(i)  BY <3>1, <1>0 DEF FindWs, Goto
    <3>2. CASE OpenArchive(i)  BY <3>2, <1>0, Kinds DEF OpenArchive, Goto, FilesTyped
    <3>3. CASE ReadOn(i)
      <4>1. stored'[i] \in Contents
        BY <3>3, <1>0, StoredTyped DEF ReadOn, IdInv
      <4> QED  BY <4>1, Kinds
    <3>4. CASE OpenFile(i) \/ CloseArchive(i)
      BY <3>4, <1>0 DEF OpenFile, CloseArchive, Goto, IdInv
    <3>5. CASE CopyFile(i)
      <4>1. pc'[i] = "insert" => stored' = [stored EXCEPT ![i] =
                    [Bare EXCEPT ![Exported[i]] = Content(Target[i], Exported[i])]]
        BY <3>5, <1>0 DEF CopyFile, Goto
      <4>2. pc'[i] \in {"insert", "error"}
        BY <3>5, <1>0 DEF CopyFile, Goto
      <4>3. Content(Target[i], Exported[i]) \in Texts /\ Exported[i] \in Files
        BY <3>5, <1>0, ContentTyped DEF CopyFile
      <4>4. [Bare EXCEPT ![Exported[i]] = Content(Target[i], Exported[i])] \in Contents
        BY <4>3, Kinds DEF Contents
      <4>5. pc'[i] = "insert" => stored'[i] \in Contents
        BY <1>0, <4>1, <4>4 DEF FilesTyped
      <4> QED  BY <4>2, <4>5, Kinds
    <3> QED  BY <1>1, <3>1, <3>2, <3>3, <3>4, <3>5
  <2>3. pc'[i] \in {"insert", "commit"} => i \in packed'
    BY <1>0, <1>1 DEF FindWs, OpenArchive, OpenFile, ReadOn, CloseArchive, CopyFile, Goto, IdInv
  <2> QED  BY <2>1, <2>2, <2>3 DEF IdInv
<1>2. CASE InsertRow(i)
  <2>1. stored[i] # Nothing /\ i \in packed /\ ~db.id[i] /\ ~disk.id[i]
    BY <1>2 DEF InsertRow, IdInv
  <2>2. stored' = stored /\ packed' = packed
    BY <1>2 DEF InsertRow, fileVars, packVars
  <2>3. CASE Write(RowInserted(i)) /\ Goto(i, "commit")
    BY <1>0, <2>1, <2>2, <2>3 DEF Write, RowInserted, Goto, IdInv
  <2>4. CASE UNCHANGED <<db, disk>> /\ Goto(i, "rollback")
    BY <1>0, <2>1, <2>2, <2>4 DEF Goto, IdInv
  <2> QED  BY <1>2, <2>3, <2>4 DEF InsertRow, WriteFails, storeVars
<1>3. CASE CommitRow(i)
  <2>1. stored[i] # Nothing /\ i \in packed /\ stored' = stored /\ packed' = packed
    BY <1>3 DEF CommitRow, IdInv, fileVars, packVars
  <2>2. CASE Commit /\ Goto(i, "done")
    BY <1>0, <2>1, <2>2 DEF Commit, Goto, IdInv
  <2>3. CASE CommitFails /\ Goto(i, "rollback")
    BY <1>0, <2>1, <2>3 DEF CommitFails, Fault, Goto, IdInv, CommitNeverFailed
  <2> QED  BY <1>3, <2>2, <2>3 DEF CommitRow
<1>5. CASE RolledBack(i)
  <2>1. pc[i] = "rollback" /\ pc'[i] = "error" /\ UNCHANGED <<db, disk>> /\ packed' = packed
    BY <1>0, <1>5 DEF RolledBack, Goto, packVars
  <2>2. CommitNeverFailed' => ~db'.id[i] /\ ~disk'.id[i]
    BY <2>1 DEF IdInv, CommitNeverFailed
  <2> QED  BY <2>1, <2>2 DEF IdInv
<1>4. CASE Cancel(i)
  <2>1. pc'[i] = "cancelled" /\ stored' = stored /\ packed' = packed
    BY <1>0, <1>4 DEF Cancel, Goto, fileVars, packVars
  <2>2. CASE OldRow(i)
    BY <2>1, <2>2 DEF IdInv, OldRow, CommitNeverFailed
  <2>3. CASE Write(RowInserted(i)) /\ pc[i] = "insert"
    BY <2>1, <2>3 DEF IdInv, Write
  <2>4. Write(Written(i)) => OldRow(i) \/ (Write(RowInserted(i)) /\ pc[i] = "insert")
    BY <1>0, RowSteps DEF Written, Write, OldRow
  <2> QED  BY <1>0, <1>4, <2>2, <2>3, <2>4, RowSteps DEF Cancel
<1> QED  BY <1>1, <1>2, <1>3, <1>4, <1>5 DEF KeepStep

\* A restore or a deletion is no id.
LEMMA NotAnId == ASSUME TypeOK, NEW t \in Tasks, RestoreStep(t) \/ DeleteStep(t)  PROVE t \notin Ids
<1>1. Staged
  BY Parts
<1> QED  BY <1>1, StageKinds DEF RestoreStep, FindSnapshot, FindSource, MakeDir, InsertWs, CommitWs,
     Unpack, DeleteStep, FindDoomed, MarkWs, CommitMissing, CommitMark, DeleteWs, CommitDelete,
     Staged, Ended, KeepStages

\* Every step preserves the invariant of every id.
LEMMA NextKeeps ==
    ASSUME TypeOK, FileFirst, RowHasFile, [Next]_vars
    PROVE  FileFirst' /\ RowHasFile'
<1> SUFFICES ASSUME NEW i \in Ids  PROVE IdInv(i)'
  BY ById
<1>0. IdInv(i) /\ db \in Rows /\ disk \in Rows /\ pc \in [Tasks -> {"new"} \cup Calling \cup Ended] /\ i \in Tasks
  BY ById, Parts, Kinds DEF Staged
<1>1. faults \subseteq faults'
  BY FaultsGrow DEF vars
<1>2. ASSUME NEW t \in Tasks, KeepStep(t) \/ RestoreStep(t) \/ DeleteStep(t) \/ Cancel(t)
      PROVE  IdInv(i)'
  <2>1. CASE t = i
    BY <1>0, <1>1, <1>2, <2>1, OwnKeeps, NotAnId
  <2>2. CASE t # i
    BY <1>0, <1>1, <1>2, <2>2, OthersAlone, AloneKeeps
  <2> QED  BY <2>1, <2>2
<1>3. CASE (\E w \in Workspaces : Edit(w)) \/ AllEnded \/ UNCHANGED vars
  <2>1. LeftAlone(i)
    BY <1>3 DEF Edit, AllEnded, vars, LeftAlone, OldRow, storeVars
  <2> QED  BY <1>0, <1>1, <2>1, AloneKeeps
<1>4. CASE Crash
  <2>1. pc'[i] = pc[i] \/ pc'[i] = "lost"
    BY <1>0, <1>4 DEF Crash
  <2>2. stored' = stored /\ packed' = packed /\ OldRow(i)
    BY <1>0, <1>4, RowSteps, Kinds DEF Crash, Reopened, OldRow
  <2> QED  BY <1>0, <1>1, <2>1, <2>2 DEF IdInv, OldRow, CommitNeverFailed
<1> QED  BY <1>2, <1>3, <1>4 DEF Next

------------------------------------------------------------------------------
(* The theorems. *)

\* The inductive invariant holds.
LEMMA Inductive == Spec => []IndInv
<1>1. Init => IndInv
  <2> SUFFICES ASSUME Init PROVE FileFirst /\ RowHasFile
    BY InitTyped DEF IndInv
  <2>1. \A i \in Ids : ~db.id[i] /\ ~disk.id[i] /\ pc[i] = "new"
    BY DEF Init, Tasks
  <2> QED  BY <2>1 DEF FileFirst, RowHasFile
<1>2. IndInv /\ [Next]_vars => IndInv'
  BY NextTyped, NextKeeps DEF IndInv
<1> QED  BY <1>1, <1>2, PTL DEF Spec

\* Type correctness of the snapshot and artifact services, with restores and deletions.
THEOREM ArchiveTypeCorrect == Spec => []TypeOK
<1>1. IndInv => TypeOK
  BY DEF IndInv
<1> QED  BY <1>1, Inductive, PTL

\* Whoever finds the row of a snapshot or an artifact finds its complete file, as long as
\* no commit has failed: whatever else fails, is cancelled or crashes.
THEOREM RowsHaveFiles == Spec => []RowHasFile
<1>1. IndInv => RowHasFile
  BY DEF IndInv
<1> QED  BY <1>1, Inductive, PTL

------------------------------------------------------------------------------
(* What a step of a call does to the rows and to the other calls. *)

TaskStep(t) == KeepStep(t) \/ RestoreStep(t) \/ DeleteStep(t) \/ Cancel(t)

\* The statement of a stage.
Statement(t) ==
    \/ pc[t] = "insert" /\ t \in Ids /\ HasWs(Target[t]) /\ db' = RowInserted(t)
    \/ pc[t] = "insertWs" /\ t \in Restores /\ db' = WsInserted(Target[t])
    \/ pc[t] = "mark" /\ db' = WsMarked(Target[t])
    \/ pc[t] = "delete" /\ db' = WsDeleted(Target[t])

\* At most one statement, or a commit, or a commit that failed.
RowsMove(t) ==
    \/ UNCHANGED <<db, disk>>
    \/ disk' = db /\ db' = db
    \/ "commit" \in faults' /\ disk' = disk /\ db' \in {db, disk}
    \/ disk' = disk /\ Statement(t)

\* The calls an id, a restore or a deletion may be found at.
LEMMA StageOwners ==
    ASSUME Staged, NEW t \in Tasks
    PROVE  /\ pc[t] \in KeepStages => t \in Ids
           /\ pc[t] \in RestoreStages => t \in Restores
           /\ pc[t] \in DeleteStages => t \in Restores \cup Deletes
BY StageKinds DEF Staged, Tasks, Ended, KeepStages, RestoreStages, DeleteStages

\* A step of a call issues its own statement, and moves no other call.
LEMMA TaskMoves ==
    ASSUME TypeOK, NEW t \in Tasks, TaskStep(t)
    PROVE  /\ RowsMove(t)
           /\ \A u \in Tasks \ {t} : pc'[u] = pc[u]
           /\ pc'[t] # "new"
<1>0. /\ Staged /\ pc \in [Tasks -> {"new"} \cup Calling \cup Ended]
      /\ pc[t] \in KeepStages => t \in Ids
      /\ pc[t] \in RestoreStages => t \in Restores
  BY Parts, StageOwners DEF Staged
<1> USE DEF Statement, RowsMove, Fault, Write, WriteFails, Commit, CommitFails, storeVars, Goto
<1>1. CASE KeepStep(t)
  <2>1. CASE FindWs(t)
    BY <2>1, <1>0 DEF FindWs
  <2>2. CASE OpenArchive(t)
    BY <2>2, <1>0 DEF OpenArchive
  <2>3. CASE OpenFile(t) \/ ReadOn(t)
    BY <2>3, <1>0 DEF OpenFile, ReadOn
  <2>4. CASE CloseArchive(t)
    BY <2>4, <1>0 DEF CloseArchive
  <2>5. CASE CopyFile(t)
    BY <2>5, <1>0 DEF CopyFile
  <2>6. CASE InsertRow(t)
    BY <2>6, <1>0 DEF InsertRow, KeepStages
  <2>7. CASE CommitRow(t)
    BY <2>7, <1>0 DEF CommitRow
  <2>8. CASE RolledBack(t)
    BY <2>8, <1>0 DEF RolledBack
  <2> QED  BY <1>1, <2>1, <2>2, <2>3, <2>4, <2>5, <2>6, <2>7, <2>8 DEF KeepStep
<1>2. CASE RestoreStep(t)
  <2>1. CASE FindSnapshot(t) \/ FindSource(t)
    BY <2>1, <1>0 DEF FindSnapshot, FindSource
  <2>2. CASE MakeDir(t) \/ Unpack(t)
    BY <2>2, <1>0 DEF MakeDir, Unpack, UnpackFailed
  <2>3. CASE InsertWs(t)
    BY <2>3, <1>0 DEF InsertWs, RestoreStages
  <2>4. CASE CommitWs(t)
    BY <2>4, <1>0 DEF CommitWs
  <2> QED  BY <1>2, <2>1, <2>2, <2>3, <2>4 DEF RestoreStep
<1>3. CASE DeleteStep(t)
  <2>1. CASE FindDoomed(t)
    BY <2>1, <1>0 DEF FindDoomed
  <2>2. CASE MarkWs(t)
    BY <2>2, <1>0 DEF MarkWs, Raised
  <2>3. CASE DeleteWs(t)
    BY <2>3, <1>0 DEF DeleteWs, Raised
  <2>4. CASE CommitMissing(t) \/ CommitMark(t) \/ CommitDelete(t)
    BY <2>4, <1>0 DEF CommitMissing, CommitMark, CommitDelete, Raised
  <2> QED  BY <1>3, <2>1, <2>2, <2>3, <2>4 DEF DeleteStep
<1>4. CASE Cancel(t)
  BY <1>0, <1>4 DEF Cancel, Written, KeepStages, RestoreStages
<1> QED  BY <1>1, <1>2, <1>3, <1>4 DEF TaskStep

------------------------------------------------------------------------------
(* Files that nobody's row names. *)

\* A complete file belongs to a call beyond its writing; the call that raised has removed
\* it if files can be removed and looked at, and only a crash loses a call.
Kept(i) ==
    /\ i \in packed => pc[i] \notin {"new", "write", "archiving"}
    /\ i \in packed /\ pc[i] = "error" /\ "fs" \notin faults => stored[i] = Nothing
    /\ pc[i] = "lost" => "crash" \in faults

\* Every step keeps that.
LEMMA NextKept ==
    ASSUME IndInv, \A i \in Ids : Kept(i), [Next]_vars, NEW i \in Ids
    PROVE  Kept(i)'
<1>0. /\ Staged /\ FilesTyped /\ pc \in [Tasks -> {"new"} \cup Calling \cup Ended] /\ i \in Tasks
      /\ Kept(i) /\ TypeOK /\ IdInv(i)
  BY Parts, Kinds, ById DEF Staged, IndInv
<1>1. faults \subseteq faults'
  BY FaultsGrow DEF vars
<1>2. ASSUME NEW t \in Tasks \ {i}, TaskStep(t)  PROVE Kept(i)'
  <2>1. LeftAlone(i)
    BY <1>0, <1>2, OthersAlone DEF TaskStep
  <2>2. i \in packed' => i \in packed
    BY <1>2, <1>0 DEF TaskStep, KeepStep, FindWs, OpenArchive, OpenFile, ReadOn, CloseArchive, CopyFile,
       InsertRow, CommitRow, RolledBack, RestoreStep, FindSnapshot, FindSource, MakeDir, InsertWs, CommitWs,
       Unpack, DeleteStep, FindDoomed, MarkWs, CommitMissing, CommitMark, DeleteWs, CommitDelete,
       Cancel, fileVars, packVars
  <2> QED  BY <1>0, <1>1, <2>1, <2>2 DEF Kept, LeftAlone
<1>3. CASE KeepStep(i)
  <2>1. CASE FindWs(i) \/ OpenArchive(i) \/ OpenFile(i) \/ ReadOn(i)
    BY <1>0, <2>1 DEF FindWs, OpenArchive, OpenFile, ReadOn, Goto, Kept, fileVars, packVars
  <2>2. CASE CloseArchive(i) \/ CopyFile(i)
    BY <1>0, <2>2 DEF CloseArchive, CopyFile, Goto, Kept, Fault
  <2>3. CASE InsertRow(i) \/ CommitRow(i)
    BY <1>0, <2>3 DEF InsertRow, CommitRow, Goto, Kept, fileVars, packVars
  <2>4. CASE RolledBack(i)
    BY <1>0, <2>4 DEF RolledBack, Goto, Kept, Fault, FilesTyped, packVars
  <2> QED  BY <1>3, <2>1, <2>2, <2>3, <2>4 DEF KeepStep
<1>4. CASE Cancel(i)
  <2>1. pc[i] \notin {"new", "write", "archiving"} \/ i \notin packed
    BY <1>0 DEF Kept
  <2> QED  BY <1>0, <1>4, <2>1 DEF Cancel, Goto, Kept, fileVars, packVars, Calling
<1>5. ~RestoreStep(i) /\ ~DeleteStep(i)
  BY <1>0, NotAnId
<1>6. CASE (\E w \in Workspaces : Edit(w)) \/ AllEnded \/ UNCHANGED vars
  BY <1>0, <1>1, <1>6 DEF Edit, AllEnded, vars, Kept
<1>7. CASE Crash
  BY <1>0, <1>7 DEF Crash, Reopened, Fault, Kept, Calling, KeepStages
<1> QED  BY <1>2, <1>3, <1>4, <1>5, <1>6, <1>7 DEF Next, TaskStep

------------------------------------------------------------------------------
(* What was reported is on disk. *)

\* Somebody is deleting the workspace.
Doomed(w) == \E t \in Deletes : Target[t] = w /\ pc[t] # "new"

\* The row of an id, or of the workspace of a restore, as far as it may be expected.
RowThere(rows, i) == rows.id[i] \/ rows.ws[Target[i]] = "absent"
WsThere(rows, r) == rows.ws[Target[r]] = "ready" \/ Doomed(Target[r])

\* What a call has written is visible until its commit, and on disk after it.
IdDurable(i) == /\ pc[i] \in {"commit", "done"} => RowThere(db, i)
                /\ pc[i] = "done" => RowThere(disk, i)
WsDurable(r) == /\ pc[r] \in {"commitWs", "unpacking", "done"} => WsThere(db, r)
                /\ pc[r] \in {"unpacking", "done"} => WsThere(disk, r)

Durable ==
    CommitNeverFailed => (\A i \in Ids : IdDurable(i)) /\ (\A r \in Restores : WsDurable(r))

\* A restore makes a workspace of its own.
LEMMA Targets ==
    /\ \A i \in Ids, r \in Restores : Target[i] # Target[r]
    /\ \A q, r \in Restores : q # r => Target[q] # Target[r]
    /\ \A t \in Tasks : Target[t] \in Workspaces
BY Kinds DEF Created

\* Once an id's row is there it stays, but for the deletion of its workspace.
LEMMA RowStays ==
    ASSUME IndInv, NEW i \in Ids, NEW t \in Tasks, RowsMove(t), "commit" \notin faults',
           RowThere(db, i)
    PROVE  /\ RowThere(db, i)' /\ (RowThere(disk, i) => RowThere(disk, i)')
           /\ disk' = db => RowThere(disk, i)'
<1>0. db \in Rows /\ disk \in Rows /\ Target[i] \in Workspaces /\ Target[t] \in Workspaces
  BY Parts, Kinds DEF IndInv
<1>1. CASE disk' = disk /\ Statement(t)
  <2>1. RowThere(db, i)'
    <3>1. t \in Restores => Target[i] # Target[t]
      BY Targets
    <3>2. CASE pc[t] = "insert" /\ t \in Ids /\ db' = RowInserted(t)
      BY <1>0, <3>2 DEF RowThere, RowInserted, Rows
    <3>3. CASE t \in Restores /\ db' = WsInserted(Target[t])
      BY <1>0, <3>1, <3>3 DEF RowThere, WsInserted, Rows
    <3>4. CASE db' = WsMarked(Target[t])
      BY <1>0, <3>4 DEF RowThere, WsMarked, HasWs, Rows
    <3>5. CASE db' = WsDeleted(Target[t])
      BY <1>0, <3>5 DEF RowThere, WsDeleted, Rows
    <3> QED  BY <1>1, <3>2, <3>3, <3>4, <3>5 DEF Statement
  <2> QED  BY <1>1, <2>1 DEF RowThere
<1>2. CASE UNCHANGED <<db, disk>> \/ (disk' = db /\ db' = db)
  BY <1>2 DEF RowThere
<1> QED  BY <1>1, <1>2 DEF RowsMove

\* A workspace that nobody deletes keeps its row, but for its own restore.
LEMMA WsStays ==
    ASSUME IndInv, NEW r \in Restores, NEW t \in Tasks, RowsMove(t), "commit" \notin faults',
           ~Doomed(Target[r]), pc[r] \in {"commitWs", "unpacking", "done"}
    PROVE  \/ db'.ws[Target[r]] = db.ws[Target[r]]
                /\ disk'.ws[Target[r]] \in {disk.ws[Target[r]], db.ws[Target[r]]}
<1> DEFINE w == Target[r]
<1>0. db \in Rows /\ disk \in Rows /\ Staged /\ w \in Workspaces /\ Target[t] \in Workspaces /\ r \in Tasks
  BY Parts, Kinds DEF IndInv
<1>1. CASE disk' = disk /\ Statement(t)
  <2>1. t = r => pc[t] \notin {"insert", "insertWs", "mark", "delete"}
    OBVIOUS
  <2>2. CASE pc[t] = "insert" /\ t \in Ids /\ db' = RowInserted(t)
    BY <1>0, <1>1, <2>2 DEF RowInserted, Rows
  <2>3. CASE pc[t] = "insertWs" /\ t \in Restores /\ db' = WsInserted(Target[t])
    <3>1. Target[t] # w
      BY <2>1, <2>3, Targets
    <3> QED  BY <1>0, <1>1, <2>3, <3>1 DEF WsInserted, Rows
  <2>4. CASE pc[t] \in {"mark", "delete"} /\ (db' = WsMarked(Target[t]) \/ db' = WsDeleted(Target[t]))
    <3>1. t \in Restores \cup Deletes
      BY <1>0, <2>4, StageOwners DEF DeleteStages
    <3>2. Target[t] # w
      BY <2>1, <2>4, <3>1, Targets DEF Doomed
    <3> QED  BY <1>0, <1>1, <2>4, <3>2 DEF WsMarked, WsDeleted, HasWs, Rows
  <2> QED  BY <1>1, <2>2, <2>3, <2>4 DEF Statement
<1>2. CASE UNCHANGED <<db, disk>> \/ (disk' = db /\ db' = db)
  BY <1>2
<1> QED  BY <1>1, <1>2 DEF RowsMove

\* A deletion that has begun is remembered.
LEMMA StillDoomed ==
    ASSUME NEW t \in Tasks, NEW w, Doomed(w), \A u \in Tasks \ {t} : pc'[u] = pc[u], pc'[t] # "new"
    PROVE  Doomed(w)'
BY DEF Doomed, Tasks

\* The step that writes or commits what is reported.
LEMMA OwnDurable ==
    ASSUME IndInv, NEW t \in Tasks, TaskStep(t), "commit" \notin faults'
    PROVE  /\ t \in Ids /\ pc'[t] \in {"commit", "done"} /\ pc[t] # pc'[t] =>
                \/ pc[t] = "insert" /\ pc'[t] = "commit" /\ db'.id[t]
                \/ pc[t] = "commit" /\ pc'[t] = "done" /\ db' = db /\ disk' = db
           /\ t \in Restores /\ pc'[t] \in {"commitWs", "unpacking", "done"} /\ pc[t] # pc'[t] =>
                \/ pc[t] = "insertWs" /\ pc'[t] = "commitWs" /\ db'.ws[Target[t]] = "ready"
                \/ pc[t] = "commitWs" /\ pc'[t] = "unpacking" /\ db' = db /\ disk' = db
                \/ pc[t] = "unpacking" /\ pc'[t] = "done" /\ db' = db /\ disk' = disk
<1>0. /\ db \in Rows /\ Staged /\ pc \in [Tasks -> {"new"} \cup Calling \cup Ended]
      /\ Target[t] \in Workspaces /\ TypeOK
  BY Parts, Kinds DEF Staged, IndInv
<1> USE DEF Goto, Write, Commit
<1>1. CASE KeepStep(t)
  <2>1. CASE InsertRow(t)
    <3>1. t \in Ids
      BY <1>0, <2>1, StageOwners DEF InsertRow, KeepStages
    <3> QED  BY <1>0, <2>1, <3>1, Kinds DEF InsertRow, RowInserted, Rows, Ids
  <2>2. CASE CommitRow(t)
    BY <1>0, <2>2, StageOwners DEF CommitRow, CommitFails, Fault, KeepStages
  <2>3. CASE FindWs(t) \/ OpenArchive(t) \/ OpenFile(t) \/ ReadOn(t) \/ CloseArchive(t) \/ CopyFile(t)
    BY <1>0, <2>3 DEF FindWs, OpenArchive, OpenFile, ReadOn, CloseArchive, CopyFile
  <2>5. CASE RolledBack(t)
    BY <1>0, <2>5 DEF RolledBack
  <2>4. t \in Ids => t \notin Restores
    OBVIOUS
  <2> QED  BY <1>0, <1>1, <2>1, <2>2, <2>3, <2>4, <2>5, StageOwners DEF KeepStep, InsertRow, CommitRow, KeepStages
<1>2. CASE RestoreStep(t)
  <2>0. t \notin Ids
    BY <1>0, <1>2, NotAnId
  <2>1. CASE FindSnapshot(t) \/ FindSource(t) \/ MakeDir(t)
    BY <1>0, <2>0, <2>1 DEF FindSnapshot, FindSource, MakeDir
  <2>2. CASE InsertWs(t)
    BY <1>0, <2>0, <2>2 DEF InsertWs, WsInserted, Rows
  <2>3. CASE CommitWs(t)
    BY <1>0, <2>0, <2>3 DEF CommitWs, CommitFails, Fault
  <2>4. CASE Unpack(t)
    BY <1>0, <2>0, <2>4 DEF Unpack, UnpackFailed
  <2> QED  BY <1>2, <2>1, <2>2, <2>3, <2>4 DEF RestoreStep
<1>3. CASE DeleteStep(t)
  <2>0. t \notin Ids
    BY <1>0, <1>3, NotAnId
  <2> QED  BY <1>0, <1>3, <2>0 DEF DeleteStep, FindDoomed, MarkWs, CommitMissing, CommitMark, DeleteWs,
     CommitDelete, Raised
<1>4. CASE Cancel(t)
  BY <1>0, <1>4 DEF Cancel
<1> QED  BY <1>1, <1>2, <1>3, <1>4 DEF TaskStep

\* A step of a call keeps what others and itself have reported.
LEMMA TaskDurable ==
    ASSUME IndInv, Durable, NEW t \in Tasks, TaskStep(t)
    PROVE  Durable'
<1> SUFFICES ASSUME "commit" \notin faults'
             PROVE  (\A i \in Ids : IdDurable(i)') /\ (\A r \in Restores : WsDurable(r)')
  BY DEF Durable, CommitNeverFailed
<1>0. /\ RowsMove(t) /\ TypeOK /\ pc'[t] # "new" /\ \A u \in Tasks \ {t} : pc'[u] = pc[u]
  BY TaskMoves DEF IndInv
<1>1. /\ CommitNeverFailed /\ \A i \in Ids : IdDurable(i)
      /\ \A r \in Restores : WsDurable(r)
  <2>1. faults \subseteq faults'
    BY FaultsGrow, <1>0 DEF TaskStep, KeepStep, FindWs, OpenArchive, OpenFile, ReadOn, CloseArchive, CopyFile,
       InsertRow, CommitRow, RolledBack, RestoreStep, FindSnapshot, FindSource, MakeDir, InsertWs, CommitWs,
       Unpack, DeleteStep, FindDoomed, MarkWs, CommitMissing, CommitMark, DeleteWs, CommitDelete,
       Cancel, Fault, WriteFails, CommitFails, Write, Commit, storeVars
  <2> QED  BY <2>1 DEF Durable, CommitNeverFailed
<1>2. ASSUME NEW i \in Ids  PROVE IdDurable(i)'
  <2>1. i \in Tasks
    BY Kinds
  <2>2. CASE pc'[i] = pc[i]
    BY <1>0, <1>1, <2>2, RowStays DEF IdDurable
  <2>3. CASE pc'[i] # pc[i]
    <3>1. t = i
      BY <1>0, <2>1, <2>3
    <3>2. CASE pc'[i] \notin {"commit", "done"}
      BY <3>2 DEF IdDurable
    <3>3. CASE pc[i] = "insert" /\ pc'[i] = "commit" /\ db'.id[i]
      BY <3>3 DEF IdDurable, RowThere
    <3>4. CASE pc[i] = "commit" /\ pc'[i] = "done" /\ db' = db /\ disk' = db
      BY <1>1, <3>4 DEF IdDurable, RowThere
    <3> QED  BY <2>3, <3>1, <3>2, <3>3, <3>4, OwnDurable
  <2> QED  BY <2>2, <2>3
<1>3. ASSUME NEW r \in Restores  PROVE WsDurable(r)'
  <2>1. r \in Tasks
    BY Kinds
  <2>2. CASE Doomed(Target[r])
    BY <1>0, <2>2, StillDoomed DEF WsDurable, WsThere
  <2>3. CASE ~Doomed(Target[r]) /\ pc'[r] = pc[r]
    BY <1>0, <1>1, <2>3, WsStays DEF WsDurable, WsThere
  <2>4. CASE ~Doomed(Target[r]) /\ pc'[r] # pc[r]
    <3>1. t = r
      BY <1>0, <2>1, <2>4
    <3>2. CASE pc'[r] \notin {"commitWs", "unpacking", "done"}
      BY <3>2 DEF WsDurable
    <3>3. CASE pc[r] = "insertWs" /\ pc'[r] = "commitWs" /\ db'.ws[Target[r]] = "ready"
      BY <3>3 DEF WsDurable, WsThere
    <3>4. CASE pc[r] = "commitWs" /\ pc'[r] = "unpacking" /\ db' = db /\ disk' = db
      BY <1>1, <2>4, <3>4 DEF WsDurable, WsThere
    <3>5. CASE pc[r] = "unpacking" /\ pc'[r] = "done" /\ db' = db /\ disk' = disk
      BY <1>1, <2>4, <3>5 DEF WsDurable, WsThere
    <3> QED  BY <2>4, <3>1, <3>2, <3>3, <3>4, <3>5, OwnDurable
  <2> QED  BY <2>2, <2>3, <2>4
<1> QED  BY <1>2, <1>3

\* So does every other step; a crash leaves what was committed.
LEMMA NextDurable == IndInv /\ Durable /\ [Next]_vars => Durable'
<1> SUFFICES ASSUME IndInv, Durable, [Next]_vars PROVE Durable'
  OBVIOUS
<1>0. /\ Staged /\ pc \in [Tasks -> {"new"} \cup Calling \cup Ended] /\ faults \subseteq faults'
      /\ Ids \subseteq Tasks /\ Restores \subseteq Tasks /\ Deletes \subseteq Tasks
  BY Parts, Kinds, FaultsGrow DEF IndInv, Staged, vars
<1>1. CASE (\E w \in Workspaces : Edit(w)) \/ AllEnded \/ UNCHANGED vars
  BY <1>0, <1>1 DEF Edit, AllEnded, vars, storeVars, Durable, CommitNeverFailed, IdDurable, WsDurable,
     RowThere, WsThere, Doomed
<1>2. CASE Crash
  <2>1. db' = disk /\ disk' = disk /\ \A t \in Tasks : pc'[t] = IF pc[t] \in Calling THEN "lost" ELSE pc[t]
    BY <1>2 DEF Crash, Reopened
  <2>2. \A w : Doomed(w) => Doomed(w)'
    BY <1>0, <2>1 DEF Doomed
  <2>3. \A r \in Restores : WsDurable(r) => WsDurable(r)'
    BY <1>0, <2>1, <2>2 DEF WsDurable, WsThere, Calling, RestoreStages
  <2>4. \A i \in Ids : IdDurable(i) => IdDurable(i)'
    BY <1>0, <2>1 DEF IdDurable, RowThere, Calling, KeepStages
  <2> QED  BY <1>0, <2>3, <2>4 DEF Durable, CommitNeverFailed
<1> QED  BY <1>1, <1>2, TaskDurable DEF Next, TaskStep

------------------------------------------------------------------------------
(* A restore that failed leaves nothing behind. *)

BeforeWs == {"new", "source", "make", "insertWs"}
AfterWs == {"commitWs", "unpacking", "cleanup", "error"} \cup DeleteStages

\* A restore before its INSERT has no row, and nobody deletes what nobody can see.
Unseen(r) ==
    /\ db.ws[Target[r]] = "absent" /\ disk.ws[Target[r]] = "absent"
    /\ tree[Target[r]] = Nothing <=> pc[r] # "insertWs"
    /\ \A t \in Deletes : Target[t] = Target[r] => pc[t] \in {"new"} \cup Ended

Gone(r) ==
    db.ws[Target[r]] # "ready" /\ disk.ws[Target[r]] # "ready" /\ tree[Target[r]] = Nothing

\* Who deletes the workspace of a restore, the restore itself included.
Deleting(t, r) == t \in Deletes \cup {r} /\ Target[t] = Target[r]

\* After the INSERT: a deletion has marked the row before the tree goes, and the tree is gone
\* before the row goes; it is still there when the archive is unpacked.
Seen(r) ==
    /\ \A t \in Tasks : Deleting(t, r) =>
          /\ pc[t] = "commitMark" => db.ws[Target[r]] # "ready"
          /\ pc[t] \in {"delete", "commitDelete"} => Gone(r)
    /\ db.ws[Target[r]] = "absent" => Gone(r)
    /\ pc[r] = "commitMissing" => db.ws[Target[r]] = "absent"
    /\ pc[r] = "commitWs" /\ tree[Target[r]] = Nothing => db.ws[Target[r]] # "ready"
    /\ pc[r] = "unpacking" => tree[Target[r]] # Nothing
    /\ pc[r] = "error" => Gone(r)

CleanOne(r) == /\ pc[r] \in BeforeWs => Unseen(r)
               /\ pc[r] \in AfterWs => Seen(r)
CleanInv == faults \subseteq {"archive"} => \A r \in Restores : CleanOne(r)

\* A step that neither moves the calls on the workspace nor changes its visible row, and
\* neither makes nor removes its tree; it may commit.
Aside(r) ==
    /\ \A t \in Tasks : Target[t] = Target[r] => pc'[t] = pc[t]
    /\ db'.ws[Target[r]] = db.ws[Target[r]]
    /\ disk'.ws[Target[r]] \in {disk.ws[Target[r]], db.ws[Target[r]]}
    /\ tree'[Target[r]] = Nothing <=> tree[Target[r]] = Nothing

\* Such a step keeps the invariant.
LEMMA AsideClean == ASSUME NEW r \in Restores, CleanOne(r), Aside(r)  PROVE CleanOne(r)'
<1>0. r \in Tasks /\ Deletes \subseteq Tasks
  BY Kinds
<1>1. pc'[r] = pc[r]
  BY <1>0 DEF Aside
<1>2. Unseen(r) => Unseen(r)'
  BY <1>0, <1>1 DEF Unseen, Aside
<1>3. Gone(r) => Gone(r)'
  BY DEF Gone, Aside
<1>4. ASSUME Seen(r)  PROVE Seen(r)'
  <2>1. \A t \in Tasks : Deleting(t, r) => pc'[t] = pc[t]
    BY DEF Aside, Deleting
  <2> QED  BY <1>1, <1>3, <1>4, <2>1 DEF Seen, Aside, Deleting
<1> QED  BY <1>1, <1>2, <1>4 DEF CleanOne

\* No call touches the tree of another workspace.
LEMMA OtherTrees ==
    ASSUME TypeOK, NEW t \in Tasks, TaskStep(t), NEW w \in Workspaces, w # Target[t]
    PROVE  tree'[w] = tree[w]
<1>0. tree \in [Workspaces -> Contents \cup {Nothing}]
  BY DEF TypeOK
<1>1. CASE KeepStep(t)
  BY <1>1 DEF KeepStep, FindWs, OpenArchive, OpenFile, ReadOn, CloseArchive, CopyFile, InsertRow, CommitRow,
     RolledBack, packVars, fileVars
<1>2. CASE RestoreStep(t)
  BY <1>0, <1>2 DEF RestoreStep, FindSnapshot, FindSource, MakeDir, InsertWs, CommitWs, Unpack, TreeIs,
     fileVars
<1>3. CASE DeleteStep(t)
  BY <1>0, <1>3 DEF DeleteStep, FindDoomed, MarkWs, CommitMissing, CommitMark, DeleteWs, CommitDelete,
     TreeIs, fileVars
<1>4. CASE Cancel(t)
  BY <1>4 DEF Cancel, fileVars
<1> QED  BY <1>1, <1>2, <1>3, <1>4 DEF TaskStep

\* A call on another workspace stays aside.
LEMMA OthersAside ==
    ASSUME TypeOK, NEW r \in Restores, NEW t \in Tasks, TaskStep(t), Target[t] # Target[r],
           "commit" \notin faults'
    PROVE  Aside(r)
<1>0. db \in Rows /\ disk \in Rows /\ Target[r] \in Workspaces /\ Target[t] \in Workspaces
  BY Parts, Targets, Kinds
<1>1. RowsMove(t) /\ \A u \in Tasks \ {t} : pc'[u] = pc[u]
  BY TaskMoves
<1>2. tree'[Target[r]] = tree[Target[r]]
  BY <1>0, OtherTrees
<1>3. /\ db'.ws[Target[r]] = db.ws[Target[r]]
      /\ disk'.ws[Target[r]] \in {disk.ws[Target[r]], db.ws[Target[r]]}
  BY <1>0, <1>1 DEF RowsMove, Statement, RowInserted, WsInserted, WsMarked, WsDeleted, HasWs, Rows
<1> QED  BY <1>1, <1>2, <1>3 DEF Aside

\* What is left of the steps of a deletion when nothing fails.
DeleteCalm(t) ==
    LET w == Target[t] IN
    \/ /\ pc[t] \in {"new", "cleanup"} /\ UNCHANGED <<db, disk, tree>>
       /\ pc'[t] = IF db.ws[w] # "absent" THEN "mark" ELSE "error"
    \/ /\ pc[t] = "mark" /\ UNCHANGED <<disk, tree>>
       /\ IF db.ws[w] # "absent" THEN db'.ws[w] = "deleting" /\ pc'[t] = "commitMark"
          ELSE db' = db /\ pc'[t] = "commitMissing"
    \/ pc[t] = "commitMissing" /\ UNCHANGED <<db, tree>> /\ disk' = db /\ pc'[t] = "error"
    \/ pc[t] = "commitMark" /\ db' = db /\ disk' = db /\ tree'[w] = Nothing /\ pc'[t] = "delete"
    \/ /\ pc[t] = "delete" /\ UNCHANGED <<disk, tree>> /\ db'.ws[w] = "absent"
       /\ pc'[t] = IF db.ws[w] # "absent" THEN "commitDelete" ELSE "commitMissing"
    \/ /\ pc[t] = "commitDelete" /\ UNCHANGED <<db, tree>> /\ disk' = db
       /\ pc'[t] = IF t \in Restores THEN "error" ELSE "done"
    \/ /\ pc'[t] = "cancelled" /\ pc[t] \in Calling \ Blocking /\ UNCHANGED tree
       /\ \/ UNCHANGED <<db, disk>>
          \/ db' = db /\ disk' = db
          \/ /\ disk' = disk
             /\ \/ pc[t] = "mark" /\ db'.ws[w] = IF db.ws[w] # "absent" THEN "deleting" ELSE "absent"
                \/ pc[t] = "delete" /\ db'.ws[w] = "absent"
                \/ pc[t] = "insertWs" /\ t \in Restores /\ db'.ws[w] = "ready"

\* Only an archive has been found broken.
Mild == faults' \subseteq {"archive"}

\* The steps of a deletion, and cancellations, are of that form.
LEMMA DeletionsCalm ==
    ASSUME TypeOK, NEW t \in Tasks, t \notin Ids, DeleteStep(t) \/ Cancel(t), Mild
    PROVE  DeleteCalm(t)
<1>0. /\ db \in Rows /\ disk \in Rows /\ Target[t] \in Workspaces /\ Staged
      /\ tree \in [Workspaces -> Contents \cup {Nothing}]
      /\ pc \in [Tasks -> {"new"} \cup Calling \cup Ended]
  BY Parts, Kinds DEF Staged, FilesTyped
<1> USE DEF Goto, Raised, Fault, WriteFails, CommitFails, Write, Commit, Mild, storeVars, fileVars
<1>1. CASE FindDoomed(t)
  BY <1>0, <1>1 DEF FindDoomed, HasWs, DeleteCalm
<1>2. CASE MarkWs(t)
  BY <1>0, <1>2 DEF MarkWs, WsMarked, HasWs, Rows, DeleteCalm
<1>3. CASE CommitMissing(t)
  BY <1>0, <1>3 DEF CommitMissing, DeleteCalm
<1>4. CASE CommitMark(t)
  BY <1>0, <1>4 DEF CommitMark, TreeIs, DeleteCalm
<1>5. CASE DeleteWs(t)
  BY <1>0, <1>5 DEF DeleteWs, WsDeleted, HasWs, Rows, DeleteCalm
<1>6. CASE CommitDelete(t)
  BY <1>0, <1>6 DEF CommitDelete, DeleteCalm
<1>7. CASE Cancel(t)
  <2>1. pc'[t] = "cancelled" /\ pc[t] \in Calling \ Blocking /\ UNCHANGED tree
    BY <1>0, <1>7 DEF Cancel
  <2>2. pc[t] # "insert" /\ (pc[t] = "insertWs" => t \in Restores)
    BY <1>0, StageOwners DEF KeepStages, RestoreStages
  <2>3. \/ UNCHANGED <<db, disk>> \/ (db' = db /\ disk' = db)
        \/ db' = Written(t) /\ disk' = disk
    BY <1>7 DEF Cancel
  <2>4. CASE db' = Written(t) /\ disk' = disk
    BY <1>0, <2>1, <2>2, <2>4 DEF Written, WsInserted, WsMarked, WsDeleted, HasWs, Rows, DeleteCalm
  <2> QED  BY <2>1, <2>3, <2>4 DEF DeleteCalm
<1> QED  BY <1>1, <1>2, <1>3, <1>4, <1>5, <1>6, <1>7 DEF DeleteStep

\* A deletion of the workspace by somebody else.
LEMMA DeleterClean ==
    ASSUME TypeOK, NEW r \in Restores, CleanOne(r), NEW t \in Deletes, Target[t] = Target[r],
           DeleteCalm(t), Free, \A u \in Tasks \ {t} : pc'[u] = pc[u]
    PROVE  CleanOne(r)'
<1>0. /\ t \in Tasks /\ r \in Tasks /\ t # r /\ t \notin Restores /\ Deletes \subseteq Tasks
      /\ pc'[r] = pc[r] /\ pc[r] # "unpacking" /\ Staged
      /\ \A u \in Tasks : u = t \/ pc'[u] = pc[u]
  BY Kinds, Parts DEF Free, Blocking
<1>1. pc[t] # "insertWs" /\ pc[t] # "cleanup"
  BY <1>0, StageOwners DEF RestoreStages
<1>2. ASSUME pc[r] \in BeforeWs  PROVE Unseen(r)'
  <2>1. /\ Unseen(r) /\ pc[t] \in {"new"} \cup Ended /\ db.ws[Target[r]] = "absent"
    BY <1>2 DEF CleanOne, Unseen
  <2>2. UNCHANGED <<db, disk, tree>> /\ pc'[t] = "error"
    BY <1>0, <2>1 DEF DeleteCalm, Ended, Calling, KeepStages, DeleteStages, RestoreStages
  <2>3. \A u \in Deletes : Target[u] = Target[r] => pc'[u] \in {"new"} \cup Ended
    BY <1>0, <2>1, <2>2 DEF Unseen, Ended
  <2> QED  BY <1>0, <2>1, <2>2, <2>3 DEF Unseen
<1>3. ASSUME pc[r] \in AfterWs  PROVE Seen(r)'
  <2>0. Seen(r) /\ Deleting(t, r)
    BY <1>0, <1>3 DEF CleanOne, Deleting
  <2>1. \A u \in Tasks : Deleting(u, r) /\ u # t => pc'[u] = pc[u]
    BY <1>0
  <2>2. /\ pc[t] = "commitMark" => db.ws[Target[r]] # "ready"
        /\ pc[t] \in {"delete", "commitDelete"} => Gone(r)
        /\ db.ws[Target[r]] = "absent" => Gone(r)
    BY <1>0, <2>0 DEF Seen
  <2>3. CASE pc[t] = "new" \/ (pc'[t] = "cancelled" /\ UNCHANGED <<db, disk>>)
    BY <1>0, <1>1, <2>0, <2>1, <2>3 DEF Seen, Deleting, Gone, DeleteCalm, Calling, KeepStages, RestoreStages,
       DeleteStages
  <2>4. CASE /\ UNCHANGED <<disk, tree>> /\ pc'[t] \notin {"delete", "commitDelete"}
             /\ db'.ws[Target[r]] = IF db.ws[Target[r]] # "absent" THEN "deleting" ELSE "absent"
    <3>1. /\ db'.ws[Target[r]] # "ready" /\ tree' = tree /\ disk' = disk
          /\ pc'[t] \notin {"delete", "commitDelete"}
          /\ db'.ws[Target[r]] = "absent" <=> db.ws[Target[r]] = "absent"
      BY <2>4
    <3>2. Gone(r) => Gone(r)'
      BY <3>1 DEF Gone
    <3>3. \A u \in Tasks : Deleting(u, r) =>
             /\ pc'[u] = "commitMark" => db'.ws[Target[r]] # "ready"
             /\ pc'[u] \in {"delete", "commitDelete"} => Gone(r)'
      BY <2>0, <2>1, <3>1, <3>2 DEF Seen
    <3> QED  BY <1>0, <2>0, <3>1, <3>2, <3>3 DEF Seen, Deleting
  <2>5. CASE pc[t] = "commitMark" /\ pc'[t] = "delete"
    <3>1. Gone(r)'
      BY <2>2, <2>5 DEF DeleteCalm, Gone
    <3>2. db' = db
      BY <2>5 DEF DeleteCalm
    <3> QED  BY <1>0, <2>0, <2>1, <3>1, <3>2 DEF Seen, Deleting, Gone
  <2>6. CASE pc[t] = "delete"
    <3>1. Gone(r)'
      BY <2>2, <2>6 DEF DeleteCalm, Gone
    <3>2. pc'[t] # "commitMark" /\ db'.ws[Target[r]] \in {"absent", db.ws[Target[r]]}
      BY <2>6 DEF DeleteCalm
    <3> QED  BY <1>0, <2>0, <2>1, <3>1, <3>2 DEF Seen, Deleting, Gone
  <2>7. CASE db' = db /\ disk' = db /\ tree' = tree /\ pc'[t] \in {"error", "done", "cancelled"}
    <3>1. Gone(r) => Gone(r)'
      BY <2>7 DEF Gone
    <3> QED  BY <1>0, <2>0, <2>1, <2>7, <3>1 DEF Seen, Deleting
  <2> QED  BY <1>1, <2>3, <2>4, <2>5, <2>6, <2>7, <1>0 DEF DeleteCalm
<1> QED  BY <1>0, <1>2, <1>3 DEF CleanOne

\* A deletion or a cancellation of the restore itself.
LEMMA CleanupClean ==
    ASSUME TypeOK, NEW r \in Restores, CleanOne(r), DeleteStep(r) \/ Cancel(r), DeleteCalm(r),
           \A u \in Tasks \ {r} : pc'[u] = pc[u]
    PROVE  CleanOne(r)'
<1>0. /\ r \in Tasks /\ Deleting(r, r) /\ pc \in [Tasks -> {"new"} \cup Calling \cup Ended]
      /\ \A u \in Tasks : u = r \/ pc'[u] = pc[u]
  BY Kinds, Parts DEF Deleting, Staged
<1>1. CASE Cancel(r)
  <2>1. pc'[r] = "cancelled"
    BY <1>0, <1>1 DEF Cancel, Goto
  <2> QED  BY <2>1 DEF CleanOne, BeforeWs, AfterWs, DeleteStages
<1>2. CASE DeleteStep(r)
  <2>1. pc[r] \in {"cleanup"} \cup DeleteStages /\ pc'[r] # "cancelled"
    BY <1>0, <1>2 DEF DeleteStep, FindDoomed, MarkWs, CommitMissing, CommitMark, DeleteWs, CommitDelete,
       DeleteStages, Goto, Raised
  <2>2. Seen(r)
    BY <2>1 DEF CleanOne, AfterWs
  <2>3. pc'[r] \in {"error"} \cup DeleteStages
    BY <2>1 DEF DeleteCalm, DeleteStages
  <2>4. /\ pc[r] = "commitMark" => db.ws[Target[r]] # "ready"
        /\ pc[r] \in {"delete", "commitDelete"} => Gone(r)
        /\ db.ws[Target[r]] = "absent" => Gone(r)
        /\ pc[r] = "commitMissing" => db.ws[Target[r]] = "absent"
    BY <1>0, <2>2 DEF Seen
  <2>5. /\ Gone(r) => Gone(r)'
        /\ db.ws[Target[r]] # "ready" => db'.ws[Target[r]] # "ready"
        /\ db'.ws[Target[r]] = "absent" => Gone(r)'
    BY <2>1, <2>4 DEF DeleteCalm, Gone
  <2>6. /\ pc'[r] = "commitMark" => db'.ws[Target[r]] # "ready"
        /\ pc'[r] \in {"delete", "commitDelete"} => Gone(r)'
        /\ pc'[r] = "commitMissing" => db'.ws[Target[r]] = "absent"
        /\ pc'[r] = "error" => Gone(r)'
    BY <2>1, <2>4 DEF DeleteCalm, Gone
  <2>7. Seen(r)'
    BY <1>0, <2>2, <2>3, <2>5, <2>6 DEF Seen, Deleting, DeleteStages
  <2> QED  BY <2>3, <2>7 DEF CleanOne, BeforeWs, DeleteStages
<1> QED  BY <1>1, <1>2

\* The steps that make and fill the workspace.
LEMMA RestoreClean ==
    ASSUME TypeOK, NEW r \in Restores, CleanOne(r), RestoreStep(r), Mild,
           \A u \in Tasks \ {r} : pc'[u] = pc[u]
    PROVE  CleanOne(r)'
<1>0. /\ r \in Tasks /\ Deleting(r, r) /\ pc \in [Tasks -> {"new"} \cup Calling \cup Ended]
      /\ \A u \in Tasks : u = r \/ pc'[u] = pc[u]
      /\ db \in Rows /\ tree \in [Workspaces -> Contents \cup {Nothing}] /\ Target[r] \in Workspaces
      /\ Deletes \subseteq Tasks /\ r \notin Deletes /\ Bare # Nothing
      /\ db.ws[Target[r]] \in WsStatus /\ Staged
  BY Kinds, Parts DEF Deleting, Staged, FilesTyped, Rows
<1> USE DEF Goto, Fault, WriteFails, CommitFails, Write, Commit, Mild, storeVars, fileVars
<1>1. CASE FindSnapshot(r) \/ FindSource(r) \/ MakeDir(r)
  <2>1. /\ Unseen(r) /\ pc[r] \in {"new", "source", "make"}
    BY <1>1 DEF FindSnapshot, FindSource, MakeDir, CleanOne, BeforeWs
  <2>2. pc'[r] \in {"source", "make", "insertWs", "error"} /\ UNCHANGED <<db, disk>>
    BY <1>0, <1>1 DEF FindSnapshot, FindSource, MakeDir
  <2>3. IF pc'[r] = "insertWs" THEN tree'[Target[r]] # Nothing ELSE tree' = tree
    BY <1>0, <1>1 DEF FindSnapshot, FindSource, MakeDir, TreeIs
  <2>4. Unseen(r)'
    BY <1>0, <2>1, <2>2, <2>3 DEF Unseen
  <2>5. ASSUME pc'[r] = "error"  PROVE Seen(r)'
    <3>1. Gone(r)'
      BY <2>1, <2>2, <2>3, <2>5 DEF Unseen, Gone
    <3>2. \A u \in Tasks : Deleting(u, r)' => pc'[u] \in {"new"} \cup Ended
      BY <1>0, <2>1, <2>5 DEF Unseen, Deleting, Ended
    <3> QED  BY <2>5, <3>1, <3>2 DEF Seen, Ended
  <2> QED  BY <2>2, <2>4, <2>5 DEF CleanOne, AfterWs, DeleteStages
<1>2. CASE InsertWs(r)
  <2>0. Unseen(r) /\ pc[r] = "insertWs" /\ tree[Target[r]] # Nothing
    BY <1>2 DEF InsertWs, CleanOne, BeforeWs, Unseen
  <2>1. pc'[r] = "commitWs" /\ db'.ws[Target[r]] = "ready" /\ tree' = tree
    BY <1>0, <1>2 DEF InsertWs, WsInserted, Rows
  <2>2. \A u \in Tasks : Deleting(u, r)' => pc'[u] \in {"new", "commitWs"} \cup Ended
    BY <1>0, <2>0, <2>1 DEF Unseen, Deleting
  <2> QED  BY <2>0, <2>1, <2>2 DEF CleanOne, Seen, BeforeWs, Ended
<1>3. CASE CommitWs(r) /\ pc'[r] = "unpacking"
  <2>1. Seen(r) /\ tree[Target[r]] # Nothing /\ tree'[Target[r]] # Nothing /\ db' = db /\ disk' = db
    BY <1>0, <1>3 DEF CommitWs, TreeIs, CleanOne, AfterWs
  <2>2. ~Gone(r)
    BY <2>1 DEF Gone
  <2> QED  BY <1>0, <1>3, <2>1, <2>2 DEF CleanOne, Seen, BeforeWs, Deleting
<1>4. CASE CommitWs(r) /\ pc'[r] = "error"
  <2>1. Seen(r) /\ tree[Target[r]] = Nothing /\ pc[r] = "commitWs" /\ tree' = tree /\ db' = db /\ disk' = db
    BY <1>0, <1>4 DEF CommitWs, CleanOne, AfterWs
  <2>2. Gone(r)'
    BY <1>0, <2>1 DEF Seen, Gone
  <2> QED  BY <1>0, <1>4, <2>1, <2>2 DEF CleanOne, Seen, BeforeWs, Deleting
<1>5. CASE Unpack(r)
  <2>1. Seen(r) /\ pc[r] = "unpacking" /\ UNCHANGED <<db, disk>> /\ pc'[r] \in {"done", "cleanup"}
    BY <1>0, <1>5 DEF Unpack, UnpackFailed, CleanOne, AfterWs
  <2>2. ~Gone(r)
    BY <2>1 DEF Seen, Gone
  <2> QED  BY <1>0, <2>1, <2>2 DEF CleanOne, Seen, BeforeWs, AfterWs, DeleteStages, Deleting
<1>6. CommitWs(r) => pc'[r] \in {"unpacking", "error"}
  BY <1>0 DEF CommitWs
<1> QED  BY <1>1, <1>2, <1>3, <1>4, <1>5, <1>6 DEF RestoreStep

\* Every step keeps the invariant.
LEMMA NextClean == TypeOK /\ CleanInv /\ [Next]_vars => CleanInv'
<1> SUFFICES ASSUME TypeOK, CleanInv, [Next]_vars, Mild, NEW r \in Restores  PROVE CleanOne(r)'
  BY DEF CleanInv, Mild
<1>0. /\ faults \subseteq {"archive"} /\ CleanOne(r) /\ r \in Tasks /\ Target[r] \in Workspaces
      /\ pc \in [Tasks -> {"new"} \cup Calling \cup Ended] /\ Staged
  BY FaultsGrow, Kinds, Parts DEF Mild, CleanInv, Staged, vars
<1>1. ASSUME NEW t \in Tasks, TaskStep(t), Free \/ pc[t] \in Blocking  PROVE CleanOne(r)'
  <2>0. \A u \in Tasks \ {t} : pc'[u] = pc[u]
    BY <1>1, TaskMoves
  <2>1. CASE Target[t] # Target[r]
    BY <1>0, <1>1, <2>1, OthersAside, AsideClean DEF Mild
  <2>2. CASE Target[t] = Target[r] /\ t # r
    <3>1. t \in Deletes /\ t \notin Ids /\ t \notin Restores
      BY <2>2, Targets DEF Tasks
    <3>2. ~KeepStep(t) /\ ~RestoreStep(t) /\ pc[t] \notin Blocking
      BY <1>0, <3>1, StageOwners DEF KeepStep, FindWs, OpenArchive, OpenFile, ReadOn, CloseArchive, CopyFile,
         InsertRow, CommitRow, RolledBack, RestoreStep, FindSnapshot, FindSource, MakeDir, InsertWs, CommitWs,
         Unpack, KeepStages, RestoreStages, Blocking, Ids
    <3> QED  BY <1>0, <1>1, <2>0, <2>2, <3>1, <3>2, DeletionsCalm, DeleterClean DEF TaskStep
  <2>3. CASE t = r
    <3>1. t \notin Ids
      BY <2>3, Kinds
    <3>2. ~KeepStep(t)
      BY <1>0, <2>3, <3>1, StageOwners DEF KeepStep, FindWs, OpenArchive, OpenFile, ReadOn, CloseArchive,
         CopyFile, InsertRow, CommitRow, RolledBack, KeepStages, Ids
    <3> QED  BY <1>0, <1>1, <2>0, <2>3, <3>1, <3>2, DeletionsCalm, CleanupClean, RestoreClean DEF TaskStep
  <2> QED  BY <2>1, <2>2, <2>3
<1>2. ASSUME NEW w \in Workspaces, Edit(w)  PROVE CleanOne(r)'
  <2>1. tree'[Target[r]] = Nothing <=> tree[Target[r]] = Nothing
    <3>1. TypeOK'
      BY <1>2, OtherTyped
    <3>2. PICK f \in Files, v \in Texts : tree' = [tree EXCEPT ![w][f] = v]
      BY <1>2 DEF Edit
    <3>3. tree[w] \in Contents
      BY <1>2 DEF Edit, TypeOK
    <3>4. [tree[w] EXCEPT ![f] = v] \in Contents
      BY <3>3 DEF Contents
    <3>5. tree'[Target[r]] = IF Target[r] = w THEN [tree[w] EXCEPT ![f] = v] ELSE tree[Target[r]]
      BY <1>0, <3>2 DEF TypeOK
    <3> QED  BY <3>3, <3>4, <3>5, Kinds
  <2>2. Aside(r)
    BY <1>2, <2>1 DEF Edit, Aside, storeVars
  <2> QED  BY <1>0, <2>2, AsideClean
<1>3. CASE AllEnded \/ UNCHANGED vars
  BY <1>0, <1>3, AsideClean DEF AllEnded, Aside, vars
<1>4. ~Crash
  BY DEF Crash, Reopened, Fault, Mild
<1> QED  BY <1>1, <1>2, <1>3, <1>4 DEF Next, TaskStep

------------------------------------------------------------------------------
(* What a restore hands out. *)

\* At most one call blocks the event loop.
OneBlocks == \A s, t \in Tasks : pc[s] \in Blocking /\ pc[t] \in Blocking => s = t

\* What an archive holds of each half of a file is what some tree held while it was written.
Faithful(s, f) == IF f \in Skipped THEN stored[s][f] = Absent
                  ELSE \A h \in Halves : \E t \in seen[s] : stored[s][f][h] = t[f][h]

\* The archive being written is right but for the files that are left, what was read of the
\* one in hand was there, and the workspace is still one of the trees there were; a complete
\* archive is right.
ArchiveRight(s) ==
    /\ pc[s] = "archiving" => /\ stored[s] # Nothing /\ tree[Target[s]] \in seen[s]
                              /\ \A f \in Files \ left : Faithful(s, f)
                              /\ \A f \in left : stored[s][f] = Absent /\ f \notin Skipped
                              /\ reading # NoFile => \E t \in seen[s] : reading.was = t[reading.file]
    /\ (s \in packed /\ stored[s] # Nothing) => \A f \in Files : Faithful(s, f)

\* Only a complete file has a row, and a restore takes only what had one.
RowPacked(i) == db.id[i] \/ disk.id[i] => i \in packed
Taken(r) == pc[r] \in RestoreStages => Source[r] \in packed

ArchiveInv ==
    /\ OneBlocks
    /\ \A i \in Ids : RowPacked(i)
    /\ \A s \in Snapshots : ArchiveRight(s)
    /\ \A r \in Restores : Taken(r)

\* What was completely written stays on record.
LEMMA PackedGrows == [Next]_vars => packed \subseteq packed'
BY DEF Next, KeepStep, FindWs, OpenArchive, OpenFile, ReadOn, CloseArchive, CopyFile,
   InsertRow, CommitRow, RolledBack, RestoreStep, FindSnapshot, FindSource, MakeDir, InsertWs, CommitWs,
   Unpack, DeleteStep, FindDoomed, MarkWs, CommitMissing, CommitMark, DeleteWs, CommitDelete,
   Cancel, Edit, Crash, AllEnded, fileVars, packVars, vars

\* A call starts to block only when nobody does.
LEMMA NextBlocks ==
    ASSUME TypeOK, OneBlocks, [Next]_vars
    PROVE  OneBlocks'
<1>0. pc \in [Tasks -> {"new"} \cup Calling \cup Ended]
  BY DEF TypeOK
<1>1. ASSUME NEW t \in Tasks, TaskStep(t), Free \/ pc[t] \in Blocking  PROVE OneBlocks'
  <2>1. \A u \in Tasks \ {t} : pc'[u] = pc[u]
    BY <1>1, TaskMoves
  <2>2. \A u \in Tasks \ {t} : pc[u] \notin Blocking
    BY <1>1 DEF Free, OneBlocks
  <2> QED  BY <2>1, <2>2 DEF OneBlocks
<1>2. CASE (\E w \in Workspaces : Edit(w)) \/ AllEnded \/ UNCHANGED vars
  BY <1>2 DEF Edit, AllEnded, vars, OneBlocks
<1>3. CASE Crash
  BY <1>0, <1>3 DEF Crash, OneBlocks, Blocking
<1> QED  BY <1>1, <1>2, <1>3 DEF Next, TaskStep

\* Every step keeps rows to complete files.
LEMMA NextRowPacked ==
    ASSUME IndInv, [Next]_vars, NEW i \in Ids, RowPacked(i)
    PROVE  RowPacked(i)'
<1>0. /\ TypeOK /\ Staged /\ IdInv(i) /\ i \in Tasks /\ db \in Rows /\ disk \in Rows
      /\ packed \subseteq packed' /\ Target[i] \in Workspaces
  BY Parts, Kinds, ById, PackedGrows DEF IndInv
<1>1. ASSUME NEW t \in Tasks \ {i}, TaskStep(t)  PROVE OldRow(i)
  BY <1>0, <1>1, OthersAlone DEF TaskStep, LeftAlone
<1>2. ASSUME TaskStep(i)  PROVE OldRow(i) \/ i \in packed
  <2>1. RowsMove(i)
    BY <1>0, <1>2, TaskMoves
  <2>2. pc[i] \in {"new"} \cup Ended \cup KeepStages
    BY <1>0, StageKinds DEF Staged
  <2>3. CASE pc[i] # "insert"
    BY <2>1, <2>2, <2>3 DEF RowsMove, Statement, OldRow, Ended, KeepStages
  <2> QED  BY <1>0, <2>3 DEF IdInv
<1>3. CASE (\E w \in Workspaces : Edit(w)) \/ AllEnded \/ UNCHANGED vars
  BY <1>0, <1>3 DEF Edit, AllEnded, vars, storeVars, RowPacked
<1>4. CASE Crash
  BY <1>0, <1>4 DEF Crash, Reopened, RowPacked
<1> QED  BY <1>0, <1>1, <1>2, <1>3, <1>4 DEF Next, TaskStep, OldRow, RowPacked

\* A file of an archive is right whatever is seen besides.
LEMMA StillFaithful ==
    ASSUME NEW s, NEW f, Faithful(s, f), stored'[s] = stored[s], seen[s] \subseteq seen'[s]
    PROVE  Faithful(s, f)'
BY DEF Faithful

\* The steps that write an archive.
LEMMA OwnRight ==
    ASSUME IndInv, \A i \in Ids : Kept(i), NEW s \in Snapshots, ArchiveRight(s), KeepStep(s)
    PROVE  ArchiveRight(s)'
<1>0. /\ FilesTyped /\ pc \in [Tasks -> {"new"} \cup Calling \cup Ended] /\ Kept(s)
      /\ s \in Tasks /\ s \in Ids /\ s \notin Exports /\ Target[s] \in Workspaces
      /\ stored \in [Ids -> Contents \cup {Nothing}] /\ seen \in [Snapshots -> SUBSET Contents]
      /\ tree[Target[s]] \in Contents \cup {Nothing} /\ stored[s] \in Contents \cup {Nothing}
  BY Parts, Kinds DEF IndInv, Staged, FilesTyped
<1>1. CASE FindWs(s)
  BY <1>0, <1>1 DEF FindWs, Goto, ArchiveRight, Faithful, fileVars, packVars
<1>2. CASE OpenArchive(s)
  <2>1. CASE tree[Target[s]] = Nothing
    BY <1>0, <1>2, <2>1 DEF OpenArchive, Goto, ArchiveRight, Faithful, fileVars, packVars
  <2>2. CASE tree[Target[s]] # Nothing
    <3>1. /\ stored'[s] = Bare /\ reading' = NoFile /\ left' = Files \ Skipped /\ seen'[s] = {tree[Target[s]]}
          /\ tree' = tree /\ packed' = packed /\ s \notin packed
      BY <1>0, <1>2, <2>2 DEF OpenArchive, Kept
    <3>2. Bare # Nothing /\ \A f \in Files : Bare[f] = Absent
      BY Kinds DEF Bare
    <3> QED  BY <3>1, <3>2 DEF ArchiveRight, Faithful
  <2> QED  BY <2>1, <2>2
<1>3. CASE OpenFile(s)
  <2>0. /\ s \notin packed /\ packed' = packed /\ seen' = seen /\ tree' = tree /\ stored' = stored
        /\ pc[s] = "archiving" /\ reading = NoFile
    BY <1>0, <1>3 DEF OpenFile, Kept
  <2>1. CASE pc'[s] = "error"
    BY <2>0, <2>1 DEF ArchiveRight
  <2>2. CASE /\ left' = left /\ tree[Target[s]] # Nothing
             /\ \E f \in left : reading' = [file |-> f, was |-> tree[Target[s]][f]]
    <3>1. \E t \in seen'[s] : reading'.was = t[reading'.file]
      BY <2>0, <2>2 DEF ArchiveRight
    <3> QED  BY <2>0, <2>2, <3>1 DEF ArchiveRight, Faithful
  <2>3. ASSUME NEW f \in left, Listed(s, f, FALSE), left' = left \ {f}, reading' = reading
        PROVE  ArchiveRight(s)'
    <3>1. PICK t \in seen[s] : t[f] = Absent
      BY <2>3 DEF Listed
    <3>2. stored[s][f] = Absent /\ f \notin Skipped
      BY <2>0 DEF ArchiveRight
    <3>3. Faithful(s, f)
      BY <3>1, <3>2 DEF Faithful
    <3>4. \A g \in Files \ left' : Faithful(s, g)'
      BY <2>0, <2>3, <3>3 DEF ArchiveRight, Faithful
    <3> QED  BY <2>0, <2>3, <3>4 DEF ArchiveRight
  <2> QED  BY <1>0, <1>3, <2>1, <2>2, <2>3 DEF OpenFile, Content, Goto
<1>7. CASE ReadOn(s)
  <2>3. PICK f \in left : f = reading.file
    BY <1>0, <1>7 DEF ReadOn, FilesTyped
  <2> DEFINE now == Content(Target[s], f)
  <2>0. /\ s \notin packed /\ packed' = packed /\ seen' = seen /\ tree' = tree
        /\ stored[s] \in Contents /\ tree[Target[s]] \in seen[s] /\ tree[Target[s]] # Nothing
        /\ \A g \in Files \ left : Faithful(s, g)
        /\ \A g \in left : stored[s][g] = Absent /\ g \notin Skipped
        /\ \E t \in seen[s] : reading.was = t[f]
        /\ reading' = NoFile /\ f \in left /\ f \in Files
    BY <1>0, <1>7, <2>3, Kinds DEF ReadOn, Kept, ArchiveRight, FilesTyped
  <2>1. CASE pc'[s] = "error"
    BY <2>0, <2>1 DEF ArchiveRight
  <2>2. ASSUME NEW v \in {reading.was, now}, left' = left \ {f},
               stored' = [stored EXCEPT ![s][f] = <<reading.was[1], v[2]>>]
        PROVE  ArchiveRight(s)'
    <3> DEFINE text == <<reading.was[1], v[2]>>
    <3>1. /\ stored'[s][f] = text
          /\ \A g \in Files \ {f} : stored'[s][g] = stored[s][g]
          /\ stored'[s] # Nothing
      <4>1. stored'[s] = [stored[s] EXCEPT ![f] = text]
        BY <1>0, <2>2
      <4> HIDE DEF text
      <4>2. /\ stored'[s][f] = text
            /\ \A g \in Files \ {f} : stored'[s][g] = stored[s][g]
        BY <2>0, <4>1 DEF Contents
      <4>3. stored' \in [Ids -> Contents \cup {Nothing}] /\ stored'[s] \in Contents
        BY <1>0, <1>7, <2>0, StoredTyped, Kinds
      <4> QED  BY <4>2, <4>3, Kinds
    <3>2. \E t \in seen[s] : text[1] = t[f][1]
      BY <2>0
    <3>3. \E t \in seen[s] : text[2] = t[f][2]
      BY <2>0, <2>2 DEF Content
    <3>4. Faithful(s, f)'
      <4>1. \A h \in Halves : \E t \in seen[s] : text[h] = t[f][h]
        BY <3>2, <3>3 DEF Halves
      <4>2. f \notin Skipped
        BY <2>0
      <4> HIDE DEF text
      <4> QED  BY <2>0, <3>1, <4>1, <4>2 DEF Faithful
    <3>5. \A g \in Files \ left' : Faithful(s, g)'
      <4> HIDE DEF text
      <4>1. ASSUME NEW g \in Files \ left', g # f  PROVE Faithful(s, g)'
        <5>1. Faithful(s, g) /\ stored'[s][g] = stored[s][g] /\ seen' = seen
          BY <2>0, <2>2, <3>1, <4>1
        <5> QED  BY <5>1 DEF Faithful
      <4> QED  BY <2>0, <2>2, <3>4, <4>1
    <3>6. \A g \in left' : stored'[s][g] = Absent /\ g \notin Skipped
      BY <1>0, <2>0, <2>2, <3>1 DEF FilesTyped
    <3> QED  BY <2>0, <3>1, <3>5, <3>6 DEF ArchiveRight
  <2> QED  BY <1>0, <1>7, <2>1, <2>2, <2>3 DEF ReadOn, Goto
<1>4. CASE CloseArchive(s)
  BY <1>0, <1>4 DEF CloseArchive, Goto, ArchiveRight, Faithful
<1>5. CASE InsertRow(s) \/ CommitRow(s) \/ RolledBack(s)
  <2>1. /\ pc'[s] # "archiving" /\ packed' = packed /\ seen' = seen
        /\ stored'[s] \in {stored[s], Nothing}
    BY <1>0, <1>5 DEF InsertRow, CommitRow, RolledBack, Goto, packVars, fileVars
  <2> QED  BY <2>1 DEF ArchiveRight, Faithful
<1>6. ~CopyFile(s)
  BY <1>0 DEF CopyFile
<1> QED  BY <1>1, <1>2, <1>3, <1>4, <1>5, <1>6, <1>7 DEF KeepStep

\* A step of another call, which does not see an archive being written.
LEMMA OthersRight ==
    ASSUME IndInv, OneBlocks, NEW t \in Tasks, NEW s \in Snapshots \ {t}, ArchiveRight(s),
           TaskStep(t), Free \/ pc[t] \in Blocking
    PROVE  ArchiveRight(s)'
<1>0. /\ s \in Ids /\ s \in Tasks /\ TypeOK /\ FilesTyped
  BY Parts, Kinds DEF IndInv
<1>1. LeftAlone(s)
  BY <1>0, <1>0, OthersAlone DEF TaskStep
<1>2. pc[s] # "archiving"
  BY <1>0 DEF Free, OneBlocks, Blocking
<1>3. seen'[s] = seen[s] /\ (s \in packed' => s \in packed)
  BY <1>0 DEF TaskStep, KeepStep, FindWs, OpenArchive, OpenFile, ReadOn, CloseArchive, CopyFile,
     InsertRow, CommitRow, RolledBack, RestoreStep, FindSnapshot, FindSource, MakeDir, InsertWs, CommitWs,
     Unpack, DeleteStep, FindDoomed, MarkWs, CommitMissing, CommitMark, DeleteWs, CommitDelete,
     Cancel, fileVars, packVars, FilesTyped
<1> QED  BY <1>1, <1>2, <1>3 DEF ArchiveRight, LeftAlone, Faithful

\* A write to a workspace is seen by the archives of it that are being written.
LEMMA EditRight ==
    ASSUME IndInv, NEW s \in Snapshots, ArchiveRight(s), NEW w \in Workspaces, Edit(w)
    PROVE  ArchiveRight(s)'
<1>0. tree \in [Workspaces -> Contents \cup {Nothing}] /\ Target[s] \in Workspaces
  BY Parts, Kinds DEF IndInv, FilesTyped
<1>1. /\ pc' = pc /\ stored' = stored /\ left' = left /\ packed' = packed
      /\ seen'[s] = IF pc[s] = "archiving" /\ Target[s] = w THEN seen[s] \cup {tree'[w]} ELSE seen[s]
      /\ Target[s] # w => tree'[Target[s]] = tree[Target[s]]
  BY <1>0 DEF Edit
<1>2. \A f \in Files : Faithful(s, f) => Faithful(s, f)'
  BY <1>1, StillFaithful
<1>3. pc[s] = "archiving" => tree'[Target[s]] \in seen'[s]
  BY <1>1 DEF ArchiveRight
<1>4. pc[s] = "archiving" /\ reading' # NoFile => \E t \in seen'[s] : reading'.was = t[reading'.file]
  <2>1. reading' = reading /\ seen[s] \subseteq seen'[s]
    BY <1>1 DEF Edit
  <2> QED  BY <2>1 DEF ArchiveRight
<1> QED  BY <1>1, <1>2, <1>3, <1>4 DEF ArchiveRight

\* A restore starts from a row, so from a complete archive.
LEMMA NextTaken ==
    ASSUME TypeOK, \A i \in Ids : RowPacked(i), [Next]_vars, NEW r \in Restores, Taken(r)
    PROVE  Taken(r)'
<1>0. /\ pc \in [Tasks -> {"new"} \cup Calling \cup Ended] /\ r \in Tasks /\ Staged
      /\ packed \subseteq packed' /\ Source[r] \in Ids /\ r \notin Ids
  BY Kinds, Parts, PackedGrows DEF TypeOK
<1>1. CASE pc'[r] = pc[r] \/ pc'[r] \notin RestoreStages \/ pc[r] \in RestoreStages
  BY <1>0, <1>1 DEF Taken
<1>2. ASSUME NEW t \in Tasks, TaskStep(t), t # r  PROVE pc'[r] = pc[r]
  BY <1>0, <1>2, TaskMoves
<1>3. CASE FindSnapshot(r)
  BY <1>0, <1>3 DEF FindSnapshot, HasRow, RowPacked, Goto, Taken, RestoreStages
<1>4. ASSUME TaskStep(r), ~FindSnapshot(r)
      PROVE  pc'[r] \notin RestoreStages \/ pc[r] \in RestoreStages
  <2>1. CASE KeepStep(r)
    BY <1>0, <2>1, StageOwners DEF KeepStep, FindWs, OpenArchive, OpenFile, ReadOn, CloseArchive,
       CopyFile, InsertRow, CommitRow, RolledBack, KeepStages
  <2>2. CASE RestoreStep(r)
    BY <1>4, <2>2 DEF RestoreStep, FindSource, MakeDir, InsertWs, CommitWs, Unpack, RestoreStages
  <2>3. CASE DeleteStep(r)
    BY <1>0, <2>3 DEF DeleteStep, FindDoomed, MarkWs, CommitMissing, CommitMark, DeleteWs,
       CommitDelete, Goto, Raised, RestoreStages
  <2>4. CASE Cancel(r)
    BY <1>0, <2>4 DEF Cancel, Goto, RestoreStages
  <2> QED  BY <1>4, <2>1, <2>2, <2>3, <2>4 DEF TaskStep
<1>5. CASE (\E w \in Workspaces : Edit(w)) \/ AllEnded \/ UNCHANGED vars
  BY <1>1, <1>5 DEF Edit, AllEnded, vars
<1>6. CASE Crash
  BY <1>0, <1>1, <1>6 DEF Crash, RestoreStages
<1> QED  BY <1>1, <1>2, <1>3, <1>4, <1>5, <1>6 DEF Next, TaskStep

\* Every step keeps the invariant.
LEMMA NextArchive ==
    IndInv /\ (\A i \in Ids : Kept(i)) /\ ArchiveInv /\ [Next]_vars => ArchiveInv'
<1> SUFFICES ASSUME IndInv, \A i \in Ids : Kept(i), ArchiveInv, [Next]_vars  PROVE ArchiveInv'
  OBVIOUS
<1>0. TypeOK /\ pc \in [Tasks -> {"new"} \cup Calling \cup Ended]
  BY DEF IndInv, TypeOK
<1>1. OneBlocks'
  BY <1>0, NextBlocks DEF ArchiveInv
<1>2. \A i \in Ids : RowPacked(i)'
  BY NextRowPacked DEF ArchiveInv
<1>3. \A r \in Restores : Taken(r)'
  BY <1>0, NextTaken DEF ArchiveInv
<1>4. ASSUME NEW s \in Snapshots  PROVE ArchiveRight(s)'
  <2>0. ArchiveRight(s) /\ OneBlocks /\ s \in Ids /\ s \in Tasks
    BY Kinds DEF ArchiveInv
  <2>1. ASSUME NEW t \in Tasks, TaskStep(t), Free \/ pc[t] \in Blocking, t # s
        PROVE  ArchiveRight(s)'
    BY <2>0, <2>1, OthersRight
  <2>2. CASE KeepStep(s)
    BY <2>0, <2>2, OwnRight
  <2>3. CASE Cancel(s)
    BY <1>0, <2>0, <2>3 DEF Cancel, Goto, fileVars, packVars, ArchiveRight, Faithful
  <2>4. ~RestoreStep(s) /\ ~DeleteStep(s)
    BY <1>0, <2>0, NotAnId
  <2>5. ASSUME NEW w \in Workspaces, Edit(w)  PROVE ArchiveRight(s)'
    BY <2>0, <2>5, EditRight
  <2>6. CASE AllEnded \/ UNCHANGED vars
    BY <2>0, <2>6 DEF AllEnded, vars, ArchiveRight, Faithful
  <2>7. CASE Crash
    BY <1>0, <2>0, <2>7 DEF Crash, ArchiveRight, Faithful, Calling, KeepStages
  <2> QED  BY <2>1, <2>2, <2>3, <2>4, <2>5, <2>6, <2>7 DEF Next, TaskStep
<1> QED  BY <1>1, <1>2, <1>3, <1>4 DEF ArchiveInv

\* As long as files can be removed and looked at and the daemon does not die, a complete file
\* is that of a call that keeps it or removes it, of one that was cancelled, or of one that
\* succeeded, and then its row is gone only with its workspace, unless a commit failed.
THEOREM NoFileStrays == Spec => []NoStrayFile
<1>1. Init => (\A i \in Ids : Kept(i)) /\ Durable
  BY DEF Init, Kept, Tasks, Durable, IdDurable, WsDurable
<1>2. IndInv /\ (\A i \in Ids : Kept(i)) /\ [Next]_vars => (\A i \in Ids : Kept(i))'
  BY NextKept
<1>3. IndInv /\ (\A i \in Ids : Kept(i)) /\ Durable => NoStrayFile
  <2> SUFFICES ASSUME IndInv, \A i \in Ids : Kept(i), Durable, faults \cap {"crash", "fs"} = {},
                      NEW i \in packed, stored[i] # Nothing
               PROVE  \/ pc[i] \in {"insert", "commit", "rollback", "cancelled"}
                      \/ pc[i] = "done" /\ (CommitNeverFailed => HasRow(i) \/ db.ws[Target[i]] = "absent")
    BY DEF NoStrayFile
  <2>1. i \in Ids /\ i \in Tasks /\ Staged
    BY Parts, Kinds DEF IndInv, FilesTyped
  <2>2. pc[i] \in {"new"} \cup Ended \cup KeepStages
    BY <2>1, StageKinds DEF Staged
  <2>3. pc[i] = "done" /\ CommitNeverFailed => HasRow(i) \/ db.ws[Target[i]] = "absent"
    BY <2>1 DEF Durable, IdDurable, RowThere, HasRow
  <2> QED  BY <2>1, <2>2, <2>3 DEF Kept, Ended, KeepStages
<1> QED  BY <1>1, <1>2, <1>3, NextDurable, Inductive, PTL DEF Spec

\* What was reported is on disk, as long as no commit has failed: a snapshot or an artifact
\* until its workspace goes, the workspace of a restore unless somebody is deleting it.
THEOREM ReportsAreDurable == Spec => []ReportedDurable
<1>1. Init => Durable
  BY DEF Init, Durable, IdDurable, WsDurable, Tasks
<1>2. Durable => ReportedDurable
  BY DEF Durable, ReportedDurable, IdDurable, WsDurable, RowThere, WsThere, Doomed
<1> QED  BY <1>1, <1>2, NextDurable, Inductive, PTL DEF Spec

\* A restore that only a broken archive has failed leaves neither a workspace that looks
\* restored nor a tree, whoever deletes the workspace meanwhile and whatever is cancelled.
THEOREM FailedRestoresAreClean == Spec => []FailedRestoreCleaned
<1>1. Init => CleanInv
  <2> SUFFICES ASSUME Init, NEW r \in Restores  PROVE CleanOne(r)
    BY DEF CleanInv
  <2>1. /\ db.ws[Target[r]] = "absent" /\ disk.ws[Target[r]] = "absent" /\ tree[Target[r]] = Nothing
        /\ \A t \in Tasks : pc[t] = "new"
    BY Kinds DEF Init, Created
  <2> QED  BY <2>1, Kinds DEF CleanOne, Unseen, AfterWs, DeleteStages
<1>2. CleanInv => FailedRestoreCleaned
  BY DEF CleanInv, CleanOne, FailedRestoreCleaned, Seen, Gone, AfterWs
<1> QED  BY <1>1, <1>2, NextClean, ArchiveTypeCorrect, PTL DEF Spec

\* Only unpacking its archive completes a restore.
LEMMA OnlyUnpackCompletes ==
    ASSUME TypeOK, [Next]_vars, NEW r \in Restores, pc[r] # "done", pc'[r] = "done"
    PROVE  Unpack(r)
<1>0. /\ pc \in [Tasks -> {"new"} \cup Calling \cup Ended] /\ r \in Tasks /\ Staged /\ r \notin Ids
  BY Kinds, Parts DEF TypeOK
<1>1. ASSUME NEW t \in Tasks, TaskStep(t)  PROVE t = r /\ TaskStep(r)
  BY <1>0, <1>1, TaskMoves
<1>2. ~KeepStep(r)
  BY <1>0, StageOwners DEF KeepStep, FindWs, OpenArchive, OpenFile, ReadOn, CloseArchive,
     CopyFile, InsertRow, CommitRow, RolledBack, KeepStages
<1>3. ~DeleteStep(r) /\ ~Cancel(r)
  BY <1>0 DEF DeleteStep, FindDoomed, MarkWs, CommitMissing, CommitMark, DeleteWs,
     CommitDelete, Cancel, Goto, Raised
<1>4. RestoreStep(r) => Unpack(r)
  BY <1>0 DEF RestoreStep, FindSnapshot, FindSource, MakeDir, InsertWs, CommitWs, Goto
<1>5. ~(\E w \in Workspaces : Edit(w)) /\ ~AllEnded /\ ~UNCHANGED vars
  BY DEF Edit, AllEnded, vars
<1>6. ~Crash
  BY <1>0 DEF Crash
<1> QED  BY <1>1, <1>2, <1>3, <1>4, <1>5, <1>6 DEF Next, TaskStep

\* Unless an archive was damaged since, what a restore hands out is what the workspace held
\* while the snapshot was taken: each half of each file as it was in one of the trees there
\* were, and nothing that an archive leaves out.
THEOREM RestoresAreFaithful == Spec => RestoredAsItWas
<1> DEFINE Inv == IndInv /\ (\A i \in Ids : Kept(i)) /\ ArchiveInv
           Step == \A r \in Restores : pc[r] # "done" /\ pc'[r] = "done" /\ "archive" \notin faults' =>
                      \A f \in Files :
                         IF f \in Skipped THEN tree'[Target[r]][f] = Absent
                         ELSE \A h \in Halves : \E t \in seen[Source[r]] :
                                 tree'[Target[r]][f][h] = t[f][h]
<1>1. Init => (\A i \in Ids : Kept(i)) /\ ArchiveInv
  BY Kinds DEF Init, Kept, ArchiveInv, OneBlocks, Blocking, RowPacked, ArchiveRight, Taken,
     RestoreStages, Tasks
<1>2. Inv /\ IndInv' /\ [Next]_vars => Inv'
  BY NextKept, NextArchive
<1>3. Inv /\ [Next]_vars => Step
  <2> SUFFICES ASSUME Inv, [Next]_vars, NEW r \in Restores, pc[r] # "done", pc'[r] = "done",
                      "archive" \notin faults', NEW f \in Files
               PROVE  IF f \in Skipped THEN tree'[Target[r]][f] = Absent
                      ELSE \A h \in Halves : \E t \in seen[Source[r]] :
                              tree'[Target[r]][f][h] = t[f][h]
    OBVIOUS
  <2>1. TypeOK /\ Unpack(r) /\ Source[r] \in Snapshots /\ r \in Tasks /\ Target[r] \in Workspaces
    BY OnlyUnpackCompletes, Kinds DEF IndInv
  <2>2. stored[Source[r]] # Nothing /\ tree' = [tree EXCEPT ![Target[r]] = stored[Source[r]]]
    BY <2>1 DEF Unpack, UnpackFailed, Goto, TreeIs, TypeOK, Fault
  <2>3. tree'[Target[r]] = stored[Source[r]]
    BY <2>1, <2>2 DEF TypeOK
  <2>4. Source[r] \in packed
    BY <2>1 DEF ArchiveInv, Taken, Unpack, RestoreStages
  <2>5. Faithful(Source[r], f)
    BY <2>1, <2>2, <2>4 DEF ArchiveInv, ArchiveRight
  <2> QED  BY <2>3, <2>5 DEF Faithful
<1> HIDE DEF Inv, Step
<1>4. Spec => []Inv
  <2>1. Init /\ IndInv => Inv
    BY <1>1 DEF Inv
  <2> QED  BY <1>2, <2>1, Inductive, PTL DEF Spec
<1>5. RestoredAsItWas <=> [][Step]_vars
  BY DEF RestoredAsItWas, Step
<1> QED  BY <1>3, <1>4, <1>5, PTL DEF Spec
==============================================================================

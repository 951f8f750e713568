# Forge: formal models, checks and proofs

Forge is a workspace runtime for AI agents: workspaces are directories on the host with a row
in an SQLite database, commands run in Docker containers, and the containers are shared: a
pool keeps a few of them warm and binds one to a workspace for the length of a session.
This directory holds TLA+ models of the parts of Forge where concurrency, failure and
restart make the code hard to get right and hard to test, the TLC runs that check them on
small instances, and theorems about them that TLAPS checks for every value of the constants.

Paths below are relative to `src/src/forge/` unless they start with `src/`.

| file | what it is |
|---|---|
| `LeaseService.tla` | abstract specification: what a pool promises to the callers of `session()` |
| `ContainerPool.tla` | one sub-pool of `pool/container_pool.py`, with its properties and inductive invariant |
| `ContainerPoolProofs.tla` | types, ownership and the bounds on the number of containers; the accounting of slots, the refinement of `LeaseService`, the reaper, the shutdown, and that no container is lost |
| `DockerDriver.tla`, `DockerDriverProofs.tla` | `drivers/docker_driver.py` and `pool/lease.py`, with the containers and the processes in them |
| `Database.tla`, `MetaStore.tla` | statements, commits and faults on the shared connection; the rows of workspaces and executions |
| `WorkspaceService.tla` | `create` and `delete` of `services/workspace_service.py` |
| `KeyedCommands.tla` | abstract specification: what idempotency keys promise |
| `ExecutionService.tla` | `exec` of `services/execution_service.py`, composed with the rows and the workspaces |
| `ExecutionServiceProofs.tla` | types, idempotency keys and the refinement of `KeyedCommands`; what is on disk |
| `ArchiveService.tla`, `ArchiveServiceProofs.tla` | snapshots, artifacts and restores, with the deletion of workspaces |
| `EventFeed.tla` | abstract specification: what a subscription promises |
| `EventBus.tla` | `events/bus.py`, the SSE route and the HTTP client's end of it |
| `ExecutionEvents.tla` | `ExecutionService` composed with `EventBus` |
| `EventBusProofs.tla` | the refinement of `EventFeed`, that the count of lost events is exact, and that events and rows agree |
| `FileText.tla` | lines, decoding, windows, replacement and glob of `services/files_service.py`, as operators |
| `FileTextProofs.tla` | that glob matches what its docstrings promise, and that pages make the text |
| `FilesService.tla`, `FilesServiceProofs.tla` | the operations on files, with routes, HTTP client and LangChain adapter in front |
| `Daemon.tla`, `DaemonProofs.tla` | start, service and shutdown of `forged` and of `LocalClient` |
| `MC*.tla`, `*.cfg` | small instances for TLC |
| `PROJECT.json` | components, runs, mutants, the map from definitions to source lines, findings, hazards, theorems |

`tlc -workers 2 -config PoolSafety.cfg MCPool.tla` runs a check,
`tlapm ContainerPoolProofs.tla` a proof.

## 1. Inventory

Everything runs in one asyncio event loop. Tasks interleave only at an `await`; what is hard
here is what a task assumes across one.

**Container pool** (`pool/container_pool.py`, `pool/lease.py`).
*State*: per image a `_SubPool`: the queue `idle`, the set `in_use` (leased containers, and
placeholders for containers being created), a lock, counters; `_closed`; the reaper task.
*Operations*: `start` (warm `min_idle` containers, start the reaper), `session` (`_acquire`,
the lease, `_release`), `_reap_once` every 5 s, `shutdown`.
*Interaction*: called by the execution service; calls the driver to create, probe and destroy.
*Hard*: acquisitions, releases, health checks, warm-ups, reaper passes and `shutdown` all
await driver calls and change the same queue and set; the lock covers only some of the
steps; tasks are cancelled; containers die; the driver refuses.
*Correct when*: a container has one owner; `in_use` accounts for every session in flight;
the pool keeps to its size; the reaper leaves leased containers alone; nothing that runs is
forgotten, in particular by `shutdown`; every acquisition is answered.

**Runtime driver and lease** (`drivers/base.py`, `drivers/docker_driver.py`, `pool/lease.py`).
*State*: none of its own; the containers are Docker's. In each of them one link, `/workspace`, which the
wrapper script `forge-run` points at the workspace of the command it is about to start; a lease has
its flag `_closed`. *Operations*: `create_environment` (image, start, installation of `forge-run`, rollback),
`destroy_environment`, `health_check`, `exec_in_environment`, `stream_exec_in_environment`; the lease's
`exec` and `stream_exec`, which fill in the session's defaults.
*Hard*: a timeout stops the reading of the output, not the process; the streamed variant has a
deadline per read; a generator runs when it is iterated, not when it is made; the link is one per container.
*Correct when*: what a command did and how it ended is told apart from
what the infrastructure did; a leased container runs nothing of an earlier lease.

**Execution service** (`services/execution_service.py`).
*State*: a row per execution (`queued`, `running`, then a terminal status) and, for truncated
output, an overflow log in the workspace's tree. *Operations*: `exec`, `get`, `list`.
*Interaction*: workspace service (look up), metastore, pool (a session), event bus (publish).
*Hard*: retries with an idempotency key racing the first request; the workspace deleted
under a running command; crash, cancellation or a failed write between the insertion of the
row and its last update. *Correct when*: a key runs at most once; all its answers agree; what
ran is on record; the reported status is on disk; a status only moves forward.

**Workspace service** (`services/workspace_service.py`, `storage/workspace_store.py`).
*State*: a row and a directory per workspace. *Operations*: `create` (directory, then row, the
directory rolled back if the row fails), `delete` (row marked `deleting`, tree, row), `get`,
`list`. *Hard*: two stores, several awaits, failure of each step. *Correct when*: a `ready` row
has its directory; a successful create or delete is on disk.

**Metadata store** (`storage/meta_store.py`, `storage/migrations.py`).
*State*: one SQLite file behind one shared `aiosqlite` connection: workspaces, executions,
snapshots, artifacts, scope bindings, pool events (which nothing writes). *Operations*: one
method per statement; each write is a statement and a `commit`, two awaits.
*Hard*: because the connection is shared, a task sees the uncommitted writes of others, its
commit saves them too, and a failing commit may take them back. *Correct when*: the
constraints (primary keys, the unique index on `(workspace_id, idempotency_key)`, foreign keys with
cascade) protect what the services assume.

**Snapshot service and store** (`services/snapshot_service.py`, `storage/snapshot_store.py`),
**artifact service and store** (`services/artifact_service.py`, `storage/artifact_store.py`).
*State*: an archive or an exported file, and a row. *Operations*: create or export (file first,
then the row, the file removed if the row fails), restore (a new workspace, emptied and
unpacked into). *Hard*: the same two-store pattern; a half-finished restore leaves a `ready`
workspace; rows cascade with the workspace and the files stay. *Correct when*: a row has its
file; a restored workspace is whole or gone.

**Event bus** (`events/bus.py`, the SSE route in `server/app.py`, the streams of the clients).
*State*: a bounded queue per subscriber with a `lost` counter; per remote stream what is on its way.
*Operations*: `publish` (never waits), `subscribe` (registered at the first iteration, removed when the
iterator is closed). *Interaction*: only `exec` publishes, after each of its commits; creating and deleting a workspace announces nothing.
*Hard*: a full queue drops; a subscriber's end is noticed late; an event is published although the call it
announces then fails. *Correct when*: a subscriber gets a subsequence of the matching events, in order;
what is missing is counted; events and committed rows tell one story.

**Files service** (`services/files_service.py`, with the routes, `client/http_client.py` and `langchain/sandbox.py` in
front of it). No state but the trees. *Operations*: `read`, `write`, `edit`, `ls`, `glob`, `grep`, `delete`, `upload`,
`download`, each a synchronous call on the event loop; the adapter transfers a batch of files by a call for each.
*Hard*: commands in the containers change the tree, and put links into it, between the
checks of an operation and its effect; other clients' calls come between the files of a batch, which may stop in the
middle; windows, counts, newlines, the pattern translation. *Correct when*: every path stays in its workspace and out of `.forge`;
an operation changes what it names and nothing else; outcomes, windows and counts agree with the files.

**Daemon, server, clients, command line** (`daemon.py`, `server/`, `config.py`, `client/`, `cli.py`).
*State*: the wiring of one process: the open database, the pool, the calls and streams in flight.
*Operations*: `start` (connect, migrate, warm up), requests, `shutdown` (drain, pool, database); `LocalClient` does the
same inside a caller's process. The rest translates and keeps no state that outlives a call.
*Hard*: a start that fails or is cancelled half-way and is tried again; streams that never end by themselves
during a shutdown. *Correct when*: what has gone down holds nothing open; a process told to stop goes down.

`PROJECT.json` lists the hazards at their lines, with the properties that cover each of them.

## 2. The container pool

### State and actions

| model | code |
|---|---|
| `idle`, `inUse` | `_SubPool.idle`, `_SubPool.in_use`; a client's placeholder is the client itself |
| `cpc`, `cenv` | where a task stands in `session`/`_acquire`/`_release`, and its container |
| `rpc`, `aged`, `survivors`, `dead`, `warmLeft` | where the reaper stands, and its local lists |
| `hpc`, `victims` | where `shutdown()` stands, and what it is about to destroy; `_closed` is `hpc # "open"` |
| `startLeft` | what `start()` still has to warm up |
| `live`, `faults` | the containers Docker runs; the faults that have happened |

An action is the code between two awaits. `BeginSession`, `LeaseIdle`, `StartCreate`,
`CreateOk`/`CreateFail`, `HealthCheck`, `CountLease`, `Discard`, `Disposed`, `Enqueue`, `Wake` and
`Timeout` are `_acquire`; `EndSession` closes the lease; `ReleaseCheck`, `Return`, `Retire` and
`Retired` are `_release`; `Cancel` is a cancellation at any await of them. `StartWarm*` and
`ReaperWarm*` are `_warm`; `Reap`, `AgedOut` and `Culled` are `_reap_once` (drain, sort, split, put
back; then one destruction per step); `ShutdownBegin`, `ReaperCancelled`, `DrainNext`, `DrainEnd`,
`ShutdownDestroyed` and `KillEnd` are `shutdown`. A driver call takes effect in the step that
resumes its caller. The lock is held across an await in one place, the creation in `_acquire`,
so it is modelled by `LockFree`: no client is creating.

### Abstractions

- One sub-pool. Sub-pools of other images share nothing with it but the reaper task, whose
  passes over them take time and nothing else.
- Ages. Entries carry no `idle_since`; a pass may order them in any way and find any number of
  the youngest within the TTL. That is every outcome the clock can produce, and more.
- A few interleavings more than asyncio has: an uncontended lock does not really suspend
  its caller, and here every acquisition of the lock is a step of its own. What holds here
  holds there; each violation below was compared with the code by hand.
- Container names are reused only when nothing refers to them, so a name stands for
  as many containers as a behaviour needs.
- `stats()`, `PoolConfig` validation and logging are left out. `min_idle <= max_size` is assumed;
  the code does not check it.
- Requests arrive after `start()` has returned, as the application's lifespan imposes.
  `Init` also covers a pool that is used without `start()`, as the tests do.

### Fairness (only for `pool_liveness`)

The event loop runs a ready task and the driver answers its calls (weak fairness of a client's
steps, of warm-ups, of `shutdown`); the reaper's timer fires (weak fairness of `ReaperStep`); the body
of a session ends. Two assumptions are strong: `asyncio.Lock` is FIFO, so a task that wants it
is not overtaken for ever although it is taken again and again (`NeedsLock`); and the deadline
of an acquisition is absolute, so a task that is woken and beaten to the container again and
again still times out (`Timeout`). Nothing is assumed of callers: no session has to begin and
`shutdown` need not be called.

### Runs

| run | instance | shows |
|---|---|---|
| `pool_safety` | 3 clients (1 cancellable), 4 containers, `min_idle` 1, `max_size` 2, one of: a crash, a refused creation, a refused destruction; about 1 360 000 states | types; `SlotsAccounted`, `TotalBounded`, `StrictBound`, `OneOwner`, `ReaperSparesLeased`, `ShutdownClean`, `NoContainerLost`; the pool implements `LeaseService` (`ServiceSpec`) |
| `pool_liveness` | 2 clients, 3 containers, `min_idle` = `max_size` = 1, one crash; about 87 000 states | every request is answered and every lease ends, `shutdown` completes, a quiet pool returns to `min_idle` |
| `pool_reaper_kills` | 2 clients, `min_idle` 2 | violation: the reaper destroys a leased container |

*Why these bounds.* Three clients allow one in every stage of a race (one creating with the lock,
one releasing, one waiting); four containers leave at least one fresh name whenever the code
can create, with `max_size` 2 and one warm-up beyond it. `min_idle` 1 is the default; with `min_idle` 2, the least value at which
a pass keeps an entry while it destroys another, the instance is left to the proofs, which cover it, and to
`pool_reaper_kills`. One fault of a kind suffices
to start each error path. Symmetry is used for
safety only, over containers and over the clients that are never cancelled.

### What the code does otherwise than it says

1. *More than `max_size`.* `_warm` reads the total once, without the lock, and leaves no placeholder while it
   creates. An acquisition meanwhile sees room and creates as well. The excess is at most
   `min_idle`, which is what `TotalBounded` states and is proved.
2. *The reaper can destroy a leased container.* For each kept entry past its TTL it pops the head of the
   queue, whatever it is, and then awaits the destruction of the aged one. With
   `min_idle` 2 the entry still in the queue meanwhile is the one being destroyed, or the next
   one to be, and a client can lease it.
3. *The reaper forgets containers.* After those awaits it empties the queue and refills it with
   the survivors; a container released meanwhile is dropped and runs on. `min_idle` 1 suffices.
4. *`shutdown` leaks.* It cancels the reaper; what the reaper had set aside to destroy, or was creating,
   is in no structure `shutdown` walks.

Point 2 is the run `pool_reaper_kills`. The others are listed in `PROJECT.json` with the properties that state what the
documents say (`CountWithinMaxSize`, `NothingDropped`, `ShutdownDestroysAll` in `ContainerPool`); adding one of them to a cfg
with two clients shows the trace.

With `min_idle` 3 point 2 goes further: a surviving entry can be leased during the destruction of an
aged one and be put back into the queue all the same, so two clients can hold it. `OneOwner`
and what rests on it therefore carry the hypothesis `min_idle <= 2` (`Tame`), which the
default (1) and the quickstart (2) satisfy.

## 3. Executions, workspaces and the metastore

### State and actions

| model | code |
|---|---|
| `db`, `disk` | the rows as a statement on the shared connection sees them, and as committed |
| `dirs` | the workspaces that have a directory |
| `pc`, `outcome` | where each call stands; the status an `exec` is about to write |
| `ran`, `answer` | history: the commands that were started; what each `exec` returned |
| `faults` | the kinds of faults that have happened |

`Database` says how statements and commits end on the one connection, whatever the rows are: `Write`, `WriteFails`,
`Commit`, `CommitFails`, and `Reopened` after a crash. `MetaStore` holds the effect of each statement (`WsInserted`, `WsMarked`, `WsDeleted` with its cascade,
`ExInserted`, `ExUpdated`), and the constraints (`KeyFree` is the unique index, `HasWs` in `InsertEx` the
foreign key).
`WorkspaceService` has one action per stretch between two awaits of `create` (`MakeDir`, `InsertWs`,
`CommitWs`) and `delete` (`FindDoomed`, `MarkWs`, `CommitMark` with the removal of the tree, `DeleteWs`,
`CommitDelete`). `ExecutionService` has `exec`: `FindWs`, `Lookup`, `InsertEx`, `CommitInsert`, `Start`,
`CommitStart`, `Session`, `Executed`, `Finish`, `CommitFinish`, and `Fail`, `CommitFail` for the exception
path. `Cancel` stops a task at any await; the statement or commit it was waiting for may still
be carried out by the database's thread. `Crash` is the death of the process and its restart: the
rows are the committed ones, directories stay, calls are lost. Nothing in the code looks at
what was left over.

### Abstractions

- A row is identified with the call that inserts it, since ids are fresh UUIDs. Of the columns of
  an execution the status is kept; its workspace and key are those of the call.
- A failed commit (disk full, I/O error) may or may not roll the open transaction back; SQLite
  documents both.
- The pool and the driver are seen from outside: a session is granted or raises, a command ends with an
  exit code or raises. `ContainerPool` and `LeaseService` say how. In a workspace without a
  directory `forge-run` stops before the command; that counts as not run.
- Events, environment ids, durations and output text are left out, except that a truncated output is
  written to the workspace's tree, with every parent directory.
- The exit code 124 stands for the driver's timeout, as in the code: a command that exits with
  124 by itself is recorded `timed_out` too.

### Promise

`KeyedCommands` is what a caller who retries may rely on: of the requests with one key in one workspace at most one
starts its command, none does once the key has been answered, all answers are the same, and an answer is about a
command that was started unless it says `failed`. `ExecutionService` implements it (`KeepsPromise`) with `started` as
`ran`; the run checks it and `KeepsTheirPromise` proves it.

### Runs

| run | instance | shows |
|---|---|---|
| `exec_safety` | a request, its retry and an unkeyed request with an empty command, the creation and the deletion of their workspace; three calls cancellable; any two of five kinds of fault, each once; about 1 200 000 states | `AtMostOnce`, `RunOnRecord`, `SuccessDurable`, `ReadyHasDirectory`, `StatusForward`, `KeepsPromise` |

*Why these bounds.* The properties relate two calls with one key, or a call and its workspace: two
keyed calls, one unkeyed bystander whose commits save and roll back the others' writes, one
creation and one deletion make every pair meet, on one workspace (calls on different
workspaces meet only in the transaction, which the bystander already shares). Two faults
cover a failure during the handling of another, and a crash after a failure. No fairness is
assumed: these are safety properties.

### What the code does otherwise than it says

5. *A retry of a request in flight fails.* The data-model document says that once the row is visible a
   second request returns the cached row. `exec` returns it only when it is terminal; before that it
   inserts, meets the unique index, and `IntegrityError` reaches the caller. (The command does not run
   twice: that is `AtMostOnce`, proved.)
6. *A deleted workspace's directory comes back.* `delete` does not look for commands in flight, and the
   overflow log of a command that ends later is written with `mkdir(parents=True)`.

The properties are `RetryGetsCached` and `DeletedIsGone` in `ExecutionService`. The module docstring of `services/workspace_service.py`
(lines 7-10) is older than its code: it has the row written before the directory and a row marked `failed`; `create`
makes the directory first and removes it when the row fails.

Known limits the model shows and no document denies, so they are not runs: an empty command, or a file-system error
while the overflow log is written, leaves the row `running` for ever and the key with it; a
cancelled `create` leaves its directory (only `Exception` is caught); a key that was looked up
between another task's last UPDATE and its commit is answered with a status that a crash can take
back (all answers still agree, by `KeepsPromise`); the commit failure of one task can
lose a write of another that was reported as done, which is why `SuccessDurable` and
`ReadyHasDirectory` exclude a failed commit; an infrastructure failure is stored as `failed`,
so that a retry gets exit code -1 from the cache instead of a second attempt. (That the row stays `running` and nothing else
leaves it so is `RowsSettled` of section 8.)

## 4. Snapshots, artifacts and restores

### State and actions

| model | code |
|---|---|
| `db`, `disk` | workspaces' status and whether a snapshot or an artifact has its row, visible and committed |
| `tree`, `stored` | the trees of the workspaces; the archive of a snapshot, the copy of an artifact |
| `left`, `reading` | the files the archive in progress has still to take, and the one that is half copied |
| `pc`, `faults` | where each call stands; the kinds of faults so far |
| `packed`, `seen`, `edits` | history: complete files, the trees there were while a snapshot was taken, how often commands have written |

`FindWs`, `OpenArchive`, `OpenFile`, `ReadOn`, `CloseArchive`, `InsertRow`, `CommitRow` are `SnapshotService.create` with
`SnapshotStore.create`; `FindWs`, `CopyFile`, `InsertRow`, `CommitRow` are `ArtifactService.export`; `FindSnapshot` to
`Unpack`, with `UnpackFailed`'s cleanup, are `restore`. The deletion of a workspace is the one of
`WorkspaceService`, with the cascade to the rows of snapshots and artifacts. `Edit` is what agents and commands do
to a tree at any time. `Cancel` and `Crash` are those of section 3.

An archive is written file by file, and a file in two halves (`Halves`), with a step for each: what comes second may be of the file that was
opened or of what a command has made of it, so a file may be stored torn; one that has become shorter is an error. All this
blocks the event loop, so no other call moves (`Free`), but the commands in the containers go on, and so may a crash come in between.
A failure to look at the finished archive or copy (`stat`) raises and leaves it; the rollback of a row that could not be written may itself
fail to remove the file. An archive may be damaged later, which `restore` notices or does not (the fault `archive`).
`export` copies its one file in one step: no property is about what is in the copy.
Compression, tar headers and file modes are left out; a half of a file is what is in it (`Versions`), or nothing.

### Runs

| run | instance | shows |
|---|---|---|
| `archive_safety` | a snapshot, an export, a restore of the snapshot, a deletion of either workspace, a file and a log that is skipped, one edit, two calls cancellable, one of five kinds of fault; about 5 760 000 states | `RowHasFile`, `RestoredAsItWas`, `FailedRestoreCleaned`, `NoStrayFile`, `ReportedDurable` |
| `archive_orphan` | the same without faults | violation: a file removed by a command makes the snapshot fail and leaves the archive |

*Why these bounds.* Every pair of services meets in one workspace; one edit is enough to fall before, between or after
the halves of a file (with more files, of which the proofs have any number, the states get too many); a restore reads what one snapshot wrote. `RowHasFile` and `ReportedDurable` exclude a failed commit
(`CommitNeverFailed`), `NoStrayFile` a failing file operation and a crash. SQLite may have kept the transaction of a failed commit, and then another task's commit saves a row whose file
the rollback has removed.

### What the code does otherwise than it says

7. *A failed snapshot leaves its archive.* `SnapshotStore.create` raises in the middle of the tar file, before the
   `try` block whose comment promises not to leak files (`archive_orphan`).
8. *A snapshot is not a point in time.* Files are read one after the other, and each piece by piece, while commands write (`PointInTime`).
   What holds is `RestoredAsItWas`: each half of each file is as it was at some moment of the snapshot.
9. *A restore that crashes, or fails to empty the directory, leaves a ready, half-filled workspace* (`HalfRestoredIsCleaned`).
18. *A snapshot does not outlive its workspace.* `src/docs/architecture/data-model.md` has `ON DELETE SET NULL` for snapshots and artifacts,
    the migrations have `ON DELETE CASCADE`: the rows go and the files stay (`RowOutlivesWorkspace`).

## 5. The files service

`FileText` holds the pure functions: the lines of a text and the window of `read`, decoding with replacement, the universal newlines
of `read_text`, `str.count` and `str.replace`, and the translation of a glob into
a regular expression (`RegexItems`: characters, `.*` and `(?:.*/)?`) with the matching of these (`FullMatch`), which goes back
from the end of the path. `MCFileText` types every pattern and path within the bounds and compares `glob` with what its
docstrings say (`Meant`): a pattern stands for the patterns in which each `**` but the last is gone or some components
(`Expansions`), and a star of those takes any text, from the front of the path on (`Fn`). It also puts pages together.

`FilesService` has one call at a time (`call`): the routes and `LocalClient` call the service synchronously on the event loop. But nothing
locks the tree, and commands write to it meanwhile (`Command`), so an operation has a step for its checks and others for what it does
with their result, for each of its files. A batch of the adapter (`batch`) is a call for each file, and over HTTP calls of other clients
come in between; its outcomes are collected as `aupload_files` does it, and an error it does not catch loses them. A call that raises has no other
outcome: `upload_files` loses what it has written so far.

Trees map locations to nothing, a directory, or a file with its characters; every character knows where it comes from
(`Origin`), which is how `Isolated` can say that none crosses a border. Locations are at most two names deep, as are the places the calls write.
Paths are resolved as `_resolve` does, `..`, absolute paths and links included. `link` says where the link at a location leads. A command makes
one, to any of `Targets`, or puts it in the place of a file or an empty directory; the initial trees have some. `Path.resolve` follows them at the
checks (`Resolve`), the operating system follows them again at the effect (`Led`, `Here`), and `os.walk` yields them without
following them (`Walked`). No link leads to or through another link, and none has a target deeper than one name in a workspace: one link
suffices to lead out. What follows a link that was not checked, because it has come since (`Diverted`) or because `grep` checks none
(`Strays`), is remembered in `crossed`.

`read` decodes with replacement; `edit` does not, so other encodings raise, and translates CR LF and CR to LF, so every line end of the file changes
with an edit. A write empties the file first, and an error leaves a part of the new text (`BreaksOff`).

Left out: the bounds on the matches of `glob` and `grep`, the pattern of `grep` (every line matches), files `grep` cannot read, and a command that
writes while one `read_bytes` is under way: a file is read in one step.

`FilesAssumption` says three things of an instance that are no restriction of the code: the locations are as deep as what is written; characters carry the
origin of those who have them at first, so what a request sends for a workspace is that workspace's, and so is what its directory holds
but for `.forge`; and what marks line ends, NUL, broken bytes and replacement is anyone's.

| run | instance | shows |
|---|---|---|
| `file_text` | patterns of up to 5 and paths of up to 4 characters over `a`, `b`, `*`, `/`, `.`; about 543 000 states | `GlobAgrees`, `PagesCover` |
| `files_safety` | a call out of 65 requests, a batch out of 5, one edit by a command, from a tree without and one with links, with an operation refused or broken off at any place; about 1 570 000 states | `Isolated`, `PutAccounted`, `Confined`, `OnlyLateLinks`, `EditExact` |

*Why these bounds.* A pattern of five characters holds `**` at either end, twice, and between a slash and a component; `a/**/b`, with `**` between
two components, has six and is left to the proof, which has every pattern. A transfer of two files has one before and one after any
failure; a call before, between or after the files of a batch sees what they left; one edit falls into the windows
between a check and an effect, or between two files, and is a write, a removal, a directory or a link.

10. *Batches do not always succeed in part.* `IsADirectoryError` and its like, and over HTTP a plain `ForgeError`, are not caught per file (`PartialSuccess`).
11. *`glob` does not find dot names.* `lstrip("./")` strips every leading dot (`DotNamesFound`).
19. *`grep` reads through links.* The comment of `_walk` says that each path is resolved before it is read; `grep` reads the path as it was walked
    (`LinksCaught`). `Isolated` therefore leaves out what such a search returns.

A link that is put in the place of a directory or a file between the check and the effect of an operation leads the effect elsewhere, out of the
workspace too. No document denies it, so it is no finding; `Confined` and `Isolated` exclude it, and `OnlyLateLinks` says that this is the only way: the checks
see through every link that was there when the call began.

## 6. The driver and the lease

### State and actions

| model | code |
|---|---|
| `phase`, `lease`, `open` | who holds which container: an instance of `LeaseService` |
| `boot`, `box`, `tool`, `link` | a container: how far it is, its state, whether it has `forge-run`, where `/workspace` points |
| `at`, `where`, `seen`, `buf`, `truncated`, `result` | a call of `exec` or `stream_exec`: where it stands, what it has read |
| `proc`, `cwd`, `wrote`, `shut`, `code` | its process in the container; whether it has closed its output |
| `outlived` | history: the calls whose process outlived their lease |

`EnvStep` is `create_environment` and `destroy_environment` with the rollback of each failure; `CallStep` is a call from the
lease's check of `_closed` to the result; `ProcStep` is the process: `forge-run` sets the link and changes the directory in two
steps, then the command writes, ends, or never ends. A timeout ends the reading and leaves the process.
A command's output is bytes of four kinds (`Kind`): a character of one byte, the two halves of one of two, and what is no UTF-8. The limit counts bytes, before
they are decoded; `exec` decodes what it kept at once and `stream_exec` each chunk by itself, both with a mark for what they cannot decode (`Decoded`), so
the limit, the timeout and, in streams, the border of a message cut a character to a mark. A command may close its output and go on; then Docker
knows no exit code yet, and `exec` returns -1.

| run | instance | shows |
|---|---|---|
| `driver_safety` | one container, two clients with a workspace each, one streams and one awaits, one of nine kinds of fault; about 3 820 000 states | `ResultHonest`, `OwnWhileAlone`, `HandedOutWorks`, and under fairness `ExecEnds` |
| `driver_mixes` | the same without streams and faults | violation: `OwnWorkspace` |

*Why these bounds.* Interference needs two leases of one container, so a second container adds nothing; three bytes, a character of one and one of two,
with a limit of two reach truncation in the middle of a character. *Fairness*: Docker answers `create exec`, the end of the stream and the inspection, and a timer that is set goes off.
Nothing is assumed of commands, and nothing of who iterates a stream.

12. *A command that timed out goes on in the next lease* (`driver_mixes`): it sees the other workspace as `/workspace`, or turns the link.
13. *A stream made within a lease can start its command after it* (`StartsWithinLease`).

## 7. Events

`EventFeed` is the promise: a subscription hands out matching events published since it began, each once, in order; any may be missing.
`EventBus` has `publish` (`Publish`), the iterator (`Subscribe`, `Register`, `Take`, `Leave`, `Unsubscribe`) and, for remote
subscribers, a bounded connection and the client's reading (`Receive`, `FallSilent`). It implements `EventFeed` with "how far a subscriber is"
as the last event it received (`KeepsOrder`). `ExecutionEvents` composes it with `ExecutionService`: each of its three commits is
followed by an event without an await in between, so the event is part of the same step.

| run | instance | shows |
|---|---|---|
| `events_safety` | one exec and the deletion of its workspace, any two of five kinds of fault, a local subscriber to everything and a remote one to the ends, queues of two; about 657 000 states | `LossCounted`, `EventsMatchRows`, `KeepsOrder` |

*Why these bounds.* Three events meet queues of two, so every queue can overflow, and a subscription can begin before, between or after any two.

14. *`lost` is exposed to nobody* (the count is right: `LossCounted`). 15. *A remote subscription ends after a quiet minute* (`YieldsUntilStopped`).

## 8. The process

`Daemon` is the life of `forged` or of a `LocalClient`: `Start`, `Connect`, `Migrate`, `StartPool`, `Warm`, requests and event streams,
`Stop`, `Drained`, `PoolDown`, `CloseDb`; a start may fail or be cancelled at each of its stages, and a `LocalClient` may try again. A
request is reduced to the claim of its row, its lease, its command and its record, each of which may fail as in the code: a statement fails, the
command is empty, the overflow cannot be written, the task of a local caller is cancelled. The HTTP client gives up after 60 seconds.

| run | instance | shows |
|---|---|---|
| `daemon_safety` | either kind of process, three requests, one with an empty command and one without timeout, two streams, one of which need not be read, three starts, six kinds of fault; about 265 000 states | `DownIsClean`, `RowsSettled`, and under fairness `StopEnds` |

*Why these bounds.* The three requests have the three kinds of command, the two streams the two kinds of reader; a third start follows a failed one that followed a cancelled
one. *Fairness*: once told to stop, uvicorn and the lifespan go on; the own steps of a handler are taken; a command *with a positive timeout* ends, by the driver's
timer; a stream *that an `HTTPClient` goes on reading* meets httpx's read timeout when nothing comes. Of other commands and other readers nothing is
assumed: `StopEnds` says that a shutdown ends unless it waits for one of them, and it does wait for them as long as they last. A timeout of
zero or less means none (`models.py` has no bound), and the stream itself sends no keep-alive.

16. *A `LocalClient` can start without tables*: `connect` returns at once after a migration that failed (`ReadyMeansMigrated`).
17. *`forged` keeps its data in the working directory* when `FORGE_DATA_ROOT` is unset (`DefaultsToHome`).

Points 8 to 11 and 13 to 19 are findings in `PROJECT.json` and properties of their modules, without a run of their own; naming the property in a
cfg shows it violated. Type correctness is a conjunct of every inductive invariant; TLC checks it on the pool, and the proofs show it of
the others.

## 9. What is proved

All proofs are for every set of clients, containers, calls, keys, workspaces and faults, from the `ASSUME`s
of the modules: constants of the right kind, `MinIdle <= MaxSize`, finite sets of clients and containers
(cardinalities are counted), distinct calls creating distinct workspaces (fresh UUIDs), events that include
those of every execution.

| theorem | statement |
|---|---|
| `TypeCorrect` | `Spec => []TypeOK` for the pool |
| `Exclusive` | `OneOwner`, when `MinIdle <= 2` |
| `Bounded` | `TotalBounded`, when `MinIdle <= 2` |
| `StrictlyBounded` | `StrictBound`, without hypothesis |
| `Accounted` | `SlotsAccounted`, when `MinIdle <= 2` and nobody is cancelled |
| `Implements` | `Spec => ServiceSpec`, when `MinIdle <= 2` |
| `ReaperSpares` | `ReaperSparesLeased`, when `MinIdle <= 1` |
| `ShutsDownClean` | `ShutdownClean`, when `MinIdle <= 2` |
| `NothingLost` | `NoContainerLost`, without hypothesis |
| `ExecTypeCorrect` | `Spec => []TypeOK` for executions and workspaces |
| `RunsOnce` | `AtMostOnce` |
| `RunsRecorded` | `RunOnRecord` |
| `KeepsTheirPromise` | `Spec => KeepsPromise`: `ExecutionService` implements `KeyedCommands` |
| `StatusMovesForward` | `StatusForward` |
| `SuccessIsDurable` | `SuccessDurable` |
| `ReadyHasItsDirectory` | `ReadyHasDirectory` |
| `ArchiveTypeCorrect` | `Spec => []TypeOK` for snapshots, exports and restores |
| `RowsHaveFiles` | `RowHasFile` |
| `NoFileStrays` | `NoStrayFile`: no complete file of a call that raised, as long as files can be removed and looked at |
| `ReportsAreDurable` | `ReportedDurable` |
| `FailedRestoresAreClean` | `FailedRestoreCleaned` |
| `RestoresAreFaithful` | `RestoredAsItWas`, half file by half file |
| `ExecIsHonest` | `ResultHonest`: `exec` returns the text of the first bytes the command wrote, decoded once, and its own exit code |
| `OwnUnlessIntruded` | `OwnWhileAlone` |
| `HandedOutInOrder` | `HandedOutWorks` |
| `FeedKeepsOrder` | `EventsSpec => KeepsOrder`: the bus, composed with executions, implements `EventFeed` |
| `LossIsCounted` | `LossCounted` |
| `StoriesAgree` | `EventsMatchRows` |
| `KeepsApart` | `Isolated`, as long as no unchecked link was followed |
| `AccountsForPuts` | `PutAccounted` |
| `StaysConfined` | `Confined`, where the path leads where it led when it was checked |
| `ChecksSeeThrough` | `OnlyLateLinks` |
| `PatternsMean` | of `GlobMatch` and `Meant`: they agree on every pattern and path |
| `GlobKeepsItsWord` | `GlobAgrees` |
| `PagesMeet` | of `Window` and `Truncated`: a page and what follows it is what follows the page before |
| `PagesMakeEveryText` | `PagesCover` |
| `DaemonTypeCorrect` | `Spec => []TypeOK` for the process |
| `GoesDownClean` | `DownIsClean`: no connection, and no reaper if there was one pool at most |
| `SettlesRows` | `RowsSettled` |

*The pool.* `OneOwner` is not inductive: the reaper puts surviving entries back, so it must be known that
they are neither queued nor leased meanwhile (`SurvivorsApart`). When `MinIdle <= 2` that is so because a pass has
at most one survivor, kept entries are put back youngest first, and the first pop therefore takes it out of the queue. And a slot given back to the queue
must be the client's own (`SlotsCounted`). `CountInv` bounds the total plus the room that `start()` and the
reaper have claimed with the number they computed. `IndInv` is their conjunction with `TypeOK` and the local
facts of each stage (`StageInv`). The refinement maps a client to
"asking" from the request to the hand-out and to "holding" until its slot is given back; the one
step that needs the invariant is the hand-out, to a container nobody else holds.

*The reaper.* `ReaperSparesLeased` holds for `MinIdle <= 1` and no further: `pool_reaper_kills` breaks it with `min_idle` 2.
`SparedInv` says why: a pass that keeps one entry at most either leaves it in the queue or pops precisely that entry to destroy it, so
it never has survivors, and what it has set aside (`Pile`) is in no queue and in no client's hands.

*The shutdown.* A lease that ends during `shutdown` may put its container back into a queue that nobody
will empty again. `CloseInv` says that this does no harm: once the queue is drained, what a client still holds
or gives back (`HandsInv`) is among the `in_use` entries that `shutdown` has copied to destroy, so a container in the queue at the end
is no longer alive. `CalmInv` says that the reaper has stopped, with nothing left on its lists, before `shutdown` drains the queue.

*No container lost.* A list of the places that refer to a container (queue, slots, a client's hands, the reaper's lists,
the victims of `shutdown`) is kept complete: what a step takes out of one of them it puts into another, destroys, or forgets
in one of the ways the property names. One lemma for clients (`ClientPasses`) and one for the others (`StepPasses`) say so.

*Executions.* `AtMostOnce` says nothing about rows, so it is strengthened to `IndInv`: both versions of the rows
obey the unique index and the foreign key (`StoreInv`); every exec that has run, has marked its row, or has been returned to
somebody (`Claimed`) has its row in both of them unless its workspace is gone; the INSERT of a row that is about to be marked, or is
marked, is committed (`InsertSaved`); and a workspace still to be created has no claims (`Unborn`). Nearly every
step claims nothing and changes the rows in one of a few ways (`Calm`, `RowsChange`), so one lemma covers
them all. Two steps claim: the UPDATE to `running`, and the lookup that returns another exec's status. In both the claimed row is visible,
and two claims on one key would be two rows that the index forbids. The proof does not use when or how often a fault happens. It does use
that the INSERT is committed before the UPDATE is issued: with one transaction for both, a rollback
could free the key of a command that has started.

*The promise.* That all answers agree needs more than one claim per key: a status that was returned must stay the only one. `OutcomeInv`
says that a final status, in the visible rows or the committed ones, and every status that was returned, is the outcome its exec has
settled on, and that an exec settles only after its command. So a rollback or a crash can take a status away, but never put another one in its place. A step
of `Session` that starts the command is `Run`, a hit of `Lookup` and the commit of the final status are `Answer`; all
others stutter.

*What is on disk.* `StoryInv` adds what the stages of the calls say about the two versions of the rows. The visible status of an
execution is never behind the committed one (`StatusInv`), so a commit can only move it forward, and a failed one cannot move it at all.
No deletion gets past its first step before its workspace has a row (`DoomedLate`), so nobody recreates a row that a deletion has removed or
readies one it has marked. On these rest, as long as no commit has failed, `DirInv` (a ready row has its directory, a create about to insert has made it,
and a deletion commits a row that is not ready before the tree goes) and `DurableInv` (what a call has written stays visible until its commit, and
on disk after it). Every step either moves one call and issues at most one statement (`Moves`, `Statement`), or commits, or is a
crash, which ends every call whose write it undoes; that is why a reported success survives.

*Archives.* `RowHasFile` becomes inductive with `FileFirst`: before its INSERT an id has no row, and from the closing of its archive
on it has a complete file. The row is never visible before the file, so whatever commits it commits it late enough.

`NoStrayFile` and `ReportedDurable` follow the stages of a call: `Kept` says who still owns a file without a row, as long as no removal and no `stat` fails; `IdDurable` and
`WsDurable` say that the INSERT a call has issued stays visible until it is committed, and committed from then on, unless the
deletion of its workspace takes it (`Doomed`) or a fault has undone it. `FailedRestoreCleaned` rests on `CleanInv`: a restore that fails in
this process deletes the workspace before it ends, and no other call can bring the row back.
For `RestoredAsItWas`, `ArchiveInv` says that what an archive holds was read from the tree, half file by half file, by the one
snapshot that writes it, and does not change after its row is on record; and a restore completes by
unpacking it and in no other way.

*The driver.* The link of a container is global to it, so `OwnWhileAlone` needs a bound on who can turn it. A process
that lives belongs to a call whose client holds the container, or is in `outlived` (`LeaseInv`, `OutlivedInv`); hence in a
container where nothing outlived its lease, every process that sets or follows the link has the same client, and its workspace is
where the link points from the moment it is set (`LinkInv`). `OutputInv` says that what a call has
read is the beginning of what its process wrote, cut at the limit and no earlier; since a result is decoded once, from all that was kept, nothing need be known of
how messages cut the characters. It also says that a result carries an exit code only of a process that ended. `BootInv` says of each stage of `create_environment` what the container has by then.

*Events.* `FeedInv` says that what a subscriber has received comes before what is on the wire, and that before its queue; that all of it is
in order, asked for, and later than the beginning of the subscription. A new event is later than all of it, so it may go behind; the one that
is received next is the first of what is on the way, so the subscriber only moves forward. `LossCounted` follows by counting: a published event adds one
element to the set of asked-for events and one to the queue or to `lost`, and the other steps move an event from one place to the next.

`EventsMatchRows` is about the composition, and its proof builds on what is known of executions (`Step`). `MatchInv` says of each stage of
an exec what has been said (`Told`) and how far its visible row is (`Reached`): the row is as far as the next event will
say, or its workspace is gone and the workspace's creation long past (`Rooted`), so that it does not come back. An event goes with a commit, which puts
that row on disk; from there on `StatusMovesForward` keeps it at least as far.

*Files.* Between the checks of an operation and its effect a command may write, so nothing the checks saw of the tree can be
used, but what they saw of the path can: `GateInv` keeps that a call past its checks is about a place of its own workspace, outside `.forge`, and that every link on
the way to that place has been put there since the call began (`SeenThrough`). The second part rests on `ResolvedType`, by induction over the components of
a path: from a resolved place with no link on the way to it one component leads to another such, because a link leads to no link; `LedThere` then says that
where there is no link the operating system gets to where it is told, which is `OnlyLateLinks`.
Every operation moves the call in one of two ways (`Proceeds`, `Ends`, together `Moves`) and changes the tree
at its place, or makes directories above it (`KeepsTree`, hence `Confined`): one lemma per operation says so. `Isolated` follows with `HeldInv`, what a call
has read is of its workspace, and `BatchInv`, which ties a call to the batch it is made for; the lemmas on texts (`TextFacts`) say that decoding, lines,
windows and replacements have only characters of the texts they are made from. For `PutAccounted`, `WriteInv` says where the files before the
next one are and that the rest is as it was (`Bypassed`), and `AnswerInv` the same of an answer; a lemma each for a check, a directory
that is made, a file that is written, and an error, which may leave one cut file, keeps that so.

*Texts and patterns.* `GlobAgrees` and `PagesCover` are about recursive functions, so they need induction over data. The library's
induction theorems take an operator, which the provers cannot instantiate; but a well-founded relation has a minimal element in every *set*
(`WFMin`), and from that follow the two lemmas used everywhere: a set of numbers with 0 that goes on as far as `n` has all up
to `n` (`Upward`), and the same downwards (`Downward`). They also give the functions that a recursion defines (`StepsUp`, `StepsDown`), and
so show that each `CHOOSE` behind a recursive definition has what it looks for.

The two sides of `GlobAgrees` read a path in opposite directions. `ForthAndBack` says that a step of `Fn` forward from some places
meets others just when the step of `Before` back from those meets the first; `FnMatches` carries this along a pattern from its start to
its end. `FnItemsMatch` says that two stars in a row lead no further than one. `PieceMeans` then compares the items of one component
with what an expansion has in its place: they lead back to the same places, but for `(?:.*/)?`, which leads to those of
`.*` and a slash and also to where it started. `ItemsMean` goes through the components from the last to the first and
collects the choice of what is gone. For a pattern without `**`, which `glob` hands to `fnmatch` whole, the components with
their slashes must match what the uncut text does (`CutReads`), and for the two patterns that it never translates, the regular expression must match
everything (`TwoStarsMatch`, `AnyPathMatches`). The assumption is that no letter is itself an item (`LettersAssumption`).

`PagesMakeEveryText` is a downward induction with the step `PagesMeet`: the pages from the `k`-th on are the lines from `k * limit` on, which
the last page starts and the first page completes. An off-by-one in `Truncated` breaks the step at the last line.

*The process.* `DownIsClean` needs to know which of the wiring exists at each stage of a life (`Wired`), and `RowsSettled` that a daemon has its tables and handlers in progress only between
`ready` and the end of draining, and that only a handler in progress, or one that an error has ended, has its row `running` (`Served`).

*Only model-checked*: liveness (`ServiceAnswers`, `ShutdownCompletes`, `ScalesBack`, `ExecEnds`, `StopEnds`), which the prover cannot treat, and `EditExact`, whose `str.replace` and joined pieces
would need an induction of their own.
Every other property of a passing run is a theorem.

Every property of a passing run has a mutant in `PROJECT.json`: a plausible mistake in a mapped definition (a dropped
guard, a missing reset, the index left out, a commit skipped) under which TLC finds the property violated. Definitions
named for what they get wrong (`...Without...`, `...OffByOne`, `...OrReplace...`, `...BeforeCommit`, `...UnderExecId`, `...Unchecked`,
`...AnyDepth`, `...IgnoringErrors`, `...SkippingErrors`, `...Unfollowed`, `...EvictingOldest` and the like) serve only that purpose.

## 10. What is not modelled, and why

- The command line, the SDK's handles and the routes other than files and events: they pass on their arguments and keep no state.
- `get`, `list` and `download`: they read what the models say about rows and files.
- Regular expressions of `grep`, `?` and `[...]` in patterns of `glob`, line breaks in names, links to links, compression, file modes.
- Docker, SQLite, the file system, uvicorn and httpx: only the outcomes the code distinguishes.
- Scope bindings and `pool_events`: tables without callers.
- Time: timeouts and ages are nondeterministic choices. The documents give the reaper's interval as
  `min(idle_ttl / 4, 30)` seconds and the code uses 5; no property of the models depends on it.
- Sub-pools of several images: they share only the reaper task.

## 11. Plan

Done: everything above. What would come next, in this order:

1. Larger instances: two containers with two images for the pool, two snapshots of one workspace for the archives.

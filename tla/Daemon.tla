-------------------------------- MODULE Daemon --------------------------------
(***************************************************************************)
(* The life of a Forge process: forged (server.app under uvicorn, used by   *)
(* HTTPClients) or an embedded LocalClient.  It wires the metastore and the *)
(* pool, serves commands and event streams, and goes down.  What a command  *)
(* does to its row in detail is ExecutionService, what the pool does        *)
(* between start and shutdown is ContainerPool.                             *)
(***************************************************************************)
EXTENDS Integers

CONSTANTS
    Calls,        \* requests to execute a command
    Empty,        \* those whose command is an empty list
    Timed,        \* those with a positive timeout; zero and less mean none
    Streams,      \* subscriptions to the events, over HTTP
    Readers,      \* those of an HTTPClient that goes on reading
    MaxStarts,    \* bound: calls of start() on one LocalClient
    StartFaults,  \* what may go wrong at the start: "connect", "migrate", "cancel"
    CallFaults    \* and in a handler: "statement", "spill", "cancel"

ASSUME DaemonAssumption ==
    /\ MaxStarts \in Nat \ {0} /\ StartFaults \subseteq {"connect", "migrate", "cancel"}
    /\ Empty \subseteq Calls /\ Timed \subseteq Calls /\ Readers \subseteq Streams
    /\ CallFaults \subseteq {"statement", "spill", "cancel"}

VARIABLES
    kind,      \* "http" or "local"
    env,       \* FORGE_DATA_ROOT: "unset", "empty" or "dir"
    life,      \* where start, serving and close are
    starts,    \* how often start() was called
    db,        \* MetaStore._db: "none", "bare" (its migrations have not all run) or "migrated"
    pool,      \* the number of the pool in use, 0 before the first
    reaping,   \* the pools whose reaper task runs
    call,      \* where the handler of each request is
    row,       \* its row: "none", "queued", "running" or "final"
    stranded,  \* history: the requests whose handler an error has ended before it had recorded the end
    heard,     \* what its caller knows: "nothing", "result", "error" or "timeout"
    stream     \* "off", "on" or "gone"

wiring == <<db, pool, reaping>>
handlers == <<call, row, heard, stranded>>
vars == <<kind, env, life, starts, db, pool, reaping, call, row, heard, stranded, stream>>

\* The data root: forged turns an unset or empty FORGE_DATA_ROOT into Path(""), a value
\* that is true in Python; make_config(None) has a default of its own.
ForgedRoot == IF env = "dir" THEN "dir" ELSE "working directory"
ConfigRoot == IF env = "dir" THEN "dir" ELSE "~/.forge"
DataRoot == IF kind = "http" THEN ForgedRoot ELSE ConfigRoot

Live(s) == life = s /\ UNCHANGED <<kind, env>>
To(s) == life' = s

------------------------------------------------------------------------------
(* Start. *)

\* A start that was not completed can be tried again on a LocalClient; a daemon exits.
\* MetaStore.connect returns at once when it has a connection, whatever its migrations did.
Start ==
    /\ life \in {"new", "failed"} /\ (life = "new" \/ kind = "local")
    /\ starts < MaxStarts /\ starts' = starts + 1
    /\ To(IF db = "none" THEN "connecting" ELSE "wiring")
    /\ UNCHANGED <<kind, env, wiring, handlers, stream>>

\* An exception, or the cancellation of the task that starts a LocalClient.
Breaks(fault) == fault \in StartFaults /\ (fault = "cancel" => kind = "local") /\ To("failed")

Connect ==
    /\ Live("connecting")
    /\ \/ db' = "bare" /\ To("migrating")
       \/ (Breaks("connect") \/ Breaks("cancel")) /\ UNCHANGED db
    /\ UNCHANGED <<starts, pool, reaping, handlers, stream>>

Migrate ==
    /\ Live("migrating")
    /\ \/ db' = "migrated" /\ To("wiring")
       \/ (Breaks("migrate") \/ Breaks("cancel")) /\ UNCHANGED db
    /\ UNCHANGED <<starts, pool, reaping, handlers, stream>>

\* A new pool, and pool.start() creates the reaper task before it warms up.
StartPool ==
    /\ Live("wiring") /\ To("warming")
    /\ pool' = pool + 1 /\ reaping' = reaping \cup {pool'}
    /\ UNCHANGED <<starts, db, handlers, stream>>

\* A failure to create a container is logged; only a cancellation comes through.
Warm ==
    /\ Live("warming")
    /\ To("ready") \/ Breaks("cancel")
    /\ UNCHANGED <<starts, wiring, handlers, stream>>

------------------------------------------------------------------------------
(* Serving. *)

\* uvicorn accepts no request once it has been told to stop; a LocalClient stays wired.
Serving == IF kind = "http" THEN life = "ready"
           ELSE life \in {"ready", "poolDown", "closing", "down"}
PoolOpen == life \in {"ready", "draining"}

InProgress(c) == call[c] \in {"claim", "lease", "command", "record", "fail"}
CallTo(c, s) == call' = [call EXCEPT ![c] = s]
Hear(c, what) == heard' = IF heard[c] = "nothing" THEN [heard EXCEPT ![c] = what] ELSE heard
callFrame == UNCHANGED <<kind, env, life, starts, wiring, stream>>

Request(c) ==
    /\ call[c] = "off" /\ Serving /\ CallTo(c, "claim")
    /\ UNCHANGED <<row, heard, stranded>> /\ callFrame

RowTo(c, status) == row' = [row EXCEPT ![c] = status]

\* An exception comes out of the handler, the row as the statements so far have left it.
Raised(c) == CallTo(c, "ended") /\ Hear(c, "error") /\ stranded' = stranded \cup {c}

\* A statement needs a connection (ConfigError) and the tables (OperationalError), and may
\* fail with both.
StatementFails == db # "migrated" \/ "statement" \in CallFaults

\* The row is inserted, then set running, and only then is the command looked at: an empty
\* one raises.
Claim(c) ==
    /\ call[c] = "claim"
    /\ \/ db = "migrated" /\ RowTo(c, "running") /\ c \notin Empty /\ CallTo(c, "lease")
          /\ UNCHANGED <<heard, stranded>>
       \/ db = "migrated" /\ RowTo(c, "running") /\ c \in Empty /\ Raised(c)
       \/ StatementFails /\ Raised(c)
          /\ (UNCHANGED row \/ (db = "migrated" /\ RowTo(c, "queued")))
    /\ callFrame

\* session() raises PoolClosedError once shutdown() has begun.
Lease(c) ==
    /\ call[c] = "lease" /\ CallTo(c, IF PoolOpen THEN "command" ELSE "fail")
    /\ UNCHANGED <<row, heard, stranded>> /\ callFrame

\* By itself, by its timeout if it has one, or because shutdown() destroys its container;
\* or the driver raises an error.
CommandEnds(c) ==
    /\ call[c] = "command" /\ (CallTo(c, "record") \/ CallTo(c, "fail"))
    /\ UNCHANGED <<row, heard, stranded>> /\ callFrame

\* What the driver cut is put into a file first, outside the try: its OSError, or a failed
\* UPDATE, leaves the row as it is.
Record(c) ==
    /\ call[c] = "record"
    /\ \/ db = "migrated" /\ RowTo(c, "final") /\ CallTo(c, "ended") /\ Hear(c, "result")
          /\ UNCHANGED stranded
       \/ (StatementFails \/ "spill" \in CallFaults) /\ Raised(c) /\ UNCHANGED row
    /\ callFrame

RecordFailure(c) ==
    /\ call[c] = "fail"
    /\ \/ db = "migrated" /\ RowTo(c, "final") /\ CallTo(c, "ended") /\ Hear(c, "error")
          /\ UNCHANGED stranded
       \/ StatementFails /\ Raised(c) /\ UNCHANGED row
    /\ callFrame

\* The task of a LocalClient's caller is cancelled, which is no Exception.
Cancelled(c) ==
    /\ kind = "local" /\ "cancel" \in CallFaults /\ InProgress(c)
    /\ Raised(c) /\ UNCHANGED row /\ callFrame

\* httpx gives up after 60 seconds, half of a command's default timeout; the handler goes on.
GiveUp(c) ==
    /\ kind = "http" /\ InProgress(c) /\ heard[c] = "nothing" /\ Hear(c, "timeout")
    /\ UNCHANGED <<call, row, stranded>> /\ callFrame

OwnStep(c) == Claim(c) \/ Lease(c) \/ Record(c) \/ RecordFailure(c)
HandlerStep(c) == OwnStep(c) \/ CommandEnds(c)

Subscribe(s) ==
    /\ kind = "http" /\ life = "ready" /\ stream[s] = "off"
    /\ stream' = [stream EXCEPT ![s] = "on"]
    /\ UNCHANGED <<kind, env, life, starts, wiring, handlers>>

Leave(s) ==
    /\ stream[s] = "on" /\ stream' = [stream EXCEPT ![s] = "gone"]
    /\ UNCHANGED <<kind, env, life, starts, wiring, handlers>>

\* The 60 seconds of httpx hold for every read, so an HTTPClient that reads gives a stream up
\* when nothing comes.  Of other consumers nothing is known.
Quiet == \A c \in Calls : ~InProgress(c)
FallSilentWithoutTimeout(s) == FALSE /\ stream[s] = "on" /\ UNCHANGED vars
FallSilent(s) == s \in Readers /\ Quiet /\ Leave(s)

------------------------------------------------------------------------------
(* Going down. *)

\* SIGTERM: uvicorn waits for the responses and the handlers in progress, also of clients
\* that have left.  LocalClient.close() waits for nobody.
Stop ==
    /\ \/ kind = "http" /\ life = "ready" /\ To("draining")
       \/ kind = "local" /\ life \in {"ready", "failed"} /\ To("poolDown")
    /\ UNCHANGED <<kind, env, starts, wiring, handlers, stream>>

DrainedOfWaiting ==
    /\ Live("draining") /\ (\A c \in Calls : InProgress(c) => heard[c] = "timeout")
    /\ \A s \in Streams : stream[s] # "on"
    /\ To("poolDown")
    /\ UNCHANGED <<starts, wiring, handlers, stream>>
Drained ==
    /\ Live("draining") /\ Quiet /\ \A s \in Streams : stream[s] # "on"
    /\ To("poolDown")
    /\ UNCHANGED <<starts, wiring, handlers, stream>>

\* pool.shutdown() ends the reaper of the pool in use.
PoolDownLeavingReaper ==
    /\ Live("poolDown") /\ To("closing")
    /\ UNCHANGED <<starts, wiring, handlers, stream>>
PoolDown ==
    /\ Live("poolDown") /\ To("closing")
    /\ reaping' = reaping \ {pool}
    /\ UNCHANGED <<starts, db, pool, handlers, stream>>

CloseDb ==
    /\ Live("closing") /\ To("down") /\ db' = "none"
    /\ UNCHANGED <<starts, pool, reaping, handlers, stream>>

------------------------------------------------------------------------------
Init ==
    /\ kind \in {"http", "local"} /\ env \in {"unset", "empty", "dir"}
    /\ life = "new" /\ starts = 0 /\ db = "none" /\ pool = 0 /\ reaping = {}
    /\ call = [c \in Calls |-> "off"] /\ row = [c \in Calls |-> "none"]
    /\ heard = [c \in Calls |-> "nothing"] /\ stranded = {}
    /\ stream = [s \in Streams |-> "off"]

LifeStep == Start \/ Connect \/ Migrate \/ StartPool \/ Warm \/ Stop \/ Drained \/ PoolDown \/ CloseDb

Next ==
    \/ LifeStep
    \/ \E c \in Calls : Request(c) \/ HandlerStep(c) \/ Cancelled(c) \/ GiveUp(c)
    \/ \E s \in Streams : Subscribe(s) \/ Leave(s) \/ FallSilent(s)

Spec == Init /\ [][Next]_vars

\* Once told to stop the process goes on; a handler goes on, but for a command without a
\* timeout, which may run for ever; a stream on which nothing can come any more meets the
\* read timeout of the HTTPClient that reads it.
Fairness ==
    /\ WF_vars(Drained) /\ WF_vars(PoolDown) /\ WF_vars(CloseDb)
    /\ \A c \in Calls : WF_vars(OwnStep(c))
    /\ \A c \in Timed : WF_vars(CommandEnds(c))
    /\ \A s \in Readers : WF_vars(FallSilent(s))
FairSpec == Spec /\ Fairness

TypeOK ==
    /\ kind \in {"http", "local"} /\ env \in {"unset", "empty", "dir"}
    /\ life \in {"new", "failed", "connecting", "migrating", "wiring", "warming", "ready",
                 "draining", "poolDown", "closing", "down"}
    /\ starts \in 0..MaxStarts /\ db \in {"none", "bare", "migrated"}
    /\ pool \in 0..starts /\ reaping \subseteq 1..pool
    /\ call \in [Calls -> {"off", "claim", "lease", "command", "record", "fail", "ended"}]
    /\ row \in [Calls -> {"none", "queued", "running", "final"}] /\ stranded \subseteq Calls
    /\ heard \in [Calls -> {"nothing", "result", "error", "timeout"}]
    /\ stream \in [Streams -> {"off", "on", "gone"}]

------------------------------------------------------------------------------
\* What has gone down in good order has no connection, and no reaper that would create
\* containers again, unless start() was cancelled in its warm-up and called again.
DownIsClean == life = "down" => db = "none" /\ (pool <= 1 => reaping = {})

\* A daemon that has gone down leaves no row "running", also for commands whose callers gave
\* up, but where an error ended the handler before it had recorded the end: the command was
\* empty, the overflow could not be written, or a statement failed.
RowsSettled == life = "down" /\ kind = "http" => \A c \in Calls : row[c] = "running" => c \in stranded

\* A process that is told to stop goes down, although event streams have no end of their own
\* and callers give up on handlers: unless the daemon has a command without timeout in
\* progress then, or a stream that no HTTPClient reads.  It waits for those as long as they
\* last; a LocalClient waits for nobody.
Waitable ==
    \/ kind = "local"
    \/ /\ \A c \in Calls : InProgress(c) => c \in Timed
       /\ \A s \in Streams : stream[s] = "on" => s \in Readers
StopEnds == (life \in {"draining", "poolDown", "closing"} /\ Waitable) ~> (life = "down")

------------------------------------------------------------------------------
(* The inductive invariant behind DownIsClean and RowsSettled.                   *)

\* A start under way has its pool still to make; what has not started, or has gone down,
\* has no connection; the shutdown leaves no reaper of a first pool.
Wired ==
    /\ life \in {"connecting", "migrating", "wiring"} => pool < starts
    /\ life \in {"new", "down"} => db = "none"
    /\ life \in {"closing", "down"} => (pool <= 1 => reaping = {})

\* A daemon that serves has its tables, only a serving one has handlers in progress, and
\* only a handler in progress, or one that an error has ended, has its row "running".
Served ==
    /\ life \in {"wiring", "warming", "ready", "draining"} => db = "migrated"
    /\ life \notin {"ready", "draining"} => Quiet
    /\ \A c \in Calls : row[c] = "running" => InProgress(c) \/ c \in stranded

IndInv == TypeOK /\ Wired /\ (kind = "http" => Served)

------------------------------------------------------------------------------
(* What comments say, and the code does not do.                                  *)

\* meta_store.py:77: connect() opens the database and applies the migrations.  After one
\* that failed half-way the next one does nothing, and a LocalClient starts without tables.
ReadyMeansMigrated == life = "ready" => db = "migrated"

\* config.py:101: the data root is $FORGE_DATA_ROOT when set, or ~/.forge otherwise.
DefaultsToHome == env # "dir" => DataRoot = "~/.forge"
==============================================================================

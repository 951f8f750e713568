---------------------------- MODULE ContainerPool ----------------------------
(***************************************************************************)
(* One sub-pool of forge.pool.ContainerPool: the warm containers of one     *)
(* image, the sessions that lease them, the reaper task, the warm-up done   *)
(* by start() and shutdown().                                               *)
(*                                                                          *)
(* Everything runs on one asyncio event loop, so tasks interleave only at   *)
(* an await: a step below is the code a task runs between two awaits (or a  *)
(* part of it).  A driver call takes effect in the step that resumes its    *)
(* caller.  sp.lock is held across an await in one place, the creation of a *)
(* container by _acquire, so the lock is taken exactly while some client    *)
(* is "creating".                                                           *)
(*                                                                          *)
(* Time is abstracted: the entries of the idle queue carry no idle_since; a *)
(* reaper pass orders them in any way and lets any number of the youngest   *)
(* be within the TTL.  A waiting client may time out at any moment.         *)
(***************************************************************************)
EXTENDS Naturals, Sequences, FiniteSets, Functions

CONSTANTS
    Clients,      \* tasks that open sessions; also the placeholders they put in in_use
    Envs,         \* names of containers
    NoEnv,        \* no container
    MinIdle,      \* PoolConfig.min_idle
    MaxSize,      \* PoolConfig.max_size
    Cancellable,  \* the clients whose task may be cancelled
    FaultKinds,   \* what the driver may do wrong: "crash", "health", "create", "destroy"
    MaxFaults     \* bound: how often each of them happens in a behaviour

ASSUME PoolAssumption ==
    /\ IsFiniteSet(Clients) /\ IsFiniteSet(Envs)
    /\ Clients \cap Envs = {} /\ NoEnv \notin Clients \cup Envs
    /\ MinIdle \in Nat /\ MaxSize \in Nat \ {0} /\ MinIdle <= MaxSize
    /\ Cancellable \subseteq Clients
    /\ MaxFaults \in Nat

VARIABLES
    idle,       \* sp.idle, the queue of idle containers
    inUse,      \* sp.in_use: leased containers and placeholders of creations
    cpc,        \* where each client is in session() / _acquire / _release
    cenv,       \* the container a client works with
    live,       \* the containers Docker is running
    faults,     \* how many faults of each kind have happened
    startLeft,  \* containers start() still has to warm up
    rpc,        \* where the reaper is; "none": start() was never called
    aged,       \* kept entries past the TTL, the first one being destroyed
    survivors,  \* surviving_kept
    dead,       \* the "dead" pile, the first one being destroyed once culling
    warmLeft,   \* containers the reaper still has to warm up
    hpc,        \* where shutdown() is
    victims     \* what shutdown() has picked to destroy

vars == <<idle, inUse, cpc, cenv, live, faults, startLeft,
          rpc, aged, survivors, dead, warmLeft, hpc, victims>>
queueVars == <<idle, inUse>>
clientVars == <<cpc, cenv>>
driverVars == <<live, faults>>
reaperVars == <<rpc, aged, survivors, dead, warmLeft>>
shutdownVars == <<hpc, victims>>

Asking == {"wantLock", "creating", "checking", "counting", "discarding", "disposing", "waiting"}
Holding == {"leased", "relCheck", "returning", "retiring", "closing"}
ClientStates == {"out", "gone", "relDisposing"} \cup Asking \cup Holding
ReaperStates == {"none", "asleep", "aging", "culling", "warming", "stopped"}
ShutdownStates == {"open", "awaitReaper", "draining", "killing", "down"}

Closed == hpc # "open"
Total == Len(idle) + Cardinality(inUse)
LockFree == \A c \in Clients : cpc[c] # "creating"

\* The containers some task or structure of the pool still refers to.
Tracked == Range(idle) \cup (inUse \cap Envs) \cup Range(cenv) \cup Range(aged)
             \cup Range(survivors) \cup Range(dead) \cup victims

\* A client's slot in in_use: its placeholder while creating, then its container.
Slot(c) == IF cpc[c] = "creating" THEN c ELSE cenv[c]
HoldsSlot(c) == cpc[c] \in Holding \cup {"creating", "checking", "counting", "discarding"}

------------------------------------------------------------------------------
(* The driver, as the pool uses it. *)

Fault(kind) ==
    /\ kind \in FaultKinds /\ faults[kind] < MaxFaults
    /\ faults' = [faults EXCEPT ![kind] = @ + 1]

\* create_environment answers: a new container, under a name nobody refers to.
Created(e) == e \in Envs \ Tracked /\ live' = live \cup {e} /\ UNCHANGED faults

CreateRefused == Fault("create") /\ UNCHANGED live

\* destroy_environment ends; its exceptions are suppressed by every caller.
Destroyed(e) ==
    \/ live' = live \ {e} /\ UNCHANGED faults
    \/ e \in live /\ Fault("destroy") /\ UNCHANGED live

\* health_check answers ok: it may miss a live container, never vouch for a dead one.
Probed(e, ok) ==
    /\ \/ ok = (e \in live) /\ UNCHANGED faults
       \/ ~ok /\ e \in live /\ Fault("health")
    /\ UNCHANGED live

\* A container dies on its own (OOM, docker kill).
Crash(e) ==
    /\ e \in live /\ Fault("crash")
    /\ live' = live \ {e}
    /\ UNCHANGED <<queueVars, clientVars, startLeft, reaperVars, shutdownVars>>

------------------------------------------------------------------------------
(* session(): _acquire, the lease, _release. *)

Goto(c, pc) == cpc' = [cpc EXCEPT ![c] = pc]
GotoWith(c, pc, e) == Goto(c, pc) /\ cenv' = [cenv EXCEPT ![c] = e]

\* (The definitions named ...Without..., ...OffByOne and the like are the deliberate
\* errors a run must detect; the specification itself never uses them.)
ReserveWithoutAdd(e) == inUse' = inUse
Reserve(e) == inUse' = inUse \cup {e}

HasRoomOffByOne == Total <= MaxSize
HasRoom == Total < MaxSize

AdmitsWithoutCheck == TRUE
Admits == ~Closed

\* session() is entered; requests are served once start() is over.
BeginSession(c) ==
    /\ cpc[c] = "out" /\ Admits /\ startLeft = 0
    /\ Goto(c, "wantLock")
    /\ UNCHANGED <<queueVars, cenv, driverVars, startLeft, reaperVars, shutdownVars>>

\* Step 1: an idle container, its slot reserved before the lock is released.
LeaseIdle(c) ==
    /\ cpc[c] = "wantLock" /\ LockFree /\ idle # <<>>
    /\ idle' = Tail(idle)
    /\ Reserve(Head(idle))
    /\ GotoWith(c, "checking", Head(idle))
    /\ UNCHANGED <<driverVars, startLeft, reaperVars, shutdownVars>>

\* Step 2: nothing idle and room: create, holding the lock and a placeholder.
StartCreate(c) ==
    /\ cpc[c] = "wantLock" /\ LockFree /\ idle = <<>> /\ HasRoom
    /\ Reserve(c)
    /\ Goto(c, "creating")
    /\ UNCHANGED <<idle, cenv, driverVars, startLeft, reaperVars, shutdownVars>>

CreateOk(c, e) ==
    /\ cpc[c] = "creating" /\ Created(e)
    /\ inUse' = (inUse \ {c}) \cup {e}
    /\ GotoWith(c, "leased", e)
    /\ UNCHANGED <<idle, startLeft, reaperVars, shutdownVars>>

CreateFail(c) ==
    /\ cpc[c] = "creating" /\ CreateRefused
    /\ inUse' = inUse \ {c}
    /\ Goto(c, "out")
    /\ UNCHANGED <<idle, cenv, startLeft, reaperVars, shutdownVars>>

\* Step 3: the health check, outside the lock.
HealthCheck(c) ==
    /\ cpc[c] = "checking"
    /\ \E ok \in BOOLEAN : /\ Probed(cenv[c], ok)
                           /\ Goto(c, IF ok THEN "counting" ELSE "discarding")
    /\ UNCHANGED <<queueVars, cenv, startLeft, reaperVars, shutdownVars>>

CountLease(c) ==
    /\ cpc[c] = "counting" /\ LockFree
    /\ Goto(c, "leased")
    /\ UNCHANGED <<queueVars, cenv, driverVars, startLeft, reaperVars, shutdownVars>>

\* The slot of an unhealthy container is given up.
DiscardWithoutDisposal(c) ==
    /\ cpc[c] = "discarding" /\ LockFree
    /\ inUse' = inUse \ {cenv[c]} /\ idle' = Append(idle, cenv[c])
    /\ GotoWith(c, "wantLock", NoEnv)
    /\ UNCHANGED <<driverVars, startLeft, reaperVars, shutdownVars>>

Discard(c) ==
    /\ cpc[c] = "discarding" /\ LockFree
    /\ inUse' = inUse \ {cenv[c]}
    /\ Goto(c, "disposing")
    /\ UNCHANGED <<idle, cenv, driverVars, startLeft, reaperVars, shutdownVars>>

\* The unhealthy container is destroyed; the acquisition starts over.
Disposed(c) ==
    /\ cpc[c] = "disposing" /\ Destroyed(cenv[c])
    /\ GotoWith(c, "wantLock", NoEnv)
    /\ UNCHANGED <<queueVars, startLeft, reaperVars, shutdownVars>>

\* Step 4: at max_size with nothing idle.
Enqueue(c) ==
    /\ cpc[c] = "wantLock" /\ LockFree /\ idle = <<>> /\ ~HasRoom
    /\ Goto(c, "waiting")
    /\ UNCHANGED <<queueVars, cenv, driverVars, startLeft, reaperVars, shutdownVars>>

PushedBackWithoutPop(q) == Append(q, Head(q))
PushedBack(q) == Append(Tail(q), Head(q))

\* The queue hands the waiter an entry; it pushes it back and starts over.
Wake(c) ==
    /\ cpc[c] = "waiting" /\ idle # <<>>
    /\ idle' = PushedBack(idle)
    /\ Goto(c, "wantLock")
    /\ UNCHANGED <<inUse, cenv, driverVars, startLeft, reaperVars, shutdownVars>>

\* The deadline passes: PoolExhaustedError.
Timeout(c) ==
    /\ cpc[c] = "waiting"
    /\ Goto(c, "out")
    /\ UNCHANGED <<queueVars, cenv, driverVars, startLeft, reaperVars, shutdownVars>>

ReleasePathWithoutClosed == "relCheck"
ReleasePath == IF Closed THEN "closing" ELSE "relCheck"

\* The body of the session ends, by itself, by an exception or by a cancellation.
EndSession(c) ==
    /\ cpc[c] = "leased"
    /\ Goto(c, ReleasePath)
    /\ UNCHANGED <<queueVars, cenv, driverVars, startLeft, reaperVars, shutdownVars>>

\* _release probes the container while it still counts in in_use.
ReleaseCheck(c) ==
    /\ cpc[c] = "relCheck"
    /\ \E ok \in BOOLEAN : /\ Probed(cenv[c], ok)
                           /\ Goto(c, IF ok THEN "returning" ELSE "retiring")
    /\ UNCHANGED <<queueVars, cenv, startLeft, reaperVars, shutdownVars>>

Return(c) ==
    /\ cpc[c] = "returning" /\ LockFree
    /\ inUse' = inUse \ {cenv[c]}
    /\ idle' = Append(idle, cenv[c])
    /\ GotoWith(c, "out", NoEnv)
    /\ UNCHANGED <<driverVars, startLeft, reaperVars, shutdownVars>>

\* A dead container, or any container once the pool is closed.
Retire(c) ==
    /\ cpc[c] \in {"retiring", "closing"} /\ LockFree
    /\ inUse' = inUse \ {cenv[c]}
    /\ Goto(c, "relDisposing")
    /\ UNCHANGED <<idle, cenv, driverVars, startLeft, reaperVars, shutdownVars>>

RetiredWithoutDestroy(c) ==
    /\ cpc[c] = "relDisposing"
    /\ GotoWith(c, "out", NoEnv)
    /\ UNCHANGED <<queueVars, driverVars, startLeft, reaperVars, shutdownVars>>

Retired(c) ==
    /\ cpc[c] = "relDisposing" /\ Destroyed(cenv[c])
    /\ GotoWith(c, "out", NoEnv)
    /\ UNCHANGED <<queueVars, startLeft, reaperVars, shutdownVars>>

\* The task is cancelled at an await of _acquire or _release: no handler there
\* catches CancelledError, so in_use keeps what it had, and the driver call in
\* flight may or may not have taken effect.
Cancel(c) ==
    /\ c \in Cancellable
    /\ cpc[c] \in ClientStates \ {"out", "gone", "leased"}
    /\ \/ UNCHANGED live
       \/ cpc[c] \in {"disposing", "relDisposing"} /\ live' = live \ {cenv[c]}
       \/ cpc[c] = "creating" /\ \E e \in Envs \ Tracked : live' = live \cup {e}
    /\ GotoWith(c, "gone", NoEnv)
    /\ UNCHANGED <<queueVars, faults, startLeft, reaperVars, shutdownVars>>

ClientStep(c) ==
    \/ BeginSession(c) \/ LeaseIdle(c) \/ StartCreate(c) \/ Enqueue(c)
    \/ \E e \in Envs : CreateOk(c, e)
    \/ CreateFail(c) \/ HealthCheck(c) \/ CountLease(c)
    \/ Discard(c) \/ Disposed(c) \/ Wake(c) \/ Timeout(c)
    \/ EndSession(c) \/ ReleaseCheck(c) \/ Return(c) \/ Retire(c) \/ Retired(c)
    \/ Cancel(c)

------------------------------------------------------------------------------
(* _warm, for start() and for the reaper: no lock, no placeholder. *)

WarmNeededWithoutMax(n) == MinIdle - n
WarmNeeded(n) == IF n < MinIdle THEN MinIdle - n ELSE 0

Warmed(e) == Created(e) /\ idle' = Append(idle, e) /\ UNCHANGED inUse

StartWarmOk(e) ==
    /\ startLeft > 0 /\ Warmed(e)
    /\ startLeft' = startLeft - 1
    /\ UNCHANGED <<clientVars, reaperVars, shutdownVars>>

StartWarmFail ==
    /\ startLeft > 0 /\ CreateRefused
    /\ startLeft' = 0
    /\ UNCHANGED <<queueVars, clientVars, reaperVars, shutdownVars>>

------------------------------------------------------------------------------
(* The reaper: _reaper_loop and _reap_once. *)

KeepTargetWithoutLimit == Len(idle)
KeepTarget == IF Cardinality(inUse) < MinIdle THEN MinIdle - Cardinality(inUse) ELSE 0

Orders(q) == {[i \in DOMAIN q |-> q[p[i]]] : p \in Bijection(DOMAIN q, DOMAIN q)}

AtMost(n, m) == IF n <= m THEN n ELSE m

\* The tail of a pass, once `dead' is gone: needed is computed from total n.
TopUp(n) ==
    /\ warmLeft' = WarmNeeded(n)
    /\ rpc' = IF WarmNeeded(n) > 0 THEN "warming" ELSE "asleep"

\* The pile `gone' is destroyed one by one, then the sub-pool is topped up.
Cull(gone, n) ==
    /\ dead' = gone
    /\ IF gone = <<>> THEN TopUp(n) ELSE rpc' = "culling" /\ warmLeft' = 0

\* The queue is emptied and refilled with the surviving entries alone.
Requeue(q, gone) ==
    /\ idle' = q
    /\ aged' = <<>> /\ survivors' = <<>>
    /\ Cull(gone, Len(q) + Cardinality(inUse))

\* "Already put back -- remove it": the head of the queue is popped.
PoppedWithoutPop(q) == q
Popped(q) == IF q = <<>> THEN q ELSE Tail(q)

\* A pass up to its first await: drain, sort by age, split, put the kept entries
\* back; `young' of the drained entries are within the TTL.
Reap ==
    /\ rpc = "asleep" /\ ~Closed
    /\ \E byAge \in Orders(idle), young \in 0..Len(idle) :
          LET keep == AtMost(KeepTarget, Len(idle))
              fit  == AtMost(young, keep)
              kept == SubSeq(byAge, 1, keep)
              gone == SubSeq(byAge, keep + 1, Len(idle))
          IN  \/ fit = keep /\ Requeue(kept, gone)
              \/ /\ fit < keep
                 /\ rpc' = "aging"
                 /\ idle' = Popped(kept)
                 /\ aged' = SubSeq(kept, fit + 1, keep)
                 /\ survivors' = SubSeq(kept, 1, fit)
                 /\ dead' = gone
                 /\ warmLeft' = 0
    /\ UNCHANGED <<inUse, clientVars, driverVars, startLeft, shutdownVars>>

AgedOut ==
    /\ rpc = "aging" /\ ~Closed
    /\ Destroyed(Head(aged))
    /\ \/ /\ Len(aged) > 1
          /\ aged' = Tail(aged)
          /\ idle' = Popped(idle)
          /\ UNCHANGED <<rpc, survivors, dead, warmLeft>>
       \/ Len(aged) = 1 /\ Requeue(survivors, dead)
    /\ UNCHANGED <<inUse, clientVars, startLeft, shutdownVars>>

Culled ==
    /\ rpc = "culling" /\ ~Closed
    /\ Destroyed(Head(dead))
    /\ Cull(Tail(dead), Total)
    /\ UNCHANGED <<queueVars, clientVars, startLeft, aged, survivors, shutdownVars>>

ReaperWarmOk(e) ==
    /\ rpc = "warming" /\ ~Closed /\ Warmed(e)
    /\ warmLeft' = warmLeft - 1
    /\ rpc' = IF warmLeft > 1 THEN "warming" ELSE "asleep"
    /\ UNCHANGED <<clientVars, startLeft, aged, survivors, dead, shutdownVars>>

ReaperWarmFail ==
    /\ rpc = "warming" /\ ~Closed /\ CreateRefused
    /\ warmLeft' = 0 /\ rpc' = "asleep"
    /\ UNCHANGED <<queueVars, clientVars, startLeft, aged, survivors, dead, shutdownVars>>

ReaperStep ==
    \/ Reap \/ AgedOut \/ Culled \/ ReaperWarmFail
    \/ \E e \in Envs : ReaperWarmOk(e)

------------------------------------------------------------------------------
(* shutdown() *)

ShutdownBegin ==
    /\ hpc = "open" /\ startLeft = 0
    /\ hpc' = IF rpc = "none" THEN "draining" ELSE "awaitReaper"
    /\ UNCHANGED <<queueVars, clientVars, driverVars, startLeft, reaperVars, victims>>

\* The cancelled reaper ends where it was; its lists and its driver call go with it.
ReaperCancelled ==
    /\ hpc = "awaitReaper"
    /\ \/ UNCHANGED live
       \/ rpc = "aging" /\ live' = live \ {Head(aged)}
       \/ rpc = "culling" /\ live' = live \ {Head(dead)}
       \/ rpc = "warming" /\ \E e \in Envs \ Tracked : live' = live \cup {e}
    /\ hpc' = "draining" /\ rpc' = "stopped"
    /\ aged' = <<>> /\ survivors' = <<>> /\ dead' = <<>> /\ warmLeft' = 0
    /\ UNCHANGED <<queueVars, clientVars, faults, startLeft, victims>>

ShutdownDestroyed(e) ==
    /\ e \in victims /\ Destroyed(e)
    /\ victims' = victims \ {e}
    /\ UNCHANGED <<queueVars, clientVars, startLeft, reaperVars, hpc>>

DrainNextWithoutPop ==
    /\ hpc = "draining" /\ victims = {} /\ idle # <<>>
    /\ victims' = {Head(idle)}
    /\ UNCHANGED <<queueVars, clientVars, driverVars, startLeft, reaperVars, hpc>>

DrainNext ==
    /\ hpc = "draining" /\ victims = {} /\ idle # <<>>
    /\ victims' = {Head(idle)} /\ idle' = Tail(idle)
    /\ UNCHANGED <<inUse, clientVars, driverVars, startLeft, reaperVars, hpc>>

\* The queue is empty: everything in in_use is next (a placeholder names no container).
DrainEnd ==
    /\ hpc = "draining" /\ victims = {} /\ idle = <<>>
    /\ hpc' = "killing" /\ victims' = inUse \cap Envs
    /\ UNCHANGED <<queueVars, clientVars, driverVars, startLeft, reaperVars>>

KillEnd ==
    /\ hpc = "killing" /\ victims = {}
    /\ hpc' = "down" /\ inUse' = {}
    /\ UNCHANGED <<idle, clientVars, driverVars, startLeft, reaperVars, victims>>

ShutdownStep ==
    \/ ReaperCancelled \/ DrainNext \/ DrainEnd \/ KillEnd
    \/ \E e \in Envs : ShutdownDestroyed(e)

------------------------------------------------------------------------------
AllOut == \A c \in Clients : cpc[c] \in {"out", "gone"}

\* The pool is down and every client is through: nothing is left to happen.
Finished == hpc = "down" /\ AllOut /\ UNCHANGED vars

Init ==
    /\ idle = <<>> /\ inUse = {} /\ live = {} /\ faults = [k \in FaultKinds |-> 0]
    /\ cpc = [c \in Clients |-> "out"] /\ cenv = [c \in Clients |-> NoEnv]
    /\ \/ rpc = "none" /\ startLeft = 0            \* used without start()
       \/ rpc = "asleep" /\ startLeft = MinIdle    \* in start()
    /\ aged = <<>> /\ survivors = <<>> /\ dead = <<>> /\ warmLeft = 0
    /\ hpc = "open" /\ victims = {}

Next ==
    \/ \E c \in Clients : ClientStep(c)
    \/ \E e \in Envs : StartWarmOk(e)
    \/ StartWarmFail
    \/ ReaperStep
    \/ ShutdownBegin
    \/ ShutdownStep
    \/ \E e \in Envs : Crash(e)
    \/ Finished

Spec == Init /\ [][Next]_vars

(* Scheduling.  A ready task runs (the event loop is fair), the driver answers  *)
(* every call, a session's body ends and the reaper's timer fires: weak         *)
(* fairness.  asyncio.Lock is FIFO, so a step that needs the lock is not        *)
(* overtaken forever, although the lock is taken again and again, and the       *)
(* deadline of an acquisition is absolute, so one that waits again and again    *)
(* times out: strong fairness.                                                  *)
Runs(c) ==
    \/ \E e \in Envs : CreateOk(c, e)
    \/ CreateFail(c) \/ HealthCheck(c) \/ Disposed(c) \/ Wake(c)
    \/ EndSession(c) \/ ReleaseCheck(c) \/ Retired(c)
NeedsLock(c) ==
    \/ LeaseIdle(c) \/ StartCreate(c) \/ Enqueue(c)
    \/ CountLease(c) \/ Discard(c) \/ Return(c) \/ Retire(c)

Fairness ==
    /\ \A c \in Clients : WF_vars(Runs(c)) /\ SF_vars(NeedsLock(c)) /\ SF_vars(Timeout(c))
    /\ WF_vars(StartWarmFail \/ \E e \in Envs : StartWarmOk(e))
    /\ WF_vars(ReaperStep) /\ WF_vars(ShutdownStep)

FairSpec == Spec /\ Fairness

------------------------------------------------------------------------------
(* Properties. *)

TypeOK ==
    /\ idle \in Seq(Envs) /\ inUse \subseteq Envs \cup Clients
    /\ cpc \in [Clients -> ClientStates] /\ cenv \in [Clients -> Envs \cup {NoEnv}]
    /\ live \subseteq Envs /\ faults \in [FaultKinds -> 0..MaxFaults]
    /\ startLeft \in 0..MinIdle /\ warmLeft \in 0..MinIdle
    /\ rpc \in ReaperStates
    /\ aged \in Seq(Envs) /\ survivors \in Seq(Envs) /\ dead \in Seq(Envs)
    /\ hpc \in ShutdownStates /\ victims \subseteq Envs

NobodyGone == \A c \in Clients : cpc[c] # "gone"

\* Every container has one owner: it is in the idle queue once, or in the hands of
\* one client, never both.  _acquire moves it from the queue to in_use across a
\* health check, _release moves it back, while waiters push entries back and the
\* reaper drains and refills the queue.
OneOwner ==
    /\ IsInjective(idle)
    /\ \A c \in Clients : HoldsSlot(c) => Slot(c) \notin Range(idle)
    /\ \A c, d \in Clients : HoldsSlot(c) /\ HoldsSlot(d) /\ c # d => Slot(c) # Slot(d)

\* While the pool is open, in_use is exactly the slots of the acquisitions, leases
\* and releases in flight; only a cancelled task leaves a slot behind.
SlotsAccounted ==
    LET owned == {Slot(c) : c \in {d \in Clients : HoldsSlot(d)}}
    IN  ~Closed => /\ owned \subseteq inUse
                   /\ NobodyGone => inUse = owned

\* The pool never counts more than max_size + min_idle containers: _warm checks the
\* total once, without the lock, so what it adds comes on top of max_size.
TotalBounded == ~Closed => Total <= MaxSize + MinIdle

\* A pool without a reaper keeps to max_size: the lock and the placeholder make the
\* check and the creation of _acquire one, and a released container keeps its slot
\* during its health check.
StrictBound == rpc = "none" /\ ~Closed => Total <= MaxSize

\* What the reaper has picked to destroy is out of reach: neither in the queue nor
\* in the hands of a client, however long the destruction takes.
ReaperSparesLeased ==
    ~Closed => \A e \in Range(aged) \cup Range(dead) :
                   /\ e \notin Range(idle)
                   /\ \A c \in Clients : HoldsSlot(c) => Slot(c) # e

\* After shutdown() and the end of the last session the pool knows of no running
\* container, whatever a release or an acquisition in flight did meanwhile (a
\* destruction the driver refused leaves one).
DestroyNeverFailed == "destroy" \in FaultKinds => faults["destroy"] = 0
ShutdownClean ==
    hpc = "down" /\ AllOut /\ NobodyGone /\ DestroyNeverFailed => live \cap Tracked = {}

\* Without reaper, cancellation and driver faults no step lets go of a container
\* that Docker keeps running.
NoContainerLost ==
    [][rpc = "none" /\ faults' = faults /\ NobodyGone'
         => \A e \in live \cap live' : e \in Tracked => e \in Tracked']_vars

\* shutdown() completes.
ShutdownCompletes == (hpc # "open") ~> (hpc = "down")

\* When no session runs any more, the reaper brings the idle queue back to
\* min_idle containers and keeps refilling it to that number.
Quiet == hpc = "open" /\ rpc # "none" /\ AllOut
ScalesBack == <>[]Quiet => <>[](Len(idle) <= MinIdle) /\ []<>(Len(idle) = MinIdle)

------------------------------------------------------------------------------
(* The inductive invariant behind OneOwner, TotalBounded and StrictBound.        *)

Carrying == Holding \cup {"checking", "counting", "discarding", "disposing", "relDisposing"}

\* What each stage of a client, the reaper, start() and shutdown() relies on.
StageInv ==
    /\ \A c \in Clients : cpc[c] \in Carrying => cenv[c] \in Envs
    /\ rpc = "aging" => aged # <<>>
    /\ rpc = "culling" => dead # <<>>
    /\ rpc = "warming" => warmLeft > 0
    /\ rpc = "stopped" => Closed
    /\ rpc = "none" => startLeft = 0
    /\ hpc = "awaitReaper" => rpc # "none"
    /\ startLeft > 0 => \A c \in Clients : cpc[c] = "out"

\* The entries the reaper will put back are its own: not in the queue, not leased.
SurvivorsApart ==
    rpc = "aging" =>
        /\ IsInjective(survivors)
        /\ Range(survivors) \cap Range(idle) = {}
        /\ \A c \in Clients : HoldsSlot(c) => Slot(c) \notin Range(survivors)

SlotsCounted == ~Closed => \A c \in Clients : HoldsSlot(c) => Slot(c) \in inUse

\* With min_idle > 2 the reaper breaks the ownership of containers: a surviving entry
\* can stay in the queue while an aged one is destroyed, be leased meanwhile, and be
\* put back into the queue all the same.
Tame == MinIdle <= 2 \/ rpc = "none"

OwnerInv == Tame => OneOwner /\ SurvivorsApart /\ SlotsCounted

\* The room start() and the reaper have claimed with the `needed' they computed.
Claimed == IF rpc = "warming" THEN startLeft + warmLeft ELSE startLeft

CountInv ==
    Tame /\ ~Closed =>
        /\ Total + Claimed <= MaxSize + MinIdle
        /\ rpc = "aging" => /\ Len(survivors) < MinIdle
                            /\ Total + Claimed < MaxSize + MinIdle
        /\ rpc = "none" => Total <= MaxSize

IndInv == TypeOK /\ StageInv /\ OwnerInv /\ CountInv

------------------------------------------------------------------------------
(* What the documents and the tests of the pool say, and the code does not do.   *)

\* tests/integration/test_pool.py:95, docs pool-and-runtime-session.md:314: the
\* pool's accounting never exceeds max_size.  A warm-up counts nothing while its
\* container is created, so an acquisition can create one too.
CountWithinMaxSize == ~Closed => Total <= MaxSize

\* docs pool-and-runtime-session.md:244: "The reaper never touches in_use".  It
\* destroys kept entries that have aged out one at a time, and pops the head of the
\* queue for each: with min_idle = 2 the entry it destroys later can be leased first.
ReaperNeverTouchesInUse ==
    ~Closed => \A c \in Clients : cpc[c] = "leased" => cenv[c] \notin Range(aged) \cup Range(dead)

\* docs pool-and-runtime-session.md:328: "Pool internal accounting is always
\* correct".  A container released while an aged one is destroyed is dropped by the
\* refill of the queue: it runs on and nothing refers to it.
NothingDropped ==
    [][~Closed /\ faults' = faults
         => \A e \in live \cap live' : e \in Tracked => e \in Tracked']_vars

\* container_pool.py:122: shutdown() destroys "every managed environment".  The
\* cancelled reaper forgets the containers it had set aside to destroy.
ShutdownDestroysAll == hpc = "down" /\ AllOut => live = {}

------------------------------------------------------------------------------
(* What the pool promises to its callers: LeaseService, with a client's lease    *)
(* lasting from the hand-out of a container until its slot is given back.        *)
phase == [c \in Clients |-> IF cpc[c] \in Asking THEN "asking"
                            ELSE IF cpc[c] \in Holding THEN "holding" ELSE "idle"]
lease == [c \in Clients |-> IF cpc[c] \in Holding THEN cenv[c] ELSE NoEnv]
open  == ~Closed

Service == INSTANCE LeaseService WITH phase <- phase, lease <- lease, open <- open
ServiceSpec == Service!Spec
ServiceAnswers == Service!Answers
==============================================================================

----------------------------- MODULE DockerDriver -----------------------------
(***************************************************************************)
(* forge.drivers.docker_driver and the sessions of forge.pool.lease, with   *)
(* the containers and the processes in them.  The pool is seen from outside *)
(* (LeaseService): who holds which container.                               *)
(*                                                                          *)
(* The containers share one mount with the trees of all workspaces; the     *)
(* link /workspace, which forge-run sets before each command, says which    *)
(* one a container works on.  Images, resources, labels and the environment *)
(* of a command are left out; the bytes a process may write are numbered,   *)
(* and each is a character, begins or ends one of two bytes, or is no UTF-8.*)
(***************************************************************************)
EXTENDS Integers, FiniteSets, Sequences

CONSTANTS
    Clients,     \* callers of the pool
    Envs,        \* containers
    NoEnv,
    Workspaces,
    NoWs,
    Execs,       \* calls of session.exec and session.stream_exec
    Streams,     \* those of stream_exec
    By,          \* the client that makes a call
    Home,        \* the workspace of a client's sessions
    Timeout,     \* timeout_seconds of a call: "none" given, "zero" or "positive"
    MaxOutput,   \* max_output_bytes
    Kind,        \* of each byte a process may write: "single", "lead", "tail" or "other"
    Mark,        \* U+FFFD, in place of what is no character
    FaultKinds,  \* "pull", "start", "install", "rollback", "cancel", "crash", "destroy", "stream", "link"
    MaxFaults    \* bound: each kind happens at most once, and no more than so many kinds

ASSUME DriverAssumption ==
    /\ Streams \subseteq Execs /\ By \in [Execs -> Clients] /\ Home \in [Clients -> Workspaces]
    /\ Timeout \in [Execs -> {"none", "zero", "positive"}]
    /\ NoEnv \notin Envs /\ NoWs \notin Workspaces
    /\ MaxOutput \in Nat /\ MaxFaults \in Nat
    /\ Kind \in [Execs -> Seq({"single", "lead", "tail", "other"})]

VARIABLES
    phase, lease, open, \* LeaseService
    boot,     \* how far create_environment and destroy_environment are with a container
    box,      \* the container: "absent", "created", "running" or "exited"
    tool,     \* the containers forge-run is installed in
    link,     \* where /workspace of a container points
    at,       \* how far a call is
    where,    \* the container of a call
    proc,     \* the process of a call, "none" at first
    cwd,      \* its working directory
    wrote,    \* how many bytes it has written
    shut,     \* the calls whose process has closed its output, or was cut off from it
    code,     \* its exit code
    seen,     \* how many of its bytes have been read
    buf,      \* the bytes a call has collected, or the text it has yielded
    truncated,
    result,   \* what exec returned
    outlived, \* history: the calls whose process lived on when their lease ended
    faults

leaseVars == <<phase, lease, open>>
envVars == <<boot, box, tool>>
procVars == <<proc, cwd, wrote, shut, code, link>>
callVars == <<at, where, seen, buf, truncated, result>>
vars == <<leaseVars, envVars, procVars, callVars, outlived, faults>>

Pool == INSTANCE LeaseService WITH phase <- phase, lease <- lease, open <- open

Ws(x) == Home[By[x]]
Alive == {"asked", "entry", "linked", "running"}
NoResult == [output |-> <<>>, code |-> -2, truncated |-> FALSE]

Fault(kind) ==
    /\ kind \in FaultKinds \ faults /\ Cardinality(faults) < MaxFaults
    /\ faults' = faults \cup {kind}
NoFault == UNCHANGED faults

Killed(e) == [x \in Execs |-> IF where[x] = e /\ proc[x] \in Alive THEN "killed" ELSE proc[x]]

------------------------------------------------------------------------------
(* create_environment *)

BootTo(e, stage) == boot' = [boot EXCEPT ![e] = stage]
BoxTo(e, state) == box' = [box EXCEPT ![e] = state]
envFrame == UNCHANGED <<leaseVars, callVars, link, cwd, wrote, shut, code, outlived>>

\* The image is there, or is pulled, or cannot be.
EnsureImage(e) ==
    /\ boot[e] = "none"
    /\ \/ BootTo(e, "create") /\ NoFault
       \/ Fault("pull") /\ BootTo(e, "refused")
    /\ UNCHANGED <<box, tool, proc>> /\ envFrame

\* The container is created and started; if it does not start it stays, created.
CreateAndStart(e) ==
    /\ boot[e] = "create"
    /\ \/ BoxTo(e, "running") /\ BootTo(e, "install") /\ NoFault
       \/ Fault("start") /\ BootTo(e, "refused") /\ (UNCHANGED box \/ BoxTo(e, "created"))
    /\ UNCHANGED <<tool, proc>> /\ envFrame

InstallIgnoringErrors(e) ==
    /\ boot[e] = "install"
    /\ \/ tool' = tool \cup {e} /\ NoFault
       \/ Fault("install") /\ UNCHANGED tool
    /\ BootTo(e, "up") /\ UNCHANGED <<box, proc>> /\ envFrame

Install(e) ==
    /\ boot[e] = "install"
    /\ \/ box[e] = "running" /\ tool' = tool \cup {e} /\ BootTo(e, "up") /\ NoFault
       \/ Fault("install") /\ BootTo(e, "rollback") /\ UNCHANGED tool
    /\ UNCHANGED <<box, proc>> /\ envFrame

\* kill and delete, whose errors are suppressed.
Rollback(e) ==
    /\ boot[e] = "rollback" /\ BootTo(e, "refused")
    /\ \/ BoxTo(e, "absent") /\ NoFault
       \/ Fault("rollback") /\ UNCHANGED box
    /\ UNCHANGED <<tool, proc>> /\ envFrame

\* A cancellation is no Exception: the container stays as it is.
CreateCancelled(e) ==
    /\ boot[e] \in {"create", "install", "rollback"} /\ Fault("cancel") /\ BootTo(e, "refused")
    /\ UNCHANGED <<box, tool, proc>> /\ envFrame

------------------------------------------------------------------------------
(* destroy_environment, and containers that die *)

\* The pool destroys a container that nobody holds: it is stopped, or that fails, which
\* is suppressed.
Stop(e) ==
    /\ boot[e] = "up" /\ Pool!Free(e) /\ BootTo(e, "delete")
    /\ \/ /\ box' = [box EXCEPT ![e] = IF @ = "running" THEN "exited" ELSE @]
          /\ proc' = Killed(e) /\ NoFault
       \/ Fault("destroy") /\ UNCHANGED <<box, proc>>
    /\ UNCHANGED tool /\ envFrame

\* The deletion is forced; a container that is gone is fine, another error is raised.
Delete(e) ==
    /\ boot[e] = "delete" /\ BootTo(e, "destroyed")
    /\ \/ BoxTo(e, "absent") /\ proc' = Killed(e) /\ NoFault
       \/ Fault("destroy") /\ UNCHANGED <<box, proc>>
    /\ UNCHANGED tool /\ envFrame

Crash(e) ==
    /\ box[e] = "running" /\ Fault("crash")
    /\ BoxTo(e, "exited") /\ proc' = Killed(e)
    /\ UNCHANGED <<boot, tool>> /\ envFrame

EnvStep(e) ==
    EnsureImage(e) \/ CreateAndStart(e) \/ Install(e) \/ Rollback(e) \/ CreateCancelled(e)
    \/ Stop(e) \/ Delete(e) \/ Crash(e)

------------------------------------------------------------------------------
(* Leases.  A client that awaits an exec does not end its session meanwhile.     *)

Awaiting(c) == \E x \in Execs \ Streams : By[x] = c /\ at[x] \in {"create", "drain", "inspect"}

Lease(c) ==
    /\ \/ Pool!Request(c) \/ Pool!Refuse(c)
       \/ \E e \in Envs : boot[e] = "up" /\ Pool!Grant(c, e)
    /\ UNCHANGED <<envVars, procVars, callVars, outlived, faults>>

\* The container goes back to the pool with whatever runs in it.
End(c) ==
    /\ ~Awaiting(c) /\ Pool!End(c)
    /\ outlived' = outlived \cup {x \in Execs : By[x] = c /\ where[x] = lease[c] /\ proc[x] \in Alive}
    /\ UNCHANGED <<envVars, procVars, callVars, faults>>

------------------------------------------------------------------------------
(* The process of a call *)

Frame == UNCHANGED <<leaseVars, envVars>>
ProcTo(x, state) == proc' = [proc EXCEPT ![x] = state]
procFrame == Frame /\ UNCHANGED <<callVars, outlived>>

LinkUnlessThere(e, w) == IF link[e] = NoWs THEN w ELSE link[e]
Relinked(e, w) == w

DockerStarts(x) ==
    /\ proc[x] = "asked" /\ box[where[x]] = "running" /\ ProcTo(x, "entry")
    /\ UNCHANGED <<cwd, wrote, shut, code, link>> /\ procFrame /\ NoFault

\* forge-run: ln -sfn, whose failure is ignored, then cd /workspace.
ForgeRunLinks(x) ==
    /\ proc[x] = "entry" /\ ProcTo(x, "linked")
    /\ \/ link' = [link EXCEPT ![where[x]] = Relinked(where[x], Ws(x))] /\ NoFault
       \/ Fault("link") /\ UNCHANGED link
    /\ UNCHANGED <<cwd, wrote, shut, code>> /\ procFrame

ForgeRunEnters(x) ==
    /\ proc[x] = "linked"
    /\ IF link[where[x]] # NoWs
       THEN ProcTo(x, "running") /\ cwd' = [cwd EXCEPT ![x] = link[where[x]]] /\ UNCHANGED code
       ELSE ProcTo(x, "ended") /\ code' = [code EXCEPT ![x] = 2] /\ UNCHANGED cwd
    /\ UNCHANGED <<wrote, shut, link>> /\ procFrame /\ NoFault

\* The command writes, and ends with an exit code, which may be 124 too.
Writes(x) ==
    /\ proc[x] = "running" /\ x \notin shut /\ wrote[x] < Len(Kind[x])
    /\ wrote' = [wrote EXCEPT ![x] = @ + 1]
    /\ UNCHANGED <<proc, cwd, shut, code, link>> /\ procFrame /\ NoFault

Exits(x) ==
    /\ proc[x] = "running" /\ ProcTo(x, "ended")
    /\ \E n \in {0, 124} : code' = [code EXCEPT ![x] = n]
    /\ UNCHANGED <<cwd, wrote, shut, link>> /\ procFrame /\ NoFault

\* Its output may end before it does, which matters while somebody reads it.
ShutsUp(x) ==
    /\ proc[x] \in Alive /\ at[x] \in {"drain", "yielded"} /\ shut' = shut \cup {x}
    /\ UNCHANGED <<proc, cwd, wrote, code, link>> /\ procFrame /\ NoFault

ProcStep(x) ==
    DockerStarts(x) \/ ForgeRunLinks(x) \/ ForgeRunEnters(x) \/ Writes(x) \/ Exits(x) \/ ShutsUp(x)

------------------------------------------------------------------------------
(* session.exec and exec_in_environment, session.stream_exec and                 *)
(* stream_exec_in_environment                                                    *)

CallTo(x, stage) == at' = [at EXCEPT ![x] = stage]

\* The session's default applies where no timeout is given; zero means none at all.
LimitedWithoutDefault(x) == Timeout[x] = "positive"
Limited(x) == Timeout[x] # "zero"

\* A session that is closed raises; a stream is not started before it is iterated.
Call(x) ==
    /\ at[x] = "idle" /\ phase[By[x]] = "holding" /\ ~Awaiting(By[x])
    /\ where' = [where EXCEPT ![x] = lease[By[x]]]
    /\ CallTo(x, IF x \in Streams THEN "made" ELSE "create")
    /\ UNCHANGED <<seen, buf, truncated, result, procVars, outlived>> /\ Frame /\ NoFault

Iterate(x) ==
    /\ at[x] = "made" /\ CallTo(x, "create")
    /\ UNCHANGED <<where, seen, buf, truncated, result, procVars, outlived>> /\ Frame /\ NoFault

\* docker exec: create, which needs the container, then start, which asks for the process.
CreateExec(x) ==
    /\ at[x] = "create"
    /\ IF box[where[x]] = "running" /\ where[x] \in tool
       THEN /\ CallTo(x, "drain") /\ ProcTo(x, "asked")
            /\ outlived' = IF lease[By[x]] = where[x] THEN outlived ELSE outlived \cup {x}
       ELSE CallTo(x, "raised") /\ UNCHANGED <<proc, outlived>>
    /\ UNCHANGED <<where, seen, buf, truncated, result, cwd, wrote, shut, code, link>>
    /\ Frame /\ NoFault

\* decode("utf-8", errors="replace"): a character is known by its bytes; a byte that belongs
\* to none of those at hand, because it is no UTF-8 or its other half is not there, becomes
\* a mark.
EndsCharacter(x, bytes, i) ==
    i \in 2..Len(bytes) /\ Kind[x][bytes[i]] = "tail" /\ Kind[x][bytes[i - 1]] = "lead"
CharacterAt(x, bytes, i) ==
    CASE Kind[x][bytes[i]] = "single"    -> <<bytes[i]>>
      [] EndsCharacter(x, bytes, i + 1) -> <<bytes[i], bytes[i + 1]>>
      [] OTHER                          -> Mark
Decoded(x, bytes) ==
    LET upTo[i \in 0..Len(bytes)] ==
            IF i = 0 THEN <<>>
            ELSE IF EndsCharacter(x, bytes, i) THEN upTo[i - 1]
            ELSE Append(upTo[i - 1], CharacterAt(x, bytes, i))
    IN  upTo[Len(bytes)]

Chunk(x, n) == [i \in 1..n |-> seen[x] + i]
Remaining(x) == MaxOutput - Len(buf[x])

\* _drain: a chunk is kept as far as it fits; once the limit is reached the rest is read
\* and thrown away.
KeptWithoutMark(x, n) ==
    /\ buf' = [buf EXCEPT ![x] =
                  @ \o SubSeq(Chunk(x, n), 1, IF Remaining(x) < n THEN Remaining(x) ELSE n)]
    /\ UNCHANGED truncated
Kept(x, n) ==
    IF truncated[x] THEN UNCHANGED <<buf, truncated>>
    ELSE LET room == IF Remaining(x) < n THEN Remaining(x) ELSE n
             new == buf[x] \o SubSeq(Chunk(x, n), 1, room)
         IN  /\ buf' = [buf EXCEPT ![x] = new]
             /\ truncated' = [truncated EXCEPT ![x] = Len(new) >= MaxOutput]

\* One message, of any size: kept by exec, decoded and yielded by stream_exec.
Read(x) ==
    /\ at[x] = "drain"
    /\ \E n \in 1..(wrote[x] - seen[x]) :
          /\ seen' = [seen EXCEPT ![x] = @ + n]
          /\ IF x \in Streams
             THEN /\ buf' = [buf EXCEPT ![x] = @ \o Decoded(x, Chunk(x, n))] /\ UNCHANGED truncated
                  /\ CallTo(x, "yielded")
             ELSE Kept(x, n) /\ UNCHANGED at
    /\ UNCHANGED <<where, result, procVars, outlived>> /\ Frame /\ NoFault

Resume(x) ==
    /\ at[x] = "yielded" /\ CallTo(x, "drain")
    /\ UNCHANGED <<where, seen, buf, truncated, result, procVars, outlived>> /\ Frame /\ NoFault

Return(x, exit) ==
    /\ result' = [result EXCEPT ![x] = [output |-> Decoded(x, buf[x]), code |-> exit,
                                     truncated |-> truncated[x]]]
    /\ CallTo(x, "done")

\* The stream ends when the process has, or its output; stream_exec asks for no exit code.
EndOfStream(x) ==
    /\ at[x] = "drain" /\ seen[x] = wrote[x] /\ (proc[x] \in {"ended", "killed"} \/ x \in shut)
    /\ CallTo(x, IF x \in Streams THEN "done" ELSE "inspect")
    /\ UNCHANGED <<where, seen, buf, truncated, result, procVars, outlived>> /\ Frame /\ NoFault

\* Docker knows no exit code, or none yet, of a process that is not over; -1 stands for it.
ExitCode(x) ==
    {-1} \cup (CASE proc[x] = "ended"  -> {code[x]}
                 [] proc[x] = "killed" -> {137}
                 [] OTHER              -> {})

Inspect(x) ==
    /\ at[x] = "inspect"
    /\ \/ \E n \in ExitCode(x) : Return(x, n) /\ NoFault
       \/ Fault("stream") /\ Return(x, -1)
    /\ UNCHANGED <<where, seen, buf, truncated, procVars, outlived>> /\ Frame

\* The reading is cancelled, the process is not; one that docker has not started yet may
\* still be.
TimesOut(x) ==
    /\ at[x] = "drain" /\ Limited(x)
    /\ IF x \in Streams THEN CallTo(x, "raised") /\ UNCHANGED result ELSE Return(x, 124)
    /\ \/ UNCHANGED proc
       \/ proc[x] = "asked" /\ ProcTo(x, "none")
    /\ UNCHANGED <<where, seen, buf, truncated, cwd, wrote, shut, code, link, outlived>>
    /\ Frame /\ NoFault

\* The stream breaks, or the task is cancelled; the process goes on here too.
Breaks(x) ==
    /\ at[x] \in {"create", "drain", "inspect", "yielded"} /\ Fault("stream") /\ CallTo(x, "raised")
    /\ UNCHANGED <<where, seen, buf, truncated, result, procVars, outlived>> /\ Frame

CallStep(x) ==
    Call(x) \/ Iterate(x) \/ CreateExec(x) \/ Read(x) \/ Resume(x) \/ EndOfStream(x) \/ Inspect(x)
    \/ TimesOut(x) \/ Breaks(x)

------------------------------------------------------------------------------
Init ==
    /\ Pool!Init
    /\ boot = [e \in Envs |-> "none"] /\ box = [e \in Envs |-> "absent"] /\ tool = {}
    /\ link = [e \in Envs |-> NoWs]
    /\ at = [x \in Execs |-> "idle"] /\ where = [x \in Execs |-> NoEnv]
    /\ proc = [x \in Execs |-> "none"] /\ cwd = [x \in Execs |-> NoWs]
    /\ wrote = [x \in Execs |-> 0] /\ shut = {} /\ code = [x \in Execs |-> -1]
    /\ seen = [x \in Execs |-> 0] /\ buf = [x \in Execs |-> <<>>]
    /\ truncated = [x \in Execs |-> FALSE] /\ result = [x \in Execs |-> NoResult]
    /\ outlived = {} /\ faults = {}

Next ==
    \/ \E e \in Envs : EnvStep(e)
    \/ \E c \in Clients : Lease(c) \/ End(c)
    \/ \E x \in Execs : CallStep(x) \/ ProcStep(x)

Spec == Init /\ [][Next]_vars

\* The event loop and docker answer; a timer that is set goes off.  Nothing is assumed of
\* the commands, which may run forever, and nothing of who iterates a stream.
Fairness == \A x \in Execs \ Streams :
    /\ WF_vars(CreateExec(x)) /\ WF_vars(EndOfStream(x)) /\ WF_vars(Inspect(x))
    /\ WF_vars(TimesOut(x))
FairSpec == Spec /\ Fairness

------------------------------------------------------------------------------
(* Properties. *)

\* What exec returns is what the command did: the text of the first bytes it wrote and no
\* more of them than the limit, all of them unless the result says truncated or timed out;
\* an exit code, but for the driver's own 124 and -1, only if the command is over, and if it
\* was not killed the one it ended with.  The text is decoded once, from all these bytes: of
\* UTF-8 nothing but a character that the limit or the timeout cuts in two is lost.
First(n) == [i \in 1..n |-> i]
Honest(r, x) ==
    /\ \E n \in 0..wrote[x] :
          /\ r.output = Decoded(x, First(n)) /\ n <= MaxOutput
          /\ r.truncated => n = MaxOutput
          /\ r.code # 124 /\ ~r.truncated => n = wrote[x]
    /\ r.code \notin {124, -1} => proc[x] \in {"ended", "killed"}
    /\ r.code \notin {124, 137, -1} => proc[x] = "ended" /\ code[x] = r.code
ResultHonest == \A x \in Execs \ Streams : at[x] = "done" => Honest(result[x], x)

\* While a client holds the container of a running command, the command is in the
\* workspace it is for, and /workspace means that one; unless a process that outlived
\* another lease has been in the container, or the link could not be set.
Intruded(e) == \E y \in outlived : where[y] = e
OwnWhileAlone ==
    "link" \notin faults =>
        \A x \in Execs : proc[x] = "running" /\ lease[By[x]] = where[x] /\ ~Intruded(where[x])
            => cwd[x] = Ws(x) /\ link[where[x]] = Ws(x)

\* A container that create_environment has handed out has forge-run in it, and runs until
\* it dies or is destroyed; whatever fails, and wherever the creation is cancelled.
HandedOutWorks ==
    \A e \in Envs : boot[e] = "up" => e \in tool /\ (box[e] = "running" \/ "crash" \in faults)

\* Every exec with a timeout, its own or the session's, comes to an end, whatever its
\* command and its container do.
ExecEnds ==
    \A x \in Execs \ Streams : Timeout[x] # "zero" /\ at[x] = "create" ~> at[x] \in {"done", "raised"}

------------------------------------------------------------------------------
(* What the tests and the comments say, and the code does not do.                *)

\* test_docker_driver.py: "Two workspaces sharing one container each see only their own
\* files".  A command that has timed out goes on in the container after its lease; it
\* has the next lease's workspace as /workspace, or gives the next command its own.
OwnWorkspace ==
    \A x \in Execs : proc[x] = "running" => cwd[x] = Ws(x) /\ link[where[x]] = Ws(x)

\* lease.py:21: "after the enclosing async with exits, further exec calls raise".  The
\* flag is looked at when a stream is made, not when it starts its command.
StartsWithinLease ==
    [][\A x \in Execs : proc[x] = "none" /\ proc'[x] = "asked" => lease[By[x]] = where[x]]_vars
==============================================================================

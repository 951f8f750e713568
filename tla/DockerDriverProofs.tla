-------------------------- MODULE DockerDriverProofs --------------------------
(***************************************************************************)
(* Proofs about the driver: what is handed out works, what exec returns is  *)
(* what the command did, and a command whose container nobody has intruded  *)
(* upon runs in its own workspace; for all clients, containers, calls,      *)
(* limits and faults.                                                       *)
(***************************************************************************)
EXTENDS DockerDriver, SequenceTheorems, TLAPS

USE DriverAssumption

------------------------------------------------------------------------------
(* The invariant. *)

BootStages == {"none", "create", "install", "rollback", "up", "delete", "refused", "destroyed"}
BoxStates == {"absent", "created", "running", "exited"}
CallStages == {"idle", "made", "create", "drain", "yielded", "inspect", "done", "raised"}
ProcStates == Alive \cup {"none", "ended", "killed"}

\* A value for each call.
PerCall(f) == f = [x \in Execs |-> f[x]]

TypeInv ==
    /\ phase \in [Clients -> {"idle", "asking", "holding"}]
    /\ lease \in [Clients -> Envs \cup {NoEnv}]
    /\ boot \in [Envs -> BootStages] /\ box \in [Envs -> BoxStates] /\ tool \subseteq Envs
    /\ link \in [Envs -> Workspaces \cup {NoWs}] /\ cwd \in [Execs -> Workspaces \cup {NoWs}]
    /\ at \in [Execs -> CallStages] /\ where \in [Execs -> Envs \cup {NoEnv}]
    /\ proc \in [Execs -> ProcStates]
    /\ wrote \in [Execs -> Nat] /\ code \in [Execs -> Int] /\ seen \in [Execs -> Nat]
    /\ PerCall(buf) /\ (\A z \in Execs \ Streams : buf[z] \in Seq(Nat)) /\ truncated \in [Execs -> BOOLEAN]
    /\ PerCall(result)
    /\ outlived \subseteq Execs /\ shut \subseteq Execs

\* A client has a container exactly while it holds a lease, and no two have the same.
LeaseInv ==
    /\ \A c \in Clients : phase[c] = "holding" <=> lease[c] # NoEnv
    /\ \A c, d \in Clients : lease[c] = lease[d] /\ lease[c] # NoEnv => c = d

\* A call has a container once it is made, and a process once that is asked for.
StageInv ==
    \A x \in Execs :
        /\ at[x] # "idle" => where[x] \in Envs
        /\ at[x] \in {"idle", "made", "create"} =>
               proc[x] = "none" /\ wrote[x] = 0 /\ seen[x] = 0 /\ buf[x] = <<>> /\ ~truncated[x]
        /\ at[x] = "idle" => x \notin outlived

\* Numbers in their order from 1.
FirstBytes(q) == q = [i \in 1..Len(q) |-> i]

\* Nothing more comes of a process.
Over(x) == proc[x] \in {"ended", "killed"} \/ x \in shut

\* How far the output of a command is read, and what is kept of it.
Output(x) ==
    /\ FirstBytes(buf[x]) /\ Len(buf[x]) <= MaxOutput
    /\ IF truncated[x] THEN Len(buf[x]) = MaxOutput ELSE Len(buf[x]) = seen[x]
    /\ Len(buf[x]) <= seen[x] /\ seen[x] <= wrote[x]
    /\ at[x] = "inspect" => Over(x) /\ seen[x] = wrote[x]
Told(x) == at[x] = "done" => Honest(result[x], x) /\ (result[x].code # 124 => Over(x))
OutputInv == \A x \in Execs \ Streams : Output(x) /\ Told(x)

\* A process that lives although the lease of its call has ended is known to have.
OutlivedInv == \A x \in Execs : proc[x] \in Alive => lease[By[x]] = where[x] \/ x \in outlived

\* Once its forge-run has set the link, nobody else sets it while it is alone.
LinkInv ==
    "link" \notin faults =>
        \A x \in Execs :
            proc[x] \in {"linked", "running"} /\ lease[By[x]] = where[x] /\ ~Intruded(where[x])
                => /\ link[where[x]] = Ws(x)
                   /\ proc[x] = "running" => cwd[x] = Ws(x)

\* A container is up once forge-run is installed in it, which takes a running one.
BootInv ==
    \A e \in Envs :
        /\ boot[e] = "up" => e \in tool
        /\ boot[e] \in {"install", "up"} => box[e] = "running" \/ "crash" \in faults

Inv == TypeInv /\ LeaseInv /\ StageInv /\ OutputInv /\ OutlivedInv /\ LinkInv /\ BootInv

------------------------------------------------------------------------------
(* What the steps change. *)

\* The value of one call is set.
SetTo(f, g, x, v) == g = [f EXCEPT ![x] = v]

LEMMA Sets ==
    \A f, g, v : \A x \in Execs :
        PerCall(f) /\ SetTo(f, g, x, v)
        => PerCall(g) /\ g[x] = v /\ \A y \in Execs \ {x} : g[y] = f[y]
<1>. TAKE f, g, v
<1>. TAKE x \in Execs
<1>. HAVE PerCall(f) /\ SetTo(f, g, x, v)
<1>1. f = [y \in Execs |-> f[y]]
  BY DEF PerCall
<1>2. DOMAIN f = Execs
  BY <1>1
<1>3. g = [y \in Execs |-> IF y = x THEN v ELSE f[y]]
  BY <1>2 DEF SetTo
<1>4. \A y \in Execs : g[y] = IF y = x THEN v ELSE f[y]
  BY <1>3
<1>5. g = [y \in Execs |-> g[y]]
  BY <1>3, <1>4
<1>. QED  BY <1>4, <1>5 DEF PerCall

\* Initial states satisfy the invariant.
LEMMA InitInv == ASSUME Init PROVE Inv
<1>. USE DEF Init, Pool!Init
<1>1. TypeInv
  BY DEF TypeInv, PerCall, BootStages, BoxStates, CallStages, ProcStates
<1>2. LeaseInv /\ StageInv /\ OutlivedInv /\ LinkInv /\ BootInv
  BY DEF LeaseInv, StageInv, OutlivedInv, LinkInv, BootInv, Alive
<1>3. OutputInv
  <2>1. FirstBytes(<<>>) /\ Len(<<>>) = 0
    BY DEF FirstBytes
  <2>. QED  BY <2>1 DEF OutputInv, Output, Told
<1>. QED  BY <1>1, <1>2, <1>3 DEF Inv

\* What happens to the containers kills processes at most.
LEMMA EnvChanges ==
    ASSUME TypeInv, NEW e \in Envs, EnvStep(e)
    PROVE  /\ UNCHANGED <<leaseVars, callVars, link, cwd, wrote, shut, code, outlived>>
           /\ proc' \in [Execs -> ProcStates]
           /\ \A x \in Execs : proc'[x] = proc[x] \/ (proc[x] \in Alive /\ proc'[x] = "killed")
           /\ faults \subseteq faults'
<1>1. UNCHANGED <<leaseVars, callVars, link, cwd, wrote, shut, code, outlived>>
  BY DEF EnvStep, EnsureImage, CreateAndStart, Install, Rollback, CreateCancelled, Stop, Delete,
     Crash, envFrame
<1>2. proc' = proc \/ \E f \in Envs : proc' = Killed(f)
  BY DEF EnvStep, EnsureImage, CreateAndStart, Install, Rollback, CreateCancelled, Stop, Delete,
     Crash
<1>3. faults \subseteq faults'
  BY DEF EnvStep, EnsureImage, CreateAndStart, Install, Rollback, CreateCancelled, Stop, Delete,
     Crash, Fault, NoFault
<1>. QED  BY <1>1, <1>2, <1>3 DEF Killed, TypeInv, ProcStates

\* A change of the leases touches nothing else, but what it leaves behind.
LEMMA LeaseChanges ==
    ASSUME TypeInv, NEW c \in Clients, Lease(c) \/ End(c)
    PROVE  /\ UNCHANGED <<envVars, procVars, callVars, faults>>
           /\ \A d \in Clients \ {c} : phase'[d] = phase[d] /\ lease'[d] = lease[d]
           /\ phase' \in [Clients -> {"idle", "asking", "holding"}]
           /\ lease' \in [Clients -> Envs \cup {NoEnv}]
           /\ outlived \subseteq outlived'
           /\ \/ lease' = lease /\ outlived' = outlived
                 /\ phase[c] # "holding" /\ phase'[c] # "holding"
              \/ /\ phase[c] = "asking" /\ phase'[c] = "holding" /\ outlived' = outlived
                 /\ lease'[c] \in Envs /\ \A d \in Clients : lease[d] # lease'[c]
              \/ /\ phase[c] = "holding" /\ phase'[c] = "idle" /\ lease'[c] = NoEnv
                 /\ outlived' = outlived \cup {x \in Execs : By[x] = c /\ where[x] = lease[c]
                                                               /\ proc[x] \in Alive}
<1>t. /\ phase \in [Clients -> {"idle", "asking", "holding"}]
      /\ lease \in [Clients -> Envs \cup {NoEnv}]
  BY DEF TypeInv
<1>1. CASE Pool!Request(c) /\ Lease(c)
  BY <1>1, <1>t DEF Lease, Pool!Request
<1>2. CASE Pool!Refuse(c) /\ Lease(c)
  BY <1>2, <1>t DEF Lease, Pool!Refuse
<1>3. ASSUME NEW e \in Envs, Pool!Grant(c, e), UNCHANGED <<envVars, procVars, callVars, outlived, faults>>
      PROVE  /\ UNCHANGED <<envVars, procVars, callVars, faults>>
             /\ \A d \in Clients \ {c} : phase'[d] = phase[d] /\ lease'[d] = lease[d]
             /\ phase' \in [Clients -> {"idle", "asking", "holding"}]
             /\ lease' \in [Clients -> Envs \cup {NoEnv}]
             /\ phase[c] = "asking" /\ phase'[c] = "holding" /\ outlived' = outlived
             /\ lease'[c] \in Envs /\ \A d \in Clients : lease[d] # lease'[c]
  BY <1>3, <1>t DEF Pool!Grant, Pool!Free
<1>4. CASE End(c)
  BY <1>4, <1>t DEF End, Pool!End
<1>. QED  BY <1>1, <1>2, <1>3, <1>4 DEF Lease

\* A process moves by itself, and with it at most the link of its container.
LEMMA ProcChanges ==
    ASSUME TypeInv, StageInv, NEW x \in Execs, ProcStep(x)
    PROVE  /\ UNCHANGED <<leaseVars, envVars, callVars, outlived>> /\ faults \subseteq faults'
           /\ proc' \in [Execs -> ProcStates] /\ proc[x] \in Alive /\ where[x] \in Envs
           /\ proc'[x] \in Alive \cup {"ended"}
           /\ \A y \in Execs \ {x} :
                  proc'[y] = proc[y] /\ cwd'[y] = cwd[y] /\ wrote'[y] = wrote[y] /\ code'[y] = code[y]
           /\ wrote[x] <= wrote'[x] /\ (x \in shut => wrote'[x] = wrote[x])
           /\ shut \subseteq shut' /\ shut' \subseteq Execs
           /\ wrote' \in [Execs -> Nat] /\ code' \in [Execs -> Int]
           /\ cwd' \in [Execs -> Workspaces \cup {NoWs}]
           /\ link' \in [Envs -> Workspaces \cup {NoWs}]
           /\ \/ link' = link /\ (proc'[x] = "linked" => proc[x] = "linked" \/ "link" \in faults')
                 /\ (proc'[x] = "running" => proc[x] \in {"linked", "running"}
                                               /\ cwd'[x] = IF proc[x] = "linked" THEN link[where[x]] ELSE cwd[x])
              \/ /\ proc'[x] = "linked" /\ link' = [link EXCEPT ![where[x]] = Ws(x)]
<1>t. /\ proc \in [Execs -> ProcStates] /\ wrote \in [Execs -> Nat] /\ code \in [Execs -> Int]
      /\ cwd \in [Execs -> Workspaces \cup {NoWs}] /\ link \in [Envs -> Workspaces \cup {NoWs}]
      /\ at \in [Execs -> CallStages] /\ shut \subseteq Execs
  BY DEF TypeInv
<1>1. proc[x] \in Alive
  BY DEF ProcStep, DockerStarts, ForgeRunLinks, ForgeRunEnters, Writes, Exits, ShutsUp, Alive
<1>2. where[x] \in Envs
  BY <1>1 DEF StageInv, Alive
<1>3. UNCHANGED <<leaseVars, envVars, callVars, outlived>> /\ faults \subseteq faults'
  BY DEF ProcStep, DockerStarts, ForgeRunLinks, ForgeRunEnters, Writes, Exits, ShutsUp, procFrame, Frame,
     Fault, NoFault
<1>4. Ws(x) \in Workspaces
  BY DEF Ws
<1>. USE DEF ProcTo, ProcStates, Alive
<1>5. CASE DockerStarts(x)
  BY <1>1, <1>2, <1>3, <1>5, <1>t DEF DockerStarts
<1>6. CASE ForgeRunLinks(x)
  BY <1>1, <1>2, <1>3, <1>4, <1>6, <1>t DEF ForgeRunLinks, Relinked, Fault
<1>7. CASE ForgeRunEnters(x)
  <2>1. proc[x] = "linked" /\ UNCHANGED <<wrote, shut, link>> /\ wrote[x] <= wrote[x]
    BY <1>7, <1>t DEF ForgeRunEnters
  <2>2. CASE link[where[x]] # NoWs
    <3>1. /\ proc' = [proc EXCEPT ![x] = "running"] /\ cwd' = [cwd EXCEPT ![x] = link[where[x]]]
          /\ code' = code
      BY <1>7, <2>2 DEF ForgeRunEnters
    <3>. QED  BY <1>1, <1>2, <1>3, <1>t, <2>1, <3>1
  <2>3. CASE link[where[x]] = NoWs
    <3>1. /\ proc' = [proc EXCEPT ![x] = "ended"] /\ code' = [code EXCEPT ![x] = 2]
          /\ cwd' = cwd
      BY <1>7, <2>3 DEF ForgeRunEnters
    <3>. QED  BY <1>1, <1>2, <1>3, <1>t, <2>1, <3>1
  <2>. QED  BY <2>2, <2>3
<1>8. CASE Writes(x)
  BY <1>1, <1>2, <1>3, <1>8, <1>t DEF Writes
<1>9. CASE Exits(x)
  BY <1>1, <1>2, <1>3, <1>9, <1>t DEF Exits
<1>10. CASE ShutsUp(x)
  BY <1>1, <1>2, <1>3, <1>10, <1>t DEF ShutsUp
<1>. QED  BY <1>5, <1>6, <1>7, <1>8, <1>9, <1>10 DEF ProcStep

\* A call moves on by itself; it asks for a process once, and a timeout may forestall it.
LEMMA CallChanges ==
    ASSUME TypeInv, StageInv, LeaseInv, NEW x \in Execs, CallStep(x)
    PROVE  /\ UNCHANGED <<leaseVars, envVars, link, cwd, wrote, shut, code>> /\ faults \subseteq faults'
           /\ \A y \in Execs \ {x} :
                  /\ at'[y] = at[y] /\ where'[y] = where[y] /\ seen'[y] = seen[y]
                  /\ buf'[y] = buf[y] /\ truncated'[y] = truncated[y]
                  /\ result'[y] = result[y] /\ proc'[y] = proc[y]
           /\ at' \in [Execs -> CallStages] /\ at[x] # "done" /\ at'[x] # "idle"
           /\ where' \in [Execs -> Envs \cup {NoEnv}] /\ where'[x] # NoEnv
           /\ where'[x] = where[x] \/ at[x] = "idle"
           /\ proc' \in [Execs -> ProcStates]
           /\ outlived \subseteq outlived' /\ outlived' \subseteq outlived \cup {x}
           /\ at'[x] \in {"made", "create"} =>
                  proc'[x] = proc[x] /\ seen'[x] = seen[x] /\ buf'[x] = buf[x]
                    /\ truncated'[x] = truncated[x] /\ at[x] \in {"idle", "made"}
           /\ \/ proc'[x] = proc[x] /\ outlived' = outlived
              \/ at[x] = "create" /\ proc'[x] = "asked" /\ where'[x] = where[x]
                   /\ (lease[By[x]] = where[x] \/ x \in outlived')
              \/ proc[x] = "asked" /\ proc'[x] = "none" /\ outlived' = outlived
<1>t. /\ at \in [Execs -> CallStages] /\ where \in [Execs -> Envs \cup {NoEnv}]
      /\ proc \in [Execs -> ProcStates] /\ seen \in [Execs -> Nat]
      /\ PerCall(buf) /\ (\A z \in Execs \ Streams : buf[z] \in Seq(Nat)) /\ truncated \in [Execs -> BOOLEAN]
      /\ PerCall(result) /\ phase \in [Clients -> {"idle", "asking", "holding"}]
      /\ lease \in [Clients -> Envs \cup {NoEnv}] /\ By[x] \in Clients
  BY DEF TypeInv
<1>w. at[x] # "idle" => where[x] \in Envs
  BY DEF StageInv
<1>. USE DEF CallTo, ProcTo, procVars, Frame, NoFault, Fault, Return
<1>1. /\ UNCHANGED <<leaseVars, envVars, link, cwd, wrote, shut, code>> /\ faults \subseteq faults'
      /\ at[x] # "done"
  BY DEF CallStep, Call, Iterate, CreateExec, Read, Resume, EndOfStream, Inspect, TimesOut, Breaks
<1>2. \A y \in Execs \ {x} :
          /\ at'[y] = at[y] /\ where'[y] = where[y] /\ seen'[y] = seen[y]
          /\ buf'[y] = buf[y] /\ truncated'[y] = truncated[y]
          /\ result'[y] = result[y] /\ proc'[y] = proc[y]
  <2>1. /\ buf' = buf \/ \E v : SetTo(buf, buf', x, v)
        /\ result' = result \/ \E v : SetTo(result, result', x, v)
    BY DEF SetTo, CallStep, Call, Iterate, CreateExec, Read, Kept, Resume, EndOfStream, Inspect, TimesOut, Breaks
  <2>2. \A y \in Execs \ {x} : buf'[y] = buf[y] /\ result'[y] = result[y]
    <3>p. PerCall(buf) /\ PerCall(result)
      BY <1>t
    <3>1. ASSUME NEW v, SetTo(buf, buf', x, v)  PROVE \A y \in Execs \ {x} : buf'[y] = buf[y]
      BY <3>p, <3>1, Sets
    <3>2. ASSUME NEW v, SetTo(result, result', x, v)
          PROVE  \A y \in Execs \ {x} : result'[y] = result[y]
      BY <3>p, <3>2, Sets
    <3>. QED  BY <2>1, <3>1, <3>2, Zenon
  <2>3. \A y \in Execs \ {x} :
            /\ at'[y] = at[y] /\ where'[y] = where[y] /\ seen'[y] = seen[y]
            /\ truncated'[y] = truncated[y] /\ proc'[y] = proc[y]
    BY <1>t DEF CallStep, Call, Iterate, CreateExec, Read, Kept, Resume, EndOfStream, Inspect, TimesOut, Breaks
  <2>. QED  BY <2>2, <2>3
<1>3. at' \in [Execs -> CallStages] /\ at'[x] # "idle"
  BY <1>t DEF CallStep, Call, Iterate, CreateExec, Read, Resume, EndOfStream, Inspect, TimesOut,
     Breaks, CallStages
<1>4. /\ where' \in [Execs -> Envs \cup {NoEnv}] /\ where'[x] # NoEnv
      /\ where'[x] = where[x] \/ at[x] = "idle"
  <2>1. CASE Call(x)
    <3>1. lease[By[x]] # NoEnv
      BY <2>1 DEF Call, LeaseInv
    <3>. QED  BY <2>1, <3>1, <1>t DEF Call
  <2>2. CASE ~Call(x)
    <3>1. where' = where /\ at[x] # "idle"
      BY <2>2 DEF CallStep, Iterate, CreateExec, Read, Resume, EndOfStream, Inspect, TimesOut, Breaks
    <3>. QED  BY <1>t, <1>w, <3>1
  <2>. QED  BY <2>1, <2>2
<1>5. at'[x] \in {"made", "create"} =>
          proc'[x] = proc[x] /\ seen'[x] = seen[x] /\ buf'[x] = buf[x]
            /\ truncated'[x] = truncated[x] /\ at[x] \in {"idle", "made"}
  BY <1>t DEF CallStep, Call, Iterate, CreateExec, Read, Resume, EndOfStream, Inspect, TimesOut, Breaks
<1>6. /\ proc' \in [Execs -> ProcStates]
      /\ outlived \subseteq outlived' /\ outlived' \subseteq outlived \cup {x}
      /\ \/ proc'[x] = proc[x] /\ outlived' = outlived
         \/ at[x] = "create" /\ proc'[x] = "asked" /\ where'[x] = where[x]
              /\ (lease[By[x]] = where[x] \/ x \in outlived')
         \/ proc[x] = "asked" /\ proc'[x] = "none" /\ outlived' = outlived
  <2>1. CASE CreateExec(x)
    BY <1>t, <2>1 DEF CreateExec, ProcStates, Alive
  <2>2. CASE TimesOut(x)
    BY <1>t, <2>2 DEF TimesOut, ProcStates, Alive
  <2>3. CASE ~CreateExec(x) /\ ~TimesOut(x)
    <3>1. UNCHANGED <<proc, outlived>>
      BY <2>3 DEF CallStep, Call, Iterate, Read, Resume, EndOfStream, Inspect, Breaks
    <3>. QED  BY <1>t, <3>1
  <2>. QED  BY <2>1, <2>2, <2>3
<1>. QED  BY <1>1, <1>2, <1>3, <1>4, <1>5, <1>6

------------------------------------------------------------------------------
(* Output. *)

\* What is kept of a message of n bytes after the first s.
LEMMA Pieces ==
    ASSUME NEW s \in Nat, NEW n \in Nat, NEW room \in 0..n, NEW c, c = [i \in 1..n |-> s + i]
    PROVE  /\ c \in Seq(Nat) /\ Len(c) = n
           /\ SubSeq(c, 1, room) \in Seq(Nat) /\ Len(SubSeq(c, 1, room)) = room
           /\ \A i \in 1..room : SubSeq(c, 1, room)[i] = s + i
<1>1. c \in Seq(Nat) /\ Len(c) = n
  OBVIOUS
<1>2. \A i \in 1..room : c[i] \in Nat /\ c[i] = s + i
  OBVIOUS
<1>3. /\ SubSeq(c, 1, room) \in Seq(Nat)
      /\ Len(SubSeq(c, 1, room)) = room
      /\ \A i \in 1..room : SubSeq(c, 1, room)[i] = c[i]
  BY <1>1
<1>. QED  BY <1>1, <1>2, <1>3

\* It continues what has been kept.
LEMMA Continues ==
    ASSUME NEW k \in Nat, NEW q \in Seq(Nat), Len(q) = k, FirstBytes(q),
           NEW room \in Nat, NEW p \in Seq(Nat), Len(p) = room,
           \A i \in 1..room : p[i] = k + i
    PROVE  q \o p \in Seq(Nat) /\ FirstBytes(q \o p) /\ Len(q \o p) = k + room
<1>2. q \o p \in Seq(Nat) /\ Len(q \o p) = k + room
  BY ConcatProperties
<1>3. ASSUME NEW i \in 1..(k + room)  PROVE (q \o p)[i] = i
  <2>1. CASE i <= k
    <3>1. (q \o p)[i] = q[i]
      BY <2>1
    <3>2. q[i] = i
      BY <2>1 DEF FirstBytes
    <3>. QED  BY <3>1, <3>2
  <2>2. CASE i > k
    <3>1. (q \o p)[i] = p[i - k]
      BY <2>2
    <3>2. i - k \in 1..room
      BY <2>2
    <3>3. p[i - k] = k + (i - k)
      BY <3>2
    <3>. QED  BY <3>1, <3>3
  <2>. QED  BY <2>1, <2>2
<1>4. q \o p = [i \in 1..(k + room) |-> i]
  <2>. DEFINE r == q \o p
  <2>1. r \in Seq(Nat) /\ Len(r) = k + room
    BY <1>2
  <2>2. \A i \in 1..(k + room) : r[i] = i
    BY <1>3
  <2>. HIDE DEF r
  <2>3. DOMAIN r = 1..(k + room) /\ r = [i \in DOMAIN r |-> r[i]]
    BY <2>1
  <2>4. r = [i \in 1..(k + room) |-> i]
    BY <2>2, <2>3
  <2>. QED  BY <2>4 DEF r
<1>. QED  BY <1>2, <1>4 DEF FirstBytes

\* A message of a stream is appended whole.
LEMMA StreamRead ==
    ASSUME TypeInv, NEW x \in Streams, Read(x)
    PROVE  /\ seen' \in [Execs -> Nat] /\ PerCall(buf') /\ (\A z \in Execs \ Streams : buf'[z] \in Seq(Nat))
           /\ truncated' \in [Execs -> BOOLEAN]
<1>t. /\ seen \in [Execs -> Nat] /\ wrote \in [Execs -> Nat]
      /\ PerCall(buf) /\ (\A z \in Execs \ Streams : buf[z] \in Seq(Nat)) /\ truncated \in [Execs -> BOOLEAN] /\ x \in Execs
  BY DEF TypeInv
<1>1. PICK n \in 1..(wrote[x] - seen[x]) :
          /\ seen' = [seen EXCEPT ![x] = @ + n]
          /\ buf' = [buf EXCEPT ![x] = @ \o Decoded(x, Chunk(x, n))] /\ UNCHANGED truncated
  BY DEF Read
<1>2. n \in Nat
  BY <1>t, <1>1
<1>3. PerCall(buf') /\ \A y \in Execs \ {x} : buf'[y] = buf[y]
  <2>1. PerCall(buf) /\ x \in Execs
    BY <1>t
  <2>2. \E v : SetTo(buf, buf', x, v)
    BY <1>1 DEF SetTo
  <2>. QED  BY <2>1, <2>2, Sets
<1>. QED  BY <1>t, <1>1, <1>2, <1>3

\* exec keeps what fits: a prefix of what was written, as long as what was read of it, or
\* as long as the limit.
LEMMA ExecKeeps ==
    ASSUME TypeInv, OutputInv, NEW x \in Execs \ Streams, NEW n \in Nat, n <= wrote[x] - seen[x],
           wrote' = wrote, seen' = [seen EXCEPT ![x] = @ + n], Kept(x, n), at[x] = "drain", at' = at
    PROVE  /\ seen' \in [Execs -> Nat] /\ PerCall(buf') /\ (\A z \in Execs \ Streams : buf'[z] \in Seq(Nat))
           /\ truncated' \in [Execs -> BOOLEAN]
           /\ Output(x)'
<1>t. /\ seen \in [Execs -> Nat]
      /\ PerCall(buf) /\ (\A z \in Execs \ Streams : buf[z] \in Seq(Nat)) /\ truncated \in [Execs -> BOOLEAN]
  BY DEF TypeInv
<1>o. /\ FirstBytes(buf[x]) /\ Len(buf[x]) <= MaxOutput
      /\ Len(buf[x]) <= seen[x] /\ seen[x] <= wrote[x] /\ wrote[x] \in Nat
      /\ IF truncated[x] THEN Len(buf[x]) = MaxOutput ELSE Len(buf[x]) = seen[x]
  BY DEF OutputInv, Output, TypeInv
<1>2. seen' \in [Execs -> Nat] /\ seen'[x] = seen[x] + n
  BY <1>t
<1>3. CASE truncated[x]
  <2>1. UNCHANGED <<buf, truncated>>
    BY <1>3 DEF Kept
  <2>. QED  BY <1>t, <1>o, <1>2, <1>3, <2>1 DEF Output
<1>4. CASE ~truncated[x]
  <2>1. PICK k \in Nat : k = Len(buf[x]) /\ k = seen[x] /\ k <= MaxOutput
    BY <1>t, <1>o, <1>4
  <2>2. PICK room \in 0..n :
            /\ room = IF Remaining(x) < n THEN Remaining(x) ELSE n
            /\ room = n \/ k + room = MaxOutput
            /\ k + room <= MaxOutput
    <3>1. Remaining(x) = MaxOutput - k
      BY <2>1 DEF Remaining
    <3>2. CASE MaxOutput - k < n
      <4>1. MaxOutput - k \in 0..n /\ k + (MaxOutput - k) = MaxOutput
        BY <2>1, <3>2
      <4>. QED  BY <3>1, <3>2, <4>1
    <3>3. CASE ~(MaxOutput - k < n)
      <4>1. n \in 0..n /\ k + n <= MaxOutput
        BY <2>1, <3>3
      <4>. QED  BY <3>1, <3>3, <4>1
    <3>. QED  BY <3>2, <3>3
  <2>3. PICK part \in Seq(Nat) :
            part = SubSeq(Chunk(x, n), 1, room) /\ Len(part) = room /\ \A i \in 1..room : part[i] = k + i
    <3>1. Chunk(x, n) = [i \in 1..n |-> k + i]
      BY <2>1 DEF Chunk
    <3>2. room \in 0..n
      OBVIOUS
    <3>3. /\ SubSeq(Chunk(x, n), 1, room) \in Seq(Nat) /\ Len(SubSeq(Chunk(x, n), 1, room)) = room
          /\ \A i \in 1..room : SubSeq(Chunk(x, n), 1, room)[i] = k + i
      BY <3>1, <3>2, Pieces
    <3>. QED  BY <3>3
  <2>4. PICK new \in Seq(Nat) : new = buf[x] \o part /\ FirstBytes(new) /\ Len(new) = k + room
    <3>1. PICK q \in Seq(Nat) : q = buf[x] /\ Len(q) = k /\ FirstBytes(q)
      BY <1>t, <1>o, <2>1
    <3>2. room \in Nat /\ Len(part) = room /\ \A i \in 1..room : part[i] = k + i
      <4>1. room \in Nat
        BY <2>2
      <4>. QED  BY <2>3, <4>1, Zenon
    <3>3. FirstBytes(q \o part)
      BY <3>1, <3>2, Continues
    <3>4. q \o part \in Seq(Nat)
      BY <3>1, <3>2, Continues
    <3>5. Len(q \o part) = Len(q) + Len(part)
      BY ConcatProperties
    <3>6. Len(q \o part) = k + room
      BY <3>1, <3>2, <3>5, Zenon
    <3>. QED  BY <3>1, <3>3, <3>4, <3>6
  <2>5. /\ buf' = [buf EXCEPT ![x] = new]
        /\ truncated' = [truncated EXCEPT ![x] = Len(new) >= MaxOutput]
    BY <1>4, <2>2, <2>3, <2>4 DEF Kept
  <2>6. /\ PerCall(buf') /\ (\A z \in Execs \ Streams : buf'[z] \in Seq(Nat)) /\ buf'[x] = new
        /\ truncated' \in [Execs -> BOOLEAN] /\ truncated'[x] = (Len(new) >= MaxOutput)
    <3>1. PerCall(buf') /\ buf'[x] = new /\ \A y \in Execs \ {x} : buf'[y] = buf[y]
      <4>1. PerCall(buf) /\ SetTo(buf, buf', x, new)
        BY <1>t, <2>5 DEF SetTo
      <4>. QED  BY <4>1, Sets
    <3>2. \A z \in Execs \ Streams : buf'[z] \in Seq(Nat)
      BY <1>t, <3>1
    <3>3. truncated' \in [Execs -> BOOLEAN] /\ truncated'[x] = (Len(new) >= MaxOutput)
      <4>. DEFINE b == Len(new) >= MaxOutput
      <4>1. b \in BOOLEAN /\ truncated' = [truncated EXCEPT ![x] = b]
        BY <2>5
      <4>. HIDE DEF b
      <4>2. truncated' \in [Execs -> BOOLEAN] /\ truncated'[x] = b
        BY <1>t, <4>1
      <4>. QED  BY <4>2 DEF b
    <3>. QED  BY <3>1, <3>2, <3>3, Zenon
  <2>7. Output(x)'
    <3>1. /\ IF truncated'[x] THEN Len(buf'[x]) = MaxOutput ELSE Len(buf'[x]) = seen'[x]
          /\ Len(buf'[x]) <= seen'[x] /\ seen'[x] <= wrote'[x]
      BY <1>o, <1>2, <2>1, <2>2, <2>4, <2>6
    <3>2. FirstBytes(buf'[x]) /\ Len(buf'[x]) <= MaxOutput /\ at'[x] # "inspect"
      BY <1>t, <2>2, <2>4, <2>6
    <3>. QED  BY <3>1, <3>2 DEF Output
  <2>. QED  BY <1>t, <1>2, <2>6, <2>7
<1>. QED  BY <1>3, <1>4

\* So does a message that exec reads.
LEMMA ExecRead ==
    ASSUME TypeInv, OutputInv, NEW x \in Execs \ Streams, Read(x)
    PROVE  /\ seen' \in [Execs -> Nat] /\ PerCall(buf') /\ (\A z \in Execs \ Streams : buf'[z] \in Seq(Nat))
           /\ truncated' \in [Execs -> BOOLEAN]
           /\ Output(x)' /\ at' = at
<1>1. PICK n \in 1..(wrote[x] - seen[x]) : seen' = [seen EXCEPT ![x] = @ + n] /\ Kept(x, n)
  BY DEF Read
<1>2. n \in Nat /\ n <= wrote[x] - seen[x] /\ at[x] = "drain" /\ at' = at /\ wrote' = wrote
  BY <1>1 DEF TypeInv, Read, procVars
<1>. QED  BY <1>1, <1>2, ExecKeeps

------------------------------------------------------------------------------
(* Every step keeps the invariant. *)

\* What is decoded is the text of the first bytes.
LEMMA Reads ==
    ASSUME NEW x \in Execs, FirstBytes(buf[x])
    PROVE  Decoded(x, buf[x]) = Decoded(x, First(Len(buf[x])))
<1>1. buf[x] = First(Len(buf[x]))
  BY DEF FirstBytes, First
<1>. QED  BY <1>1

\* What a call has collected keeps its type, and what exec has collected is output.
LEMMA CallOutput ==
    ASSUME TypeInv, StageInv, OutputInv, LeaseInv, NEW x \in Execs, CallStep(x)
    PROVE  /\ seen' \in [Execs -> Nat] /\ PerCall(buf') /\ (\A z \in Execs \ Streams : buf'[z] \in Seq(Nat))
           /\ truncated' \in [Execs -> BOOLEAN] /\ PerCall(result')
           /\ x \notin Streams => Output(x)' /\ Told(x)'
<1>t. /\ at \in [Execs -> CallStages] /\ seen \in [Execs -> Nat] /\ wrote \in [Execs -> Nat]
      /\ PerCall(buf) /\ (\A z \in Execs \ Streams : buf[z] \in Seq(Nat)) /\ truncated \in [Execs -> BOOLEAN]
      /\ PerCall(result) /\ code \in [Execs -> Int]
  BY DEF TypeInv
<1>. USE DEF CallTo, Frame, NoFault
<1>1. CASE Read(x)
  <2>1. result' = result
    BY <1>1 DEF Read
  <2>2. CASE x \in Streams
    BY <1>1, <1>t, <2>1, <2>2, StreamRead
  <2>3. CASE x \notin Streams
    <3>1. /\ seen' \in [Execs -> Nat] /\ PerCall(buf') /\ (\A z \in Execs \ Streams : buf'[z] \in Seq(Nat))
          /\ truncated' \in [Execs -> BOOLEAN] /\ Output(x)' /\ at' = at
      BY <1>1, <2>3, ExecRead
    <3>2. at[x] # "done"
      BY <1>1 DEF Read
    <3>. QED  BY <1>t, <2>1, <3>1, <3>2 DEF Told
  <2>. QED  BY <2>2, <2>3
<1>2. CASE ~Read(x)
  <2>1. UNCHANGED <<seen, buf, truncated, wrote, shut, code>>
    BY <1>2 DEF CallStep, Call, Iterate, CreateExec, Resume, EndOfStream, Inspect, TimesOut, Breaks,
       procVars
  <2>2. ASSUME NEW n \in Int, Return(x, n)
        PROVE  /\ PerCall(result')
               /\ result'[x] = [output |-> Decoded(x, buf[x]), code |-> n, truncated |-> truncated[x]]
    <3>. DEFINE r == [output |-> Decoded(x, buf[x]), code |-> n, truncated |-> truncated[x]]
    <3>1. SetTo(result, result', x, r)
      BY <2>2 DEF Return, SetTo
    <3>2. PerCall(result)
      BY <1>t
    <3>. HIDE DEF r
    <3>3. PerCall(result') /\ result'[x] = r
      BY <3>1, <3>2, Sets
    <3>. QED  BY <3>3 DEF r
  <2>3. ASSUME x \notin Streams, Output(x)
        PROVE  Output(x)' \/ at'[x] = "inspect"
    BY <2>1, <2>3 DEF Output
  <2>4. CASE Inspect(x)
    <3>1. PICK n \in Int : /\ Return(x, n) /\ UNCHANGED proc
                           /\ at[x] = "inspect"
                           /\ \/ n \in ExitCode(x) /\ faults' = faults
                              \/ n = -1 /\ "stream" \in faults'
      <4>1. ExitCode(x) \subseteq Int
        BY <1>t DEF ExitCode
      <4>2. UNCHANGED proc /\ at[x] = "inspect"
        BY <2>4 DEF Inspect, procVars
      <4>3. \/ \E n \in ExitCode(x) : Return(x, n) /\ faults' = faults
            \/ Return(x, -1) /\ "stream" \in faults'
        BY <2>4 DEF Inspect, Fault
      <4>. QED  BY <4>1, <4>2, <4>3
    <3>2. /\ PerCall(result') /\ at'[x] = "done"
          /\ result'[x] = [output |-> Decoded(x, buf[x]), code |-> n, truncated |-> truncated[x]]
      BY <1>t, <2>2, <3>1 DEF Return
    <3>3. ASSUME x \notin Streams  PROVE Output(x)' /\ Told(x)'
      <4>1. Output(x)
        BY <3>3 DEF OutputInv
      <4>2. Output(x)'
        BY <2>3, <3>2, <3>3, <4>1
      <4>3. /\ FirstBytes(buf[x]) /\ Len(buf[x]) <= MaxOutput
            /\ truncated[x] => Len(buf[x]) = MaxOutput
            /\ ~truncated[x] => Len(buf[x]) = wrote[x]
            /\ Len(buf[x]) \in 0..wrote[x]
        BY <1>t, <3>1, <3>3, <4>1 DEF Output
      <4>4. /\ n \notin {124, -1} => proc[x] \in {"ended", "killed"}
            /\ n \notin {124, 137, -1} => proc[x] = "ended" /\ code[x] = n
        BY <3>1 DEF ExitCode
      <4>5. Honest([output |-> Decoded(x, buf[x]), code |-> n, truncated |-> truncated[x]], x)
        BY <4>3, <4>4, Reads DEF Honest
      <4>6. Honest(result[x], x)'
        <5>. DEFINE r == [output |-> Decoded(x, buf[x]), code |-> n, truncated |-> truncated[x]]
        <5>1. result'[x] = r /\ Honest(r, x)
          BY <3>2, <4>5
        <5>. HIDE DEF r
        <5>. QED  BY <2>1, <3>1, <5>1 DEF Honest
      <4>7. Over(x)'
        BY <2>1, <3>1, <4>1 DEF Output, Over
      <4>. QED  BY <4>2, <4>6, <4>7 DEF Told
    <3>. QED  BY <1>t, <2>1, <3>2, <3>3
  <2>5. CASE TimesOut(x)
    <3>1. CASE x \in Streams
      BY <1>t, <2>1, <2>5, <3>1 DEF TimesOut
    <3>2. CASE x \notin Streams
      <4>1. /\ PerCall(result') /\ at'[x] = "done"
            /\ result'[x] = [output |-> Decoded(x, buf[x]), code |-> 124, truncated |-> truncated[x]]
        <5>1. Return(x, 124)
          BY <2>5, <3>2 DEF TimesOut
        <5>2. at'[x] = "done"
          BY <1>t, <5>1 DEF Return
        <5>. QED  BY <2>2, <5>1, <5>2
      <4>2. Output(x) /\ Output(x)'
        BY <2>3, <3>2, <4>1 DEF OutputInv
      <4>3. /\ FirstBytes(buf[x]) /\ Len(buf[x]) <= MaxOutput
            /\ truncated[x] => Len(buf[x]) = MaxOutput
            /\ Len(buf[x]) \in 0..wrote[x]
        BY <1>t, <3>2, <4>2 DEF Output
      <4>5. Honest([output |-> Decoded(x, buf[x]), code |-> 124, truncated |-> truncated[x]], x)
        BY <4>3, Reads DEF Honest
      <4>6. result'[x].code = 124
        BY <4>1
      <4>4. Honest(result[x], x)'
        <5>. DEFINE r == [output |-> Decoded(x, buf[x]), code |-> 124, truncated |-> truncated[x]]
        <5>1. result'[x] = r /\ Honest(r, x)
          BY <4>1, <4>5
        <5>. HIDE DEF r
        <5>. QED  BY <2>1, <4>6, <5>1 DEF Honest
      <4>. QED  BY <1>t, <2>1, <4>1, <4>2, <4>4, <4>6 DEF Told
    <3>. QED  BY <3>1, <3>2
  <2>6. CASE EndOfStream(x)
    <3>1. /\ result' = result /\ proc' = proc /\ seen[x] = wrote[x] /\ Over(x)
          /\ x \notin Streams => at'[x] = "inspect"
      BY <1>t, <2>6 DEF EndOfStream, procVars, Over
    <3>2. x \notin Streams => Output(x)'
      BY <2>1, <3>1 DEF OutputInv, Output, Over
    <3>3. x \notin Streams => at'[x] # "done"
      BY <3>1
    <3>. QED  BY <1>t, <2>1, <3>1, <3>2, <3>3 DEF Told
  <2>7. CASE Call(x) \/ Iterate(x) \/ CreateExec(x) \/ Resume(x) \/ Breaks(x)
    <3>1. result' = result /\ at'[x] \notin {"done", "inspect"}
      BY <1>t, <2>7 DEF Call, Iterate, CreateExec, Resume, Breaks
    <3>2. x \notin Streams => Output(x)'
      BY <2>3, <3>1 DEF OutputInv
    <3>. QED  BY <1>t, <2>1, <3>1, <3>2 DEF Told
  <2>. QED  BY <1>2, <2>4, <2>5, <2>6, <2>7 DEF CallStep
<1>. QED  BY <1>1, <1>2

\* Types.
LEMMA TypeStep ==
    ASSUME Inv, [Next]_vars
    PROVE  TypeInv'
<1>. USE DEF leaseVars, envVars, procVars, callVars
<1>i. TypeInv /\ StageInv /\ OutputInv /\ LeaseInv
  BY DEF Inv
<1>1. ASSUME NEW e \in Envs, EnvStep(e)  PROVE TypeInv'
  <2>1. /\ UNCHANGED <<leaseVars, callVars, link, cwd, wrote, shut, code, outlived>>
        /\ proc' \in [Execs -> ProcStates]
    BY <1>1, <1>i, EnvChanges
  <2>2. boot' \in [Envs -> BootStages] /\ box' \in [Envs -> BoxStates] /\ tool' \subseteq Envs
    BY <1>1, <1>i DEF EnvStep, EnsureImage, CreateAndStart, Install, Rollback, CreateCancelled, Stop,
       Delete, Crash, BootTo, BoxTo, TypeInv, BootStages, BoxStates
  <2>. QED  BY <1>i, <2>1, <2>2 DEF TypeInv
<1>2. ASSUME NEW c \in Clients, Lease(c) \/ End(c)  PROVE TypeInv'
  <2>1. /\ UNCHANGED <<envVars, procVars, callVars>>
        /\ phase' \in [Clients -> {"idle", "asking", "holding"}]
        /\ lease' \in [Clients -> Envs \cup {NoEnv}]
    BY <1>2, <1>i, LeaseChanges
  <2>2. outlived' \subseteq Execs
    BY <1>2, <1>i DEF Lease, End, TypeInv
  <2>. QED  BY <1>i, <2>1, <2>2 DEF TypeInv
<1>3. ASSUME NEW x \in Execs, ProcStep(x)  PROVE TypeInv'
  <2>1. /\ UNCHANGED <<leaseVars, envVars, callVars, outlived>>
        /\ proc' \in [Execs -> ProcStates]
        /\ wrote' \in [Execs -> Nat] /\ code' \in [Execs -> Int] /\ shut' \subseteq Execs
        /\ cwd' \in [Execs -> Workspaces \cup {NoWs}]
        /\ link' \in [Envs -> Workspaces \cup {NoWs}]
    BY <1>3, <1>i, ProcChanges
  <2>. QED  BY <1>i, <2>1 DEF TypeInv
<1>4. ASSUME NEW x \in Execs, CallStep(x)  PROVE TypeInv'
  <2>1. /\ UNCHANGED <<leaseVars, envVars, link, cwd, wrote, shut, code>>
        /\ at' \in [Execs -> CallStages] /\ where' \in [Execs -> Envs \cup {NoEnv}]
        /\ proc' \in [Execs -> ProcStates] /\ outlived' \subseteq outlived \cup {x}
    BY <1>4, <1>i, CallChanges
  <2>2. /\ seen' \in [Execs -> Nat] /\ PerCall(buf') /\ (\A z \in Execs \ Streams : buf'[z] \in Seq(Nat))
        /\ truncated' \in [Execs -> BOOLEAN] /\ PerCall(result')
    BY <1>4, <1>i, CallOutput
  <2>. QED  BY <1>i, <2>1, <2>2 DEF TypeInv
<1>5. CASE UNCHANGED vars
  BY <1>i, <1>5 DEF vars, TypeInv
<1>. QED  BY <1>1, <1>2, <1>3, <1>4, <1>5 DEF Next

\* Leases.
LEMMA LeaseStep ==
    ASSUME Inv, [Next]_vars
    PROVE  LeaseInv'
<1>i. TypeInv /\ StageInv /\ LeaseInv
  BY DEF Inv
<1>1. CASE UNCHANGED leaseVars
  BY <1>i, <1>1 DEF LeaseInv, leaseVars
<1>2. ASSUME NEW c \in Clients, Lease(c) \/ End(c)  PROVE LeaseInv'
  <2>1. /\ \A d \in Clients \ {c} : phase'[d] = phase[d] /\ lease'[d] = lease[d]
        /\ \/ lease' = lease /\ phase[c] # "holding" /\ phase'[c] # "holding"
           \/ /\ phase'[c] = "holding"
              /\ lease'[c] \in Envs /\ \A d \in Clients : lease[d] # lease'[c]
           \/ phase'[c] = "idle" /\ lease'[c] = NoEnv
    BY <1>2, <1>i, LeaseChanges
  <2>. QED  BY <1>i, <2>1 DEF LeaseInv
<1>3. ASSUME NEW e \in Envs, EnvStep(e)  PROVE UNCHANGED leaseVars
  BY <1>3, <1>i, EnvChanges
<1>4. ASSUME NEW x \in Execs, ProcStep(x)  PROVE UNCHANGED leaseVars
  BY <1>4, <1>i, ProcChanges
<1>5. ASSUME NEW x \in Execs, CallStep(x)  PROVE UNCHANGED leaseVars
  BY <1>5, <1>i, CallChanges
<1>. QED  BY <1>1, <1>2, <1>3, <1>4, <1>5 DEF Next, vars

\* Stages of the calls.
LEMMA StageStep ==
    ASSUME Inv, [Next]_vars
    PROVE  StageInv'
<1>. USE DEF leaseVars, envVars, procVars, callVars
<1>i. TypeInv /\ StageInv /\ LeaseInv /\ NoEnv \notin Envs
  BY DEF Inv
<1>1. ASSUME NEW e \in Envs, EnvStep(e)  PROVE StageInv'
  <2>1. /\ UNCHANGED <<callVars, wrote, outlived>>
        /\ \A x \in Execs : proc'[x] = proc[x] \/ proc[x] \in Alive
    BY <1>1, <1>i, EnvChanges
  <2>. QED  BY <1>i, <2>1 DEF StageInv, Alive
<1>2. ASSUME NEW c \in Clients, Lease(c) \/ End(c)  PROVE StageInv'
  <2>1. UNCHANGED <<procVars, callVars>>
    BY <1>2, <1>i, LeaseChanges
  <2>2. outlived' \subseteq outlived \cup {x \in Execs : proc[x] \in Alive}
    BY <1>2 DEF Lease, End
  <2>. QED  BY <1>i, <2>1, <2>2 DEF StageInv, Alive
<1>3. ASSUME NEW x \in Execs, ProcStep(x)  PROVE StageInv'
  <2>1. /\ UNCHANGED <<callVars, outlived>> /\ proc[x] \in Alive
        /\ \A y \in Execs \ {x} : proc'[y] = proc[y] /\ wrote'[y] = wrote[y]
    BY <1>3, <1>i, ProcChanges
  <2>2. at[x] \notin {"idle", "made", "create"}
    BY <1>i, <2>1 DEF StageInv, Alive
  <2>. QED  BY <1>i, <2>1, <2>2 DEF StageInv
<1>4. ASSUME NEW x \in Execs, CallStep(x)  PROVE StageInv'
  <2>1. /\ UNCHANGED wrote
        /\ \A y \in Execs \ {x} :
               /\ at'[y] = at[y] /\ where'[y] = where[y] /\ seen'[y] = seen[y]
               /\ buf'[y] = buf[y] /\ truncated'[y] = truncated[y] /\ proc'[y] = proc[y]
        /\ where' \in [Execs -> Envs \cup {NoEnv}] /\ where'[x] # NoEnv /\ at'[x] # "idle"
        /\ outlived' \subseteq outlived \cup {x}
        /\ at'[x] \in {"made", "create"} =>
               proc'[x] = proc[x] /\ seen'[x] = seen[x] /\ buf'[x] = buf[x]
                 /\ truncated'[x] = truncated[x] /\ at[x] \in {"idle", "made"}
    BY <1>4, <1>i, CallChanges
  <2>2. ASSUME NEW y \in Execs \ {x}
        PROVE  /\ at'[y] # "idle" => where'[y] \in Envs
               /\ at'[y] \in {"idle", "made", "create"} =>
                      proc'[y] = "none" /\ wrote'[y] = 0 /\ seen'[y] = 0 /\ buf'[y] = <<>> /\ ~truncated'[y]
               /\ at'[y] = "idle" => y \notin outlived'
    BY <1>i, <2>1, <2>2 DEF StageInv
  <2>3. /\ at'[x] # "idle" /\ where'[x] \in Envs
        /\ at'[x] \in {"idle", "made", "create"} =>
               proc'[x] = "none" /\ wrote'[x] = 0 /\ seen'[x] = 0 /\ buf'[x] = <<>> /\ ~truncated'[x]
    BY <1>i, <2>1 DEF StageInv
  <2>. QED  BY <2>2, <2>3 DEF StageInv
<1>5. CASE UNCHANGED vars
  BY <1>i, <1>5 DEF vars, StageInv
<1>. QED  BY <1>1, <1>2, <1>3, <1>4, <1>5 DEF Next

\* The output of a call whose process has come to its end, and the result, stay true.
LEMMA OutputKeeps ==
    ASSUME NEW y, Output(y), Told(y),
           at'[y] = at[y], seen'[y] = seen[y], buf'[y] = buf[y], truncated'[y] = truncated[y],
           result'[y] = result[y], faults \subseteq faults',
           wrote[y] \in Nat, wrote'[y] \in Nat, seen[y] \in Nat, wrote[y] <= wrote'[y],
           shut \subseteq shut', Over(y) => wrote'[y] = wrote[y],
           proc[y] \in {"ended", "killed"} => proc'[y] = proc[y] /\ code'[y] = code[y]
    PROVE  Output(y)' /\ Told(y)'
<1>0. Over(y) => Over(y)'
  BY DEF Over
<1>1. Output(y)'
  BY <1>0 DEF Output
<1>2. ASSUME at'[y] = "done"  PROVE Honest(result[y], y)'
  <2>1. Honest(result[y], y) /\ (result[y].code # 124 => wrote'[y] = wrote[y])
    BY <1>2 DEF Told
  <2>2. 0..wrote[y] \subseteq 0..wrote'[y]
    OBVIOUS
  <2>. QED  BY <2>1, <2>2 DEF Honest
<1>. QED  BY <1>0, <1>1, <1>2 DEF Told

\* Output and results.
LEMMA OutputStep ==
    ASSUME Inv, [Next]_vars
    PROVE  OutputInv'
<1>. USE DEF leaseVars, envVars, procVars, callVars
<1>i. TypeInv /\ StageInv /\ OutputInv /\ LeaseInv
  BY DEF Inv
<1>. SUFFICES ASSUME NEW y \in Execs \ Streams
              PROVE  Output(y)' /\ Told(y)'
  BY DEF OutputInv
<1>o. Output(y) /\ Told(y)
  BY <1>i DEF OutputInv
<1>. DEFINE Stays ==
         /\ at'[y] = at[y] /\ seen'[y] = seen[y] /\ buf'[y] = buf[y] /\ truncated'[y] = truncated[y]
         /\ result'[y] = result[y] /\ faults \subseteq faults'
         /\ wrote' \in [Execs -> Nat] /\ wrote[y] <= wrote'[y]
         /\ shut \subseteq shut' /\ (Over(y) => wrote'[y] = wrote[y])
         /\ proc[y] \in {"ended", "killed"} => proc'[y] = proc[y] /\ code'[y] = code[y]
<1>s. ASSUME Stays  PROVE Output(y)' /\ Told(y)'
  BY <1>i, <1>o, <1>s, OutputKeeps DEF TypeInv
<1>1. ASSUME NEW e \in Envs, EnvStep(e)  PROVE Stays
  <2>1. /\ UNCHANGED <<callVars, wrote, shut, code>> /\ faults \subseteq faults'
        /\ \A x \in Execs : proc'[x] = proc[x] \/ proc[x] \in Alive
    BY <1>1, <1>i, EnvChanges
  <2>2. wrote \in [Execs -> Nat] /\ wrote[y] \in Nat
    BY <1>i DEF TypeInv
  <2>3. proc[y] \in {"ended", "killed"} => proc'[y] = proc[y]
    BY <2>1 DEF Alive
  <2>4. wrote[y] <= wrote[y]
    BY <2>2
  <2>. QED  BY <2>1, <2>2, <2>3, <2>4
<1>2. ASSUME NEW c \in Clients, Lease(c) \/ End(c)  PROVE Stays
  <2>1. UNCHANGED <<procVars, callVars, faults>>
    BY <1>2, <1>i, LeaseChanges
  <2>. QED  BY <1>i, <2>1 DEF TypeInv
<1>3. ASSUME NEW x \in Execs, ProcStep(x)  PROVE Stays
  <2>1. /\ UNCHANGED callVars /\ faults \subseteq faults' /\ proc[x] \in Alive
        /\ \A z \in Execs \ {x} : proc'[z] = proc[z] /\ wrote'[z] = wrote[z] /\ code'[z] = code[z]
        /\ wrote[x] <= wrote'[x] /\ (x \in shut => wrote'[x] = wrote[x]) /\ shut \subseteq shut'
        /\ wrote' \in [Execs -> Nat]
    BY <1>3, <1>i, ProcChanges
  <2>2. wrote[y] \in Nat
    BY <1>i DEF TypeInv
  <2>. QED  BY <2>1, <2>2 DEF Alive, Over
<1>4. ASSUME NEW x \in Execs, CallStep(x), x # y  PROVE Stays
  <2>1. /\ UNCHANGED <<wrote, shut, code>> /\ faults \subseteq faults'
        /\ \A z \in Execs \ {x} :
               /\ at'[z] = at[z] /\ seen'[z] = seen[z] /\ buf'[z] = buf[z]
               /\ truncated'[z] = truncated[z] /\ result'[z] = result[z] /\ proc'[z] = proc[z]
    BY <1>4, <1>i, CallChanges
  <2>. QED  BY <1>4, <1>i, <2>1 DEF TypeInv
<1>5. CASE CallStep(y)
  BY <1>5, <1>i, CallOutput
<1>6. ASSUME UNCHANGED vars  PROVE Stays
  BY <1>6, <1>i DEF vars, TypeInv
<1>. HIDE DEF Stays
<1>. QED  BY <1>s, <1>1, <1>2, <1>3, <1>4, <1>5, <1>6 DEF Next

\* Processes that outlive a lease are noticed.
LEMMA OutlivedStep ==
    ASSUME Inv, [Next]_vars
    PROVE  OutlivedInv'
<1>. USE DEF leaseVars, envVars, procVars, callVars
<1>i. TypeInv /\ StageInv /\ LeaseInv /\ OutlivedInv /\ NoEnv \notin Envs
  BY DEF Inv
<1>. SUFFICES ASSUME NEW y \in Execs, proc'[y] \in Alive
              PROVE  lease'[By[y]] = where'[y] \/ y \in outlived'
  BY DEF OutlivedInv
<1>b. By[y] \in Clients
  OBVIOUS
<1>1. ASSUME NEW e \in Envs, EnvStep(e)  PROVE lease'[By[y]] = where'[y] \/ y \in outlived'
  <2>1. /\ UNCHANGED <<lease, where, outlived>>
        /\ proc'[y] = proc[y] \/ proc[y] \in Alive
    BY <1>1, <1>i, EnvChanges
  <2>. QED  BY <1>i, <2>1 DEF OutlivedInv
<1>2. ASSUME NEW c \in Clients, Lease(c) \/ End(c)  PROVE lease'[By[y]] = where'[y] \/ y \in outlived'
  <2>1. /\ UNCHANGED <<proc, where>> /\ outlived \subseteq outlived'
        /\ \A d \in Clients \ {c} : lease'[d] = lease[d]
        /\ \/ lease' = lease
           \/ phase[c] = "asking"
           \/ outlived' = outlived \cup {x \in Execs : By[x] = c /\ where[x] = lease[c]
                                                         /\ proc[x] \in Alive}
    BY <1>2, <1>i, LeaseChanges
  <2>2. where[y] \in Envs /\ (lease[By[y]] = where[y] \/ y \in outlived)
    BY <1>i, <2>1 DEF StageInv, OutlivedInv, Alive
  <2>3. CASE phase[c] = "asking" /\ By[y] = c
    <3>1. lease[c] = NoEnv
      BY <1>i, <2>3 DEF LeaseInv
    <3>. QED  BY <1>i, <2>1, <2>2, <2>3, <3>1
  <2>. QED  BY <1>b, <2>1, <2>2, <2>3
<1>3. ASSUME NEW x \in Execs, ProcStep(x)  PROVE lease'[By[y]] = where'[y] \/ y \in outlived'
  <2>1. /\ UNCHANGED <<lease, where, outlived>> /\ proc[x] \in Alive
        /\ \A z \in Execs \ {x} : proc'[z] = proc[z]
    BY <1>3, <1>i, ProcChanges
  <2>. QED  BY <1>i, <2>1 DEF OutlivedInv
<1>4. ASSUME NEW x \in Execs, CallStep(x)  PROVE lease'[By[y]] = where'[y] \/ y \in outlived'
  <2>1. /\ UNCHANGED lease /\ outlived \subseteq outlived'
        /\ \A z \in Execs \ {x} : where'[z] = where[z] /\ proc'[z] = proc[z]
        /\ where'[x] = where[x] \/ at[x] = "idle"
        /\ \/ proc'[x] = proc[x]
           \/ where'[x] = where[x] /\ (lease[By[x]] = where[x] \/ x \in outlived')
           \/ proc'[x] = "none"
    BY <1>4, <1>i, CallChanges
  <2>2. at[x] = "idle" => proc[x] \notin Alive
    BY <1>i DEF StageInv, Alive
  <2>3. "none" \notin Alive
    BY DEF Alive
  <2>. QED  BY <1>i, <2>1, <2>2, <2>3 DEF OutlivedInv
<1>5. CASE UNCHANGED vars
  BY <1>i, <1>5 DEF vars, OutlivedInv
<1>. QED  BY <1>1, <1>2, <1>3, <1>4, <1>5 DEF Next

\* The link of a container nobody has intruded upon.
LEMMA LinkStep ==
    ASSUME Inv, [Next]_vars
    PROVE  LinkInv'
<1>. USE DEF leaseVars, envVars, procVars, callVars
<1>i. TypeInv /\ StageInv /\ LeaseInv /\ OutlivedInv /\ LinkInv /\ NoEnv \notin Envs
  BY DEF Inv
<1>. SUFFICES ASSUME "link" \notin faults', NEW y \in Execs, proc'[y] \in {"linked", "running"},
                     lease'[By[y]] = where'[y], ~Intruded(where[y])'
              PROVE  link'[where'[y]] = Ws(y) /\ (proc'[y] = "running" => cwd'[y] = Ws(y))
  BY DEF LinkInv, Ws
<1>b. \A x \in Execs : By[x] \in Clients
  OBVIOUS
<1>k. ASSUME faults \subseteq faults', proc[y] \in {"linked", "running"},
             lease[By[y]] = where[y], ~Intruded(where[y])
      PROVE  link[where[y]] = Ws(y) /\ (proc[y] = "running" => cwd[y] = Ws(y))
  BY <1>i, <1>k DEF LinkInv
<1>1. ASSUME NEW e \in Envs, EnvStep(e)
      PROVE  link'[where'[y]] = Ws(y) /\ (proc'[y] = "running" => cwd'[y] = Ws(y))
  <2>1. /\ UNCHANGED <<lease, where, outlived, link, cwd>> /\ faults \subseteq faults'
        /\ proc'[y] = proc[y] \/ proc'[y] = "killed"
    BY <1>1, <1>i, EnvChanges
  <2>2. ~Intruded(where[y])
    BY <2>1 DEF Intruded
  <2>. QED  BY <1>k, <2>1, <2>2
<1>2. ASSUME NEW c \in Clients, Lease(c) \/ End(c)
      PROVE  link'[where'[y]] = Ws(y) /\ (proc'[y] = "running" => cwd'[y] = Ws(y))
  <2>1. UNCHANGED <<proc, where, link, cwd, faults>> /\ outlived \subseteq outlived'
    BY <1>2, <1>i, LeaseChanges
  <2>2. ~Intruded(where[y])
    BY <2>1 DEF Intruded
  <2>3. lease[By[y]] = where[y]
    BY <1>i, <2>1, <2>2 DEF OutlivedInv, Intruded, Alive
  <2>. QED  BY <1>k, <2>1, <2>2, <2>3
<1>3. ASSUME NEW x \in Execs, ProcStep(x)
      PROVE  link'[where'[y]] = Ws(y) /\ (proc'[y] = "running" => cwd'[y] = Ws(y))
  <2>1. /\ UNCHANGED <<lease, where, outlived>> /\ faults \subseteq faults'
        /\ proc[x] \in Alive /\ where[x] \in Envs
        /\ \A z \in Execs \ {x} : proc'[z] = proc[z] /\ cwd'[z] = cwd[z]
        /\ \/ link' = link /\ (proc'[x] = "linked" => proc[x] = "linked" \/ "link" \in faults')
              /\ (proc'[x] = "running" => proc[x] \in {"linked", "running"}
                                            /\ cwd'[x] = IF proc[x] = "linked" THEN link[where[x]] ELSE cwd[x])
           \/ /\ proc'[x] = "linked" /\ link' = [link EXCEPT ![where[x]] = Ws(x)]
    BY <1>3, <1>i, ProcChanges
  <2>2. ~Intruded(where[y]) /\ lease[By[y]] = where[y]
    BY <2>1 DEF Intruded
  <2>4. CASE proc'[x] = "linked" /\ link' = [link EXCEPT ![where[x]] = Ws(x)]
    <3>t. link \in [Envs -> Workspaces \cup {NoWs}]
      BY <1>i DEF TypeInv
    <3>1. link'[where[x]] = Ws(x)
      BY <2>1, <2>4, <3>t
    <3>2. CASE y = x
      BY <2>1, <2>4, <3>1, <3>2
    <3>3. CASE y # x
      <4>1. link[where[y]] = Ws(y) /\ (proc[y] = "running" => cwd[y] = Ws(y)) /\ proc'[y] = proc[y]
        BY <1>k, <2>1, <2>2, <3>3
      <4>2. CASE where[y] = where[x]
        <5>1. x \notin outlived
          BY <2>2, <4>2 DEF Intruded
        <5>2. lease[By[x]] = where[x]
          BY <1>i, <2>1, <5>1 DEF OutlivedInv
        <5>3. By[x] = By[y]
          <6>1. lease[By[x]] = lease[By[y]] /\ lease[By[x]] # NoEnv
            BY <1>i, <2>1, <2>2, <4>2, <5>2
          <6>2. By[x] \in Clients /\ By[y] \in Clients
            BY <1>b
          <6>. QED  BY <1>i, <6>1, <6>2 DEF LeaseInv
        <5>4. Ws(x) = Ws(y)
          BY <5>3 DEF Ws
        <5>. QED  BY <2>1, <3>1, <3>3, <4>1, <4>2, <5>4
      <4>3. CASE where[y] # where[x]
        <5>1. link'[where[y]] = link[where[y]]
          <6>1. where[y] \in Envs
            BY <1>i, <2>1, <3>3 DEF StageInv
          <6>. QED  BY <2>4, <3>t, <4>3, <6>1
        <5>. QED  BY <2>1, <3>3, <4>1, <5>1
      <4>. QED  BY <4>2, <4>3
    <3>. QED  BY <3>2, <3>3
  <2>5. CASE link' = link /\ (proc'[x] = "linked" => proc[x] = "linked" \/ "link" \in faults')
              /\ (proc'[x] = "running" => proc[x] \in {"linked", "running"}
                                            /\ cwd'[x] = IF proc[x] = "linked" THEN link[where[x]] ELSE cwd[x])
    <3>1. proc[y] \in {"linked", "running"} /\ where'[y] = where[y]
      BY <2>1, <2>5
    <3>2. link[where[y]] = Ws(y) /\ (proc[y] = "running" => cwd[y] = Ws(y))
      BY <1>k, <2>1, <2>2, <3>1
    <3>3. CASE x = y
      BY <2>5, <3>1, <3>2, <3>3
    <3>4. CASE x # y
      BY <2>1, <2>5, <3>1, <3>2, <3>4
    <3>. QED  BY <3>3, <3>4
  <2>. QED  BY <2>1, <2>4, <2>5
<1>4. ASSUME NEW x \in Execs, CallStep(x)
      PROVE  link'[where'[y]] = Ws(y) /\ (proc'[y] = "running" => cwd'[y] = Ws(y))
  <2>1. /\ UNCHANGED <<lease, link, cwd>> /\ outlived \subseteq outlived' /\ faults \subseteq faults'
        /\ \A z \in Execs \ {x} : where'[z] = where[z] /\ proc'[z] = proc[z]
        /\ where'[x] = where[x] \/ at[x] = "idle"
        /\ proc'[x] = proc[x] \/ proc'[x] \in {"asked", "none"}
    BY <1>4, <1>i, CallChanges
  <2>2. \A z \in Execs : at[z] = "idle" => z \notin outlived /\ proc[z] = "none"
    BY <1>i DEF StageInv
  <2>3. where'[y] = where[y] /\ proc'[y] = proc[y]
    BY <2>1, <2>2
  <2>4. ~Intruded(where[y])
    <3>. SUFFICES ASSUME NEW z \in outlived, where[z] = where[y]  PROVE FALSE
      BY DEF Intruded
    <3>1. where'[z] = where[z] /\ z \in outlived'
      BY <1>i, <2>1, <2>2 DEF TypeInv
    <3>. QED  BY <2>3, <3>1 DEF Intruded
  <2>. QED  BY <1>k, <2>1, <2>3, <2>4
<1>5. CASE UNCHANGED vars
  <2>1. ~Intruded(where[y])
    BY <1>5 DEF Intruded, vars
  <2>. QED  BY <1>k, <1>5, <2>1 DEF vars
<1>. QED  BY <1>1, <1>2, <1>3, <1>4, <1>5 DEF Next

\* Containers.
LEMMA BootStep ==
    ASSUME Inv, [Next]_vars
    PROVE  BootInv'
<1>. USE DEF leaseVars, envVars, procVars, callVars
<1>i. TypeInv /\ StageInv /\ LeaseInv /\ BootInv
  BY DEF Inv
<1>1. ASSUME NEW e \in Envs, EnvStep(e)  PROVE BootInv'
  <2>t. boot \in [Envs -> BootStages] /\ box \in [Envs -> BoxStates]
    BY <1>i DEF TypeInv
  <2>. USE DEF BootTo, BoxTo, Fault, NoFault, BootInv
  <2>1. CASE EnsureImage(e) \/ Rollback(e) \/ CreateCancelled(e)
    BY <1>i, <2>1, <2>t DEF EnsureImage, Rollback, CreateCancelled
  <2>2. CASE CreateAndStart(e)
    BY <1>i, <2>2, <2>t DEF CreateAndStart
  <2>3. CASE Install(e)
    BY <1>i, <2>3, <2>t DEF Install
  <2>4. CASE Stop(e) \/ Delete(e)
    BY <1>i, <2>4, <2>t DEF Stop, Delete
  <2>5. CASE Crash(e)
    BY <1>i, <2>5, <2>t DEF Crash
  <2>. QED  BY <1>1, <2>1, <2>2, <2>3, <2>4, <2>5 DEF EnvStep
<1>2. ASSUME NEW c \in Clients, Lease(c) \/ End(c)  PROVE BootInv'
  <2>1. UNCHANGED <<envVars, faults>>
    BY <1>2, <1>i, LeaseChanges
  <2>. QED  BY <1>i, <2>1 DEF BootInv
<1>3. ASSUME NEW x \in Execs, ProcStep(x) \/ CallStep(x)  PROVE BootInv'
  <2>1. UNCHANGED envVars /\ faults \subseteq faults'
    BY <1>3, <1>i, ProcChanges, CallChanges
  <2>. QED  BY <1>i, <2>1 DEF BootInv
<1>4. CASE UNCHANGED vars
  BY <1>i, <1>4 DEF vars, BootInv
<1>. QED  BY <1>1, <1>2, <1>3, <1>4 DEF Next

------------------------------------------------------------------------------
(* The theorems. *)

\* The invariant.
LEMMA Invariant == Spec => []Inv
<1>1. Inv /\ [Next]_vars => Inv'
  BY TypeStep, LeaseStep, StageStep, OutputStep, OutlivedStep, LinkStep, BootStep DEF Inv
<1>. QED  BY <1>1, InitInv, PTL DEF Spec

\* What exec returns is what the command did: its output is the text of the first bytes
\* written, decoded at once, no more of them than the limit and all of them unless it says
\* truncated or timed out; and an exit code that it reports, but for its own 124 and -1, is
\* that of a command that is over.
THEOREM ExecIsHonest == Spec => []ResultHonest
<1>1. Inv => ResultHonest
  BY DEF Inv, OutputInv, Told, ResultHonest
<1>. QED  BY <1>1, Invariant, PTL

\* A command runs in its own workspace while its client holds the container, unless a
\* process that outlived another lease has been in there, or the link could not be set.
THEOREM OwnUnlessIntruded == Spec => []OwnWhileAlone
<1>1. Inv => OwnWhileAlone
  BY DEF Inv, LinkInv, OwnWhileAlone
<1>. QED  BY <1>1, Invariant, PTL

\* Every container handed out has forge-run in it, and runs unless it has died.
THEOREM HandedOutInOrder == Spec => []HandedOutWorks
<1>1. Inv => HandedOutWorks
  BY DEF Inv, BootInv, HandedOutWorks
<1>. QED  BY <1>1, Invariant, PTL
===============================================================================

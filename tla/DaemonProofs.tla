----------------------------- MODULE DaemonProofs -----------------------------
(***************************************************************************)
(* Type correctness of Daemon, and that what has gone down is clean, for    *)
(* every number of requests, streams and starts.                            *)
(***************************************************************************)
EXTENDS Daemon, TLAPS

USE DaemonAssumption

\* What a step of the life leaves alone.
LEMMA LifeFrame ==
    ASSUME LifeStep
    PROVE  UNCHANGED <<kind, env, handlers, stream>>
BY DEF LifeStep, Start, Connect, Migrate, StartPool, Warm, Stop, Drained, PoolDown, CloseDb, Live,
       wiring, handlers

\* What a step of a handler leaves alone.
LEMMA HandlerFrame ==
    ASSUME NEW c \in Calls, Request(c) \/ HandlerStep(c) \/ Cancelled(c) \/ GiveUp(c)
    PROVE  UNCHANGED <<kind, env, life, starts, wiring, stream>>
BY DEF Request, HandlerStep, OwnStep, Claim, Lease, CommandEnds, Record, RecordFailure, Cancelled, GiveUp,
       callFrame

\* What a step of an event stream leaves alone.
LEMMA StreamFrame ==
    ASSUME NEW s \in Streams, Subscribe(s) \/ Leave(s) \/ FallSilent(s)
    PROVE  UNCHANGED <<kind, env, life, starts, wiring, handlers>>
BY DEF Subscribe, Leave, FallSilent

------------------------------------------------------------------------------
(* The life of the process. *)

\* The variables of the life keep their types, and Wired.
LEMMA LifeKeeps ==
    ASSUME TypeOK, Wired, LifeStep
    PROVE  TypeOK' /\ Wired'
<1>1. UNCHANGED <<kind, env, handlers, stream>>
  BY LifeFrame
<1>2. CASE Start
  BY <1>1, <1>2 DEF TypeOK, Wired, Start, To, wiring, handlers
<1>3. CASE Connect
  BY <1>1, <1>3 DEF TypeOK, Wired, Connect, Live, Breaks, To, wiring, handlers
<1>4. CASE Migrate
  BY <1>1, <1>4 DEF TypeOK, Wired, Migrate, Live, Breaks, To, wiring, handlers
<1>5. CASE StartPool
  BY <1>1, <1>5 DEF TypeOK, Wired, StartPool, Live, To, wiring, handlers
<1>6. CASE Warm
  BY <1>1, <1>6 DEF TypeOK, Wired, Warm, Live, Breaks, To, wiring, handlers
<1>7. CASE Stop \/ Drained
  BY <1>1, <1>7 DEF TypeOK, Wired, Stop, Drained, Live, To, wiring, handlers
<1>8. CASE PoolDown
  BY <1>1, <1>8 DEF TypeOK, Wired, PoolDown, Live, To, wiring, handlers
<1>9. CASE CloseDb
  BY <1>1, <1>9 DEF TypeOK, Wired, CloseDb, Live, To, wiring, handlers
<1> QED  BY <1>2, <1>3, <1>4, <1>5, <1>6, <1>7, <1>8, <1>9 DEF LifeStep

\* A daemon gets its tables before it serves, and stops serving only when it is quiet.
LEMMA LifeServes ==
    ASSUME TypeOK, Wired, kind = "http", Served, LifeStep
    PROVE  Served'
<1>1. (Quiet <=> Quiet') /\ row' = row /\ call' = call /\ stranded' = stranded /\ \A c \in Calls : InProgress(c) <=> InProgress(c)'
  BY LifeFrame DEF handlers, Quiet, InProgress
<1>2. CASE Start
  BY <1>1, <1>2 DEF Served, Wired, Start, To, wiring
<1>3. CASE Connect \/ Migrate \/ Warm
  BY <1>1, <1>3 DEF Served, Connect, Migrate, Warm, Live, Breaks, To, wiring
<1>4. CASE StartPool \/ PoolDown \/ CloseDb
  BY <1>1, <1>4 DEF Served, StartPool, PoolDown, CloseDb, Live, To
<1>5. CASE Stop \/ Drained
  BY <1>1, <1>5 DEF Served, Stop, Drained, Live, To, wiring
<1> QED  BY <1>2, <1>3, <1>4, <1>5 DEF LifeStep

------------------------------------------------------------------------------
(* The handlers. *)

\* The handlers' variables keep their types.
LEMMA HandlerTyped ==
    ASSUME TypeOK, NEW c \in Calls, Request(c) \/ HandlerStep(c) \/ Cancelled(c) \/ GiveUp(c)
    PROVE  TypeOK'
<1>1. UNCHANGED <<kind, env, life, starts, wiring, stream>>
  BY HandlerFrame
<1>2. /\ call' \in [Calls -> {"off", "claim", "lease", "command", "record", "fail", "ended"}]
      /\ row' \in [Calls -> {"none", "queued", "running", "final"}] /\ stranded' \subseteq Calls
      /\ heard' \in [Calls -> {"nothing", "result", "error", "timeout"}]
  BY DEF TypeOK, Request, HandlerStep, OwnStep, Claim, Lease, CommandEnds, Record, RecordFailure, Cancelled,
         GiveUp, Raised, RowTo, CallTo, Hear
<1> QED  BY <1>1, <1>2 DEF TypeOK, wiring

\* A handler of a serving daemon ends with its row final, or by an error.
LEMMA HandlerServes ==
    ASSUME TypeOK, kind = "http", Served, NEW c \in Calls, Request(c) \/ HandlerStep(c) \/ Cancelled(c) \/ GiveUp(c)
    PROVE  Served'
<1>1. UNCHANGED <<kind, env, life, starts, wiring, stream>>
  BY HandlerFrame
<1>2. call \in [Calls -> {"off", "claim", "lease", "command", "record", "fail", "ended"}]
      /\ row \in [Calls -> {"none", "queued", "running", "final"}]
  BY DEF TypeOK
<1>3. life \in {"ready", "draining"} /\ db = "migrated"
  BY <1>2 DEF Served, Quiet, InProgress, Request, Serving, HandlerStep, OwnStep, Claim, Lease,
              CommandEnds, Record, RecordFailure, Cancelled, GiveUp
<1>4. \A d \in Calls : row'[d] = "running" => InProgress(d)' \/ d \in stranded'
  BY <1>2, <1>3 DEF Served, InProgress, Request, HandlerStep, OwnStep, Claim, Lease, CommandEnds, Record,
                    RecordFailure, Cancelled, GiveUp, Raised, RowTo, CallTo
<1> QED  BY <1>1, <1>3, <1>4 DEF Served, wiring

------------------------------------------------------------------------------
(* The theorems. *)

\* The inductive invariant holds.
LEMMA Inductive == Spec => []IndInv
<1>1. Init => IndInv
  BY DEF Init, IndInv, TypeOK, Wired, Served, Quiet, InProgress
<1>2. IndInv /\ [Next]_vars => IndInv'
  <2> SUFFICES ASSUME IndInv, [Next]_vars PROVE IndInv'
    OBVIOUS
  <2>1. CASE LifeStep
    <3>1. kind' = kind
      BY <2>1, LifeFrame
    <3> QED  BY <2>1, <3>1, LifeKeeps, LifeServes DEF IndInv
  <2>2. ASSUME NEW c \in Calls, Request(c) \/ HandlerStep(c) \/ Cancelled(c) \/ GiveUp(c)
        PROVE  IndInv'
    <3>1. UNCHANGED <<kind, life, starts, wiring>>
      BY <2>2, HandlerFrame
    <3>2. Wired'
      BY <3>1 DEF IndInv, Wired, wiring
    <3> QED  BY <2>2, <3>1, <3>2, HandlerTyped, HandlerServes DEF IndInv
  <2>3. ASSUME NEW s \in Streams, Subscribe(s) \/ Leave(s) \/ FallSilent(s)
        PROVE  IndInv'
    <3>1. UNCHANGED <<kind, env, life, starts, wiring, handlers>>
      BY <2>3, StreamFrame
    <3>2. stream' \in [Streams -> {"off", "on", "gone"}]
      BY <2>3 DEF IndInv, TypeOK, Subscribe, Leave, FallSilent
    <3> QED  BY <3>1, <3>2 DEF IndInv, TypeOK, Wired, Served, Quiet, InProgress, wiring, handlers
  <2>4. CASE UNCHANGED vars
    BY <2>4 DEF IndInv, TypeOK, Wired, Served, Quiet, InProgress, vars, wiring, handlers
  <2> QED  BY <2>1, <2>2, <2>3, <2>4 DEF Next
<1> QED  BY <1>1, <1>2, PTL DEF Spec

\* Type correctness of the life of a Forge process.
THEOREM DaemonTypeCorrect == Spec => []TypeOK
<1>1. IndInv => TypeOK
  BY DEF IndInv
<1> QED  BY <1>1, Inductive, PTL

\* Whatever failed or was cancelled at the start: what has gone down has no connection, and
\* no reaper if it never made a second pool.
THEOREM GoesDownClean == Spec => []DownIsClean
<1>1. IndInv => DownIsClean
  BY DEF IndInv, Wired, DownIsClean
<1> QED  BY <1>1, Inductive, PTL

\* Whoever gave up waiting: a daemon that has gone down has no row "running" but those whose
\* handlers an error has ended, an empty command's among them.
THEOREM SettlesRows == Spec => []RowsSettled
<1>1. IndInv => RowsSettled
  BY DEF IndInv, Served, Quiet, RowsSettled
<1> QED  BY <1>1, Inductive, PTL
===============================================================================

------------------------- MODULE ContainerPoolProofs -------------------------
(***************************************************************************)
(* Proofs about ContainerPool, for every set of clients and containers and  *)
(* every min_idle and max_size: types, the ownership of containers, and the *)
(* bounds on their number, which rest on the ownership; then its promises:  *)
(* in_use accounts for every session, the pool implements LeaseService, the *)
(* reaper spares what is leased, shutdown() leaves nothing running, and no  *)
(* container is lost on the way.                                            *)
(***************************************************************************)
EXTENDS ContainerPool, FiniteSetTheorems, SequenceTheorems, TLAPS

------------------------------------------------------------------------------
(* Sequences of containers. *)

\* A reordering of a queue has its length, its elements and its injectivity.
LEMMA OrdersProperties ==
    ASSUME NEW S, NEW q \in Seq(S), NEW t \in Orders(q)
    PROVE  /\ t \in Seq(S) /\ Len(t) = Len(q)
           /\ Range(t) \subseteq Range(q)
           /\ IsInjective(q) => IsInjective(t)
<1>1. PICK p \in Bijection(DOMAIN q, DOMAIN q) : t = [i \in DOMAIN q |-> q[p[i]]]
  BY DEF Orders
<1>2. /\ DOMAIN q = 1..Len(q) /\ Len(q) \in Nat
      /\ \A i \in 1..Len(q) : q[i] \in S
  OBVIOUS
<1>3. /\ p \in [1..Len(q) -> 1..Len(q)]
      /\ \A i, j \in 1..Len(q) : p[i] = p[j] => i = j
  BY <1>2 DEF Bijection, Injection, IsInjective
<1>4. t \in [1..Len(q) -> S]
  BY <1>1, <1>2, <1>3
<1>5. t \in Seq(S) /\ Len(t) = Len(q)
  BY <1>2, <1>4, IsASeq
<1>6. Range(t) \subseteq Range(q)
  BY <1>1, <1>2, <1>3 DEF Range
<1>7. IsInjective(q) => IsInjective(t)
  BY <1>1, <1>2, <1>3 DEF IsInjective
<1>. QED  BY <1>5, <1>6, <1>7

\* A segment of an injective queue is injective; disjoint segments share nothing.
LEMMA SegmentProperties ==
    ASSUME NEW S, NEW q \in Seq(S), NEW m \in 1..(Len(q) + 1), NEW n \in 0..Len(q), m <= n + 1
    PROVE  /\ SubSeq(q, m, n) \in Seq(S)
           /\ Len(SubSeq(q, m, n)) = n - m + 1
           /\ Range(SubSeq(q, m, n)) \subseteq Range(q)
           /\ IsInjective(q) => IsInjective(SubSeq(q, m, n))
           /\ \A i \in 1..(n - m + 1) : SubSeq(q, m, n)[i] = q[m + i - 1]
<1>1. /\ SubSeq(q, m, n) \in Seq(S)
      /\ Len(SubSeq(q, m, n)) = n - m + 1
      /\ \A i \in 1..(n - m + 1) : SubSeq(q, m, n)[i] = q[m + i - 1]
  BY SubSeqProperties
<1>2. DOMAIN SubSeq(q, m, n) = 1..(n - m + 1) /\ DOMAIN q = 1..Len(q)
  BY <1>1
<1>3. Range(SubSeq(q, m, n)) \subseteq Range(q)
  BY <1>1, <1>2 DEF Range
<1>4. IsInjective(q) => IsInjective(SubSeq(q, m, n))
  BY <1>1, <1>2 DEF IsInjective
<1>. QED  BY <1>1, <1>3, <1>4

\* The two parts of an injective queue that is cut in two share nothing.
LEMMA SplitApart ==
    ASSUME NEW S, NEW q \in Seq(S), NEW k \in 0..Len(q), IsInjective(q)
    PROVE  Range(SubSeq(q, 1, k)) \cap Range(SubSeq(q, k + 1, Len(q))) = {}
<1>. DEFINE a == SubSeq(q, 1, k)
            b == SubSeq(q, k + 1, Len(q))
<1>0. Len(q) \in Nat /\ k \in Nat /\ k <= Len(q) /\ DOMAIN q = 1..Len(q)
  OBVIOUS
<1>1. /\ a \in Seq(S) /\ Len(a) = k
      /\ \A i \in 1..k : a[i] = q[i]
  <2>1. 1 \in 1..(Len(q) + 1) /\ k \in 0..Len(q) /\ 1 <= k + 1
    BY <1>0
  <2>2. /\ a \in Seq(S) /\ Len(a) = k - 1 + 1
        /\ \A i \in 1..(k - 1 + 1) : a[i] = q[1 + i - 1]
    BY <2>1, SegmentProperties
  <2>. QED  BY <2>2, <1>0
<1>2. /\ b \in Seq(S) /\ Len(b) = Len(q) - k
      /\ \A i \in 1..(Len(q) - k) : b[i] = q[k + i]
  <2>1. k + 1 \in 1..(Len(q) + 1) /\ Len(q) \in 0..Len(q) /\ k + 1 <= Len(q) + 1
    BY <1>0
  <2>2. /\ b \in Seq(S) /\ Len(b) = Len(q) - (k + 1) + 1
        /\ \A i \in 1..(Len(q) - (k + 1) + 1) : b[i] = q[(k + 1) + i - 1]
    BY <2>1, SegmentProperties
  <2>. HIDE DEF b
  <2>3. Len(q) - (k + 1) + 1 = Len(q) - k /\ \A i \in Nat : (k + 1) + i - 1 = k + i
    BY <1>0
  <2>4. 1..(Len(q) - k) \subseteq Nat
    BY <1>0
  <2>. QED  BY <2>2, <2>3, <2>4
<1>. HIDE DEF a, b
<1>3. \A x \in Range(a) : \E i \in 1..k : x = q[i]
  BY <1>1 DEF Range
<1>4. \A x \in Range(b) : \E i \in 1..(Len(q) - k) : x = q[k + i]
  BY <1>2 DEF Range
<1>5. \A i \in 1..k, j \in 1..(Len(q) - k) : q[i] # q[k + j]
  <2>. SUFFICES ASSUME NEW i \in 1..k, NEW j \in 1..(Len(q) - k)  PROVE q[i] # q[k + j]
    OBVIOUS
  <2>1. i \in 1..Len(q) /\ k + j \in 1..Len(q) /\ i # k + j
    BY <1>0
  <2>. QED  BY <2>1, <1>0 DEF IsInjective
<1>6. Range(a) \cap Range(b) = {}
  BY <1>3, <1>4, <1>5
<1>. QED  BY <1>6 DEF a, b

\* What popping and pushing do to the elements of a queue.
LEMMA TailProperties ==
    ASSUME NEW S, NEW q \in Seq(S), q # <<>>
    PROVE  /\ Tail(q) \in Seq(S) /\ Len(Tail(q)) = Len(q) - 1 /\ Head(q) \in S
           /\ Head(q) \in Range(q) /\ Range(Tail(q)) \subseteq Range(q)
           /\ IsInjective(q) => IsInjective(Tail(q)) /\ Head(q) \notin Range(Tail(q))
<1>1. /\ Tail(q) \in Seq(S) /\ Len(Tail(q)) = Len(q) - 1 /\ Head(q) = q[1] /\ Len(q) > 0
      /\ \A i \in 1..Len(Tail(q)) : Tail(q)[i] = q[i + 1]
  OBVIOUS
<1>2. DOMAIN q = 1..Len(q) /\ DOMAIN Tail(q) = 1..(Len(q) - 1) /\ Len(q) \in Nat
  BY <1>1
<1>. QED  BY <1>1, <1>2 DEF Range, IsInjective

\* A queue of more than one entry is not empty once its head is gone.
LEMMA TailLeaves ==
    ASSUME NEW S, NEW q \in Seq(S), Len(q) > 1
    PROVE  Tail(q) # <<>>
<1>1. PICK n \in Nat : n = Len(q) /\ n > 1
  OBVIOUS
<1>2. Len(Tail(q)) = n - 1
  BY <1>1
<1>3. n - 1 # 0
  BY <1>1
<1>. QED  BY <1>2, <1>3, EmptySeq

\* What pushing does to the elements of a queue.
LEMMA AppendKeeps ==
    ASSUME NEW S, NEW q \in Seq(S), NEW e \in S
    PROVE  /\ Append(q, e) \in Seq(S) /\ Len(Append(q, e)) = Len(q) + 1
           /\ Range(Append(q, e)) = Range(q) \cup {e}
           /\ IsInjective(q) /\ e \notin Range(q) => IsInjective(Append(q, e))
<1>1. /\ Append(q, e) \in Seq(S) /\ Len(Append(q, e)) = Len(q) + 1
      /\ \A i \in 1..Len(q) : Append(q, e)[i] = q[i]
      /\ Append(q, e)[Len(q) + 1] = e
  OBVIOUS
<1>2. DOMAIN q = 1..Len(q) /\ DOMAIN Append(q, e) = 1..(Len(q) + 1) /\ Len(q) \in Nat
  BY <1>1
<1>3. Range(Append(q, e)) = Range(q) \cup {e}
  BY <1>1, <1>2 DEF Range
<1>4. IsInjective(q) /\ e \notin Range(q) => IsInjective(Append(q, e))
  BY <1>1, <1>2 DEF Range, IsInjective
<1>. QED  BY <1>1, <1>3, <1>4

\* The head of a queue moved to its end.
LEMMA RotationKeeps ==
    ASSUME NEW S, NEW q \in Seq(S), q # <<>>
    PROVE  /\ Range(Append(Tail(q), Head(q))) \subseteq Range(q)
           /\ IsInjective(q) => IsInjective(Append(Tail(q), Head(q)))
<1>1. PICK t \in Seq(S), h \in S : t = Tail(q) /\ h = Head(q)
  BY TailProperties
<1>2. /\ h \in Range(q) /\ Range(t) \subseteq Range(q)
      /\ IsInjective(q) => IsInjective(t) /\ h \notin Range(t)
  BY <1>1, TailProperties
<1>3. Range(Append(t, h)) = Range(t) \cup {h}
  BY AppendKeeps
<1>4. IsInjective(t) /\ h \notin Range(t) => IsInjective(Append(t, h))
  BY AppendKeeps
<1>. QED  BY <1>1, <1>2, <1>3, <1>4

------------------------------------------------------------------------------
(* Type correctness. *)

\* in_use is finite, so that it can be counted.
LEMMA InUseFinite ==
    ASSUME inUse \subseteq Envs \cup Clients
    PROVE  IsFiniteSet(inUse) /\ Cardinality(inUse) \in Nat
<1>1. IsFiniteSet(Envs \cup Clients)
  BY PoolAssumption, FS_Union
<1>. QED  BY <1>1, FS_Subset, FS_CardinalityType

\* One reaper pass up to its first await: what it leaves in the queue and in its piles.
LEMMA ReapSplits ==
    ASSUME TypeOK, Reap
    PROVE  \E kept \in Seq(Envs), gone \in Seq(Envs) :
             /\ Len(kept) <= KeepTarget /\ Range(kept) \subseteq Range(idle)
             /\ Len(kept) + Len(gone) = Len(idle) /\ Range(gone) \subseteq Range(idle)
             /\ IsInjective(idle) => IsInjective(kept) /\ Range(kept) \cap Range(gone) = {}
             /\ \/ Requeue(kept, gone)
                \/ \E fit \in 0..(Len(kept) - 1) :
                     /\ rpc' = "aging" /\ warmLeft' = 0 /\ dead' = gone
                     /\ idle' = Popped(kept)
                     /\ aged' = SubSeq(kept, fit + 1, Len(kept))
                     /\ survivors' = SubSeq(kept, 1, fit)
<1>. USE DEF TypeOK
<1>0. Cardinality(inUse) \in Nat /\ KeepTarget \in Nat
  BY InUseFinite, PoolAssumption DEF KeepTarget
<1>1. PICK byAge \in Orders(idle), young \in 0..Len(idle) :
          LET keep == AtMost(KeepTarget, Len(idle))
              fit  == AtMost(young, keep)
              kept == SubSeq(byAge, 1, keep)
              gone == SubSeq(byAge, keep + 1, Len(idle))
          IN  \/ fit = keep /\ Requeue(kept, gone)
              \/ /\ fit < keep
                 /\ rpc' = "aging"
                 /\ idle' = Popped(kept)
                 /\ aged' = SubSeq(kept, fit + 1, keep)
                 /\ survivors' = SubSeq(kept, 1, fit)
                 /\ dead' = gone
                 /\ warmLeft' = 0
  BY DEF Reap
<1>. DEFINE keep == AtMost(KeepTarget, Len(idle))
            fit  == AtMost(young, keep)
            kept == SubSeq(byAge, 1, keep)
            gone == SubSeq(byAge, keep + 1, Len(idle))
<1>2. /\ byAge \in Seq(Envs) /\ Len(byAge) = Len(idle)
      /\ Range(byAge) \subseteq Range(idle)
      /\ IsInjective(idle) => IsInjective(byAge)
  BY OrdersProperties
<1>3. keep \in 0..Len(idle) /\ keep <= KeepTarget /\ fit \in 0..keep
  BY <1>0 DEF AtMost
<1>. HIDE DEF keep, fit
<1>4. /\ kept \in Seq(Envs) /\ Len(kept) = keep
      /\ Range(kept) \subseteq Range(byAge)
      /\ IsInjective(byAge) => IsInjective(kept)
  <2>. HIDE DEF TypeOK, keep
  <2>1. 1 \in 1..(Len(byAge) + 1) /\ keep \in 0..Len(byAge) /\ 1 <= keep + 1
    BY <1>2, <1>3
  <2>2. byAge \in Seq(Envs)
    BY <1>2
  <2>3. /\ SubSeq(byAge, 1, keep) \in Seq(Envs) /\ Len(SubSeq(byAge, 1, keep)) = keep - 1 + 1
        /\ Range(SubSeq(byAge, 1, keep)) \subseteq Range(byAge)
        /\ IsInjective(byAge) => IsInjective(SubSeq(byAge, 1, keep))
    BY <2>1, <2>2, SegmentProperties
  <2>. QED  BY <2>1, <2>3
<1>5. /\ gone \in Seq(Envs) /\ Len(gone) = Len(idle) - keep
      /\ Range(gone) \subseteq Range(byAge)
  <2>1. /\ keep + 1 \in 1..(Len(byAge) + 1) /\ Len(idle) \in 0..Len(byAge)
        /\ keep + 1 <= Len(idle) + 1
    BY <1>2, <1>3
  <2>. HIDE DEF TypeOK, gone
  <2>2. byAge \in Seq(Envs) /\ Len(idle) \in Nat
    BY <1>2
  <2>3. /\ gone \in Seq(Envs) /\ Len(gone) = Len(idle) - (keep + 1) + 1
        /\ Range(gone) \subseteq Range(byAge)
    BY <2>1, <2>2, SegmentProperties DEF gone
  <2>. QED  BY <2>2, <2>3, <1>3
<1>d. IsInjective(byAge) => Range(kept) \cap Range(gone) = {}
  <2>. HIDE DEF TypeOK
  <2>1. byAge \in Seq(Envs) /\ keep \in 0..Len(byAge)
    BY <1>2, <1>3
  <2>2. SubSeq(byAge, keep + 1, Len(byAge)) = gone
    BY <1>2
  <2>. QED  BY <2>1, <2>2, SplitApart
<1>6. \/ Requeue(kept, gone)
      \/ \E f \in 0..(Len(kept) - 1) :
                     /\ rpc' = "aging" /\ warmLeft' = 0 /\ dead' = gone
                     /\ idle' = Popped(kept)
                     /\ aged' = SubSeq(kept, f + 1, Len(kept))
                     /\ survivors' = SubSeq(kept, 1, f)
  <2>1. CASE fit = keep /\ Requeue(kept, gone)
    BY <2>1
  <2>2. CASE /\ fit < keep
             /\ rpc' = "aging"
             /\ idle' = Popped(kept)
             /\ aged' = SubSeq(kept, fit + 1, keep)
             /\ survivors' = SubSeq(kept, 1, fit)
             /\ dead' = gone
             /\ warmLeft' = 0
    <3>1. fit \in 0..(Len(kept) - 1)
      BY <2>2, <1>3, <1>4
    <3>. QED  BY <3>1, <2>2, <1>4
  <2>. QED  BY <1>1, <2>1, <2>2 DEF keep, fit
<1>7. /\ Len(kept) <= KeepTarget /\ Range(kept) \subseteq Range(idle)
      /\ Len(kept) + Len(gone) = Len(idle) /\ Range(gone) \subseteq Range(idle)
      /\ IsInjective(idle) => IsInjective(kept) /\ Range(kept) \cap Range(gone) = {}
  <2>. HIDE DEF kept, gone
  <2>1. Len(idle) \in Nat
    OBVIOUS
  <2>2. Len(kept) + Len(gone) = Len(idle)
    BY <2>1, <1>3, <1>4, <1>5
  <2>. QED  BY <2>2, <1>2, <1>3, <1>4, <1>5, <1>d
<1>. QED  BY <1>4, <1>5, <1>6, <1>7

\* What the driver's answers do to the running containers and the fault counters.
LEMMA DriverTypes ==
    ASSUME live \subseteq Envs, faults \in [FaultKinds -> 0..MaxFaults]
    PROVE  /\ \A kind : Fault(kind) => faults' \in [FaultKinds -> 0..MaxFaults]
           /\ \A e \in Envs : Created(e) => live' \subseteq Envs /\ UNCHANGED faults
           /\ CreateRefused => faults' \in [FaultKinds -> 0..MaxFaults] /\ UNCHANGED live
           /\ \A e : Destroyed(e) => live' \subseteq Envs /\ faults' \in [FaultKinds -> 0..MaxFaults]
           /\ \A e : \A ok \in BOOLEAN :
                Probed(e, ok) => UNCHANGED live /\ faults' \in [FaultKinds -> 0..MaxFaults]
<1>1. \A kind : Fault(kind) => faults' \in [FaultKinds -> 0..MaxFaults]
  BY PoolAssumption DEF Fault
<1>. QED  BY <1>1 DEF Created, CreateRefused, Destroyed, Probed

\* The initial states are typed.
LEMMA TypeInit == ASSUME Init PROVE TypeOK /\ StageInv
BY PoolAssumption
   DEF Init, TypeOK, StageInv, ClientStates, ReaperStates, ShutdownStates, Carrying,
       Asking, Holding, Closed

\* The end of a pass leaves typed piles.
LEMMA RequeueTypes ==
    ASSUME TypeOK, NEW q \in Seq(Envs), NEW gone \in Seq(Envs), Requeue(q, gone)
    PROVE  /\ idle' = q /\ aged' = <<>> /\ survivors' = <<>> /\ dead' = gone
           /\ warmLeft' \in 0..MinIdle /\ rpc' \in {"culling", "warming", "asleep"}
           /\ rpc' = "culling" => dead' # <<>>
           /\ rpc' = "warming" => warmLeft' > 0
<1>1. Len(q) \in Nat /\ Cardinality(inUse) \in Nat
  BY InUseFinite DEF TypeOK
<1>. QED  BY <1>1, PoolAssumption DEF Requeue, Cull, TopUp, WarmNeeded

\* Every step preserves the types and the local facts of each stage.
LEMMA TypeStep ==
    ASSUME TypeOK, StageInv, [Next]_vars
    PROVE  TypeOK' /\ StageInv'
<1>. USE DEF queueVars, clientVars, driverVars, reaperVars, shutdownVars,
            Goto, GotoWith, Closed
<1>. USE DEF TypeOK, StageInv, ClientStates, ReaperStates, ShutdownStates, Carrying,
            Asking, Holding
<1>1. ASSUME NEW c \in Clients, ClientStep(c) PROVE TypeOK' /\ StageInv'
  <2>1. CASE BeginSession(c)
    BY <2>1 DEF BeginSession, Admits
  <2>2. CASE LeaseIdle(c)
    BY TailProperties, <2>2 DEF LeaseIdle, Reserve
  <2>3. CASE StartCreate(c)
    BY <2>3 DEF StartCreate, Reserve
  <2>4. CASE Enqueue(c)
    BY <2>4 DEF Enqueue
  <2>5. CASE CreateFail(c)
    BY DriverTypes, <2>5 DEF CreateFail
  <2>6. CASE HealthCheck(c)
    BY DriverTypes, <2>6 DEF HealthCheck
  <2>7. CASE CountLease(c)
    BY <2>7 DEF CountLease
  <2>8. CASE Discard(c)
    BY <2>8 DEF Discard
  <2>9. CASE Disposed(c)
    BY DriverTypes, <2>9 DEF Disposed
  <2>10. CASE Wake(c)
    BY TailProperties, AppendKeeps, <2>10 DEF Wake, PushedBack
  <2>11. CASE Timeout(c)
    BY <2>11 DEF Timeout
  <2>12. CASE EndSession(c)
    BY <2>12 DEF EndSession, ReleasePath
  <2>13. CASE ReleaseCheck(c)
    BY DriverTypes, <2>13 DEF ReleaseCheck
  <2>14. CASE Return(c)
    BY AppendKeeps, <2>14 DEF Return
  <2>15. CASE Retire(c)
    BY <2>15 DEF Retire
  <2>16. CASE Retired(c)
    BY DriverTypes, <2>16 DEF Retired
  <2>17. CASE Cancel(c)
    BY <2>17 DEF Cancel
  <2>18. ASSUME NEW e \in Envs, CreateOk(c, e) PROVE TypeOK' /\ StageInv'
    BY <2>18, DriverTypes DEF CreateOk
  <2>. QED  BY <1>1, <2>1, <2>2, <2>3, <2>4, <2>5, <2>6, <2>7, <2>8, <2>9, <2>10, <2>11, <2>12, <2>13, <2>14, <2>15, <2>16, <2>17, <2>18 DEF ClientStep
<1>2. ASSUME NEW e \in Envs, StartWarmOk(e) PROVE TypeOK' /\ StageInv'
  BY <1>2, AppendKeeps, DriverTypes, PoolAssumption DEF StartWarmOk, Warmed
<1>3. CASE StartWarmFail
  BY <1>3, DriverTypes, PoolAssumption DEF StartWarmFail
<1>4. CASE ReaperStep
  <2>1. CASE Reap
    <3>1. PICK kept \in Seq(Envs), gone \in Seq(Envs) :
             \/ Requeue(kept, gone)
             \/ \E fit \in 0..(Len(kept) - 1) :
                  /\ rpc' = "aging" /\ warmLeft' = 0 /\ dead' = gone
                  /\ idle' = Popped(kept)
                  /\ aged' = SubSeq(kept, fit + 1, Len(kept))
                  /\ survivors' = SubSeq(kept, 1, fit)
      BY <2>1, ReapSplits
    <3>2. /\ UNCHANGED <<inUse, cpc, cenv, live, faults, startLeft, hpc, victims>>
          /\ rpc = "asleep" /\ ~Closed
      BY <2>1 DEF Reap
    <3>3. CASE Requeue(kept, gone)
      <4>1. /\ idle' = kept /\ aged' = <<>> /\ survivors' = <<>> /\ dead' = gone
            /\ warmLeft' \in 0..MinIdle /\ rpc' \in {"culling", "warming", "asleep"}
            /\ rpc' = "culling" => dead' # <<>>
            /\ rpc' = "warming" => warmLeft' > 0
        BY <3>3, RequeueTypes
      <4>2. /\ idle' \in Seq(Envs) /\ aged' \in Seq(Envs) /\ survivors' \in Seq(Envs)
            /\ dead' \in Seq(Envs)
        BY <4>1
      <4>. QED  BY <3>2, <4>1, <4>2
    <3>4. ASSUME NEW fit \in 0..(Len(kept) - 1),
                 /\ rpc' = "aging" /\ warmLeft' = 0 /\ dead' = gone
                 /\ idle' = Popped(kept)
                 /\ aged' = SubSeq(kept, fit + 1, Len(kept))
                 /\ survivors' = SubSeq(kept, 1, fit)
          PROVE  TypeOK' /\ StageInv'
      <4>1. Popped(kept) \in Seq(Envs)
        BY TailProperties DEF Popped
      <4>2. aged' \in Seq(Envs) /\ Len(aged') = Len(kept) - fit
        BY <3>4, SegmentProperties
      <4>3. survivors' \in Seq(Envs)
        BY <3>4, SegmentProperties
      <4>4. aged' # <<>> /\ 0 \in 0..MinIdle
        BY <4>2, PoolAssumption
      <4>. QED  BY <3>2, <3>4, <4>1, <4>2, <4>3, <4>4
    <3>. QED  BY <3>1, <3>3, <3>4
  <2>2. CASE AgedOut
    <3>1. /\ rpc = "aging" /\ ~Closed /\ live' \subseteq Envs
          /\ faults' \in [FaultKinds -> 0..MaxFaults]
          /\ UNCHANGED <<inUse, cpc, cenv, startLeft, hpc, victims>>
      BY <2>2, DriverTypes DEF AgedOut
    <3>2. CASE Requeue(survivors, dead)
      <4>1. /\ idle' = survivors /\ aged' = <<>> /\ survivors' = <<>> /\ dead' = dead
            /\ warmLeft' \in 0..MinIdle /\ rpc' \in {"culling", "warming", "asleep"}
            /\ rpc' = "culling" => dead' # <<>>
            /\ rpc' = "warming" => warmLeft' > 0
        BY <3>2, RequeueTypes
      <4>2. /\ idle' \in Seq(Envs) /\ aged' \in Seq(Envs) /\ survivors' \in Seq(Envs)
            /\ dead' \in Seq(Envs)
        BY <4>1
      <4>. QED  BY <3>1, <4>1, <4>2
    <3>3. CASE /\ Len(aged) > 1 /\ aged' = Tail(aged) /\ idle' = Popped(idle)
               /\ UNCHANGED <<rpc, survivors, dead, warmLeft>>
      <4>1. Popped(idle) \in Seq(Envs)
        BY TailProperties DEF Popped
      <4>2. aged # <<>> /\ Tail(aged) \in Seq(Envs) /\ Len(Tail(aged)) = Len(aged) - 1
        BY <3>3, TailProperties
      <4>3. Tail(aged) # <<>>
        BY <3>3, TailLeaves
      <4>. QED  BY <3>1, <3>3, <4>1, <4>2, <4>3
    <3>. QED  BY <2>2, <3>2, <3>3 DEF AgedOut
  <2>3. CASE Culled
    <3>1. /\ live' \subseteq Envs /\ faults' \in [FaultKinds -> 0..MaxFaults]
          /\ UNCHANGED <<idle, inUse, cpc, cenv, startLeft, aged, survivors, hpc, victims>>
          /\ rpc = "culling" /\ ~Closed /\ Cull(Tail(dead), Total)
      BY <2>3, DriverTypes DEF Culled
    <3>2. Tail(dead) \in Seq(Envs) /\ Total \in Nat
      BY <3>1, TailProperties, InUseFinite DEF Total
    <3>. QED  BY <3>1, <3>2, PoolAssumption DEF Cull, TopUp, WarmNeeded
  <2>4. CASE ReaperWarmFail
    BY <2>4, DriverTypes, PoolAssumption DEF ReaperWarmFail
  <2>5. ASSUME NEW e \in Envs, ReaperWarmOk(e) PROVE TypeOK' /\ StageInv'
    <3>1. idle' \in Seq(Envs) /\ live' \subseteq Envs /\ UNCHANGED <<inUse, faults>>
      BY <2>5, AppendKeeps, DriverTypes DEF ReaperWarmOk, Warmed
    <3>2. /\ rpc = "warming" /\ warmLeft' = warmLeft - 1
          /\ rpc' = IF warmLeft > 1 THEN "warming" ELSE "asleep"
          /\ UNCHANGED <<cpc, cenv, startLeft, aged, survivors, dead, hpc, victims>>
      BY <2>5 DEF ReaperWarmOk
    <3>. QED  BY <3>1, <3>2, PoolAssumption
  <2>. QED  BY <1>4, <2>1, <2>2, <2>3, <2>4, <2>5 DEF ReaperStep
<1>5. CASE ShutdownBegin
  BY <1>5 DEF ShutdownBegin
<1>6. CASE ShutdownStep
  <2>1. CASE ReaperCancelled
    BY <2>1, PoolAssumption DEF ReaperCancelled
  <2>2. CASE DrainNext
    BY <2>2, TailProperties DEF DrainNext
  <2>3. CASE DrainEnd
    BY <2>3 DEF DrainEnd
  <2>4. CASE KillEnd
    BY <2>4 DEF KillEnd
  <2>5. ASSUME NEW e \in Envs, ShutdownDestroyed(e) PROVE TypeOK' /\ StageInv'
    BY <2>5, DriverTypes DEF ShutdownDestroyed
  <2>. QED  BY <1>6, <2>1, <2>2, <2>3, <2>4, <2>5 DEF ShutdownStep
<1>7. ASSUME NEW e \in Envs, Crash(e) PROVE TypeOK' /\ StageInv'
  BY <1>7, DriverTypes DEF Crash
<1>8. CASE UNCHANGED vars
  BY <1>8 DEF vars
<1>9. CASE Finished
  BY <1>9 DEF Finished, vars
<1>. QED  BY <1>1, <1>2, <1>3, <1>4, <1>5, <1>6, <1>7, <1>8, <1>9 DEF Next

\* TypeOK holds in every state of every instance.
THEOREM TypeCorrect == Spec => []TypeOK
<1>1. Init => TypeOK /\ StageInv
  BY TypeInit
<1>2. TypeOK /\ StageInv /\ [Next]_vars => TypeOK' /\ StageInv'
  BY TypeStep
<1>. QED  BY <1>1, <1>2, PTL DEF Spec

------------------------------------------------------------------------------
(* Ownership: a container is in the queue once or in the hands of one client.    *)

Owned == OneOwner /\ SurvivorsApart /\ SlotsCounted

\* A step after which the clients hold at most what they held and the queue at most
\* what it held.
LEMMA Keeping ==
    ASSUME Owned,
           IsInjective(idle'), Range(idle') \subseteq Range(idle),
           \A d \in Clients : HoldsSlot(d)' => HoldsSlot(d) /\ Slot(d)' = Slot(d),
           rpc' = "aging" => rpc = "aging" /\ survivors' = survivors,
           Closed' \/ /\ ~Closed
                      /\ \A d \in Clients : HoldsSlot(d)' /\ Slot(d) \in inUse => Slot(d) \in inUse'
    PROVE  Owned'
<1>1. OneOwner'
  BY DEF Owned, OneOwner
<1>2. SurvivorsApart'
  BY DEF Owned, SurvivorsApart
<1>3. SlotsCounted'
  BY DEF Owned, SlotsCounted
<1>. QED  BY <1>1, <1>2, <1>3 DEF Owned

\* A step after which client c holds a slot that nobody else had.
LEMMA Taking ==
    ASSUME Owned, NEW c \in Clients,
           IsInjective(idle'), Range(idle') \subseteq Range(idle), Slot(c)' \notin Range(idle'),
           \A d \in Clients \ {c} :
               /\ HoldsSlot(d)' <=> HoldsSlot(d)
               /\ Slot(d)' = Slot(d)
               /\ HoldsSlot(d) => Slot(d) # Slot(c)'
               /\ Slot(d) \in inUse => Slot(d) \in inUse',
           rpc' = rpc, survivors' = survivors, hpc' = hpc,
           rpc = "aging" => Slot(c)' \notin Range(survivors),
           Slot(c)' \in inUse'
    PROVE  Owned'
<1>1. OneOwner'
  BY DEF Owned, OneOwner
<1>2. SurvivorsApart'
  BY DEF Owned, SurvivorsApart
<1>3. SlotsCounted'
  BY DEF Owned, OneOwner, SlotsCounted, Closed
<1>. QED  BY <1>1, <1>2, <1>3 DEF Owned

\* A step that puts container e, which nobody holds any more, into the queue.
LEMMA Queueing ==
    ASSUME Owned, TypeOK, NEW e \in Envs,
           idle' = Append(idle, e), e \notin Range(idle),
           \A d \in Clients : HoldsSlot(d)' => HoldsSlot(d) /\ Slot(d)' = Slot(d) /\ Slot(d) # e,
           rpc' = "aging" => rpc = "aging" /\ survivors' = survivors /\ e \notin Range(survivors),
           hpc' = hpc,
           \A y \in inUse : y = e \/ y \in inUse'
    PROVE  Owned'
<1>0. IsInjective(idle') /\ Range(idle') = Range(idle) \cup {e}
  BY AppendKeeps DEF Owned, OneOwner, TypeOK
<1>1. OneOwner'
  BY <1>0 DEF Owned, OneOwner
<1>2. SurvivorsApart'
  BY <1>0 DEF Owned, SurvivorsApart
<1>3. SlotsCounted'
  BY DEF Owned, SlotsCounted, Closed
<1>. QED  BY <1>1, <1>2, <1>3 DEF Owned

\* What a fresh container is not.
LEMMA FreshProperties ==
    ASSUME TypeOK, NEW e \in Envs \ Tracked
    PROVE  /\ e \notin Range(idle) /\ e \notin Range(survivors) /\ e \notin inUse
           /\ \A d \in Clients : Slot(d) # e
<1>1. \A d \in Clients : cenv[d] \in Range(cenv)
  BY DEF TypeOK, Range
<1>2. \A d \in Clients : d # e
  BY PoolAssumption
<1>. QED  BY <1>1, <1>2 DEF Tracked, Slot

\* Nobody owns anything at first.
LEMMA OwnerInit == ASSUME Init PROVE OwnerInv
BY DEF Init, OwnerInv, OneOwner, SurvivorsApart, SlotsCounted, HoldsSlot, Holding, IsInjective, Range

\* The reaper is there from the start or never: the hypothesis on min_idle is stable.
LEMMA TameStable == ASSUME [Next]_vars, StageInv, Tame' PROVE Tame
<1>. SUFFICES ASSUME rpc' = "none" PROVE rpc = "none"
  BY DEF Tame
<1>. USE DEF reaperVars
<1>1. ASSUME NEW c \in Clients, ClientStep(c) PROVE rpc = "none"
  BY <1>1 DEF ClientStep, BeginSession, LeaseIdle, StartCreate, Enqueue, CreateOk, CreateFail,
     HealthCheck, CountLease, Discard, Disposed, Wake, Timeout, EndSession, ReleaseCheck, Return,
     Retire, Retired, Cancel
<1>2. CASE (\E e \in Envs : StartWarmOk(e)) \/ StartWarmFail
  BY <1>2 DEF StartWarmOk, StartWarmFail
<1>3. CASE ReaperStep
  BY <1>3 DEF ReaperStep, Reap, AgedOut, Culled, ReaperWarmFail, ReaperWarmOk, Requeue, Cull, TopUp
<1>4. CASE ShutdownBegin \/ ShutdownStep
  BY <1>4 DEF ShutdownBegin, ShutdownStep, ReaperCancelled, DrainNext, DrainEnd, KillEnd,
     ShutdownDestroyed
<1>5. CASE (\E e \in Envs : Crash(e)) \/ Finished \/ UNCHANGED vars
  BY <1>5 DEF Crash, Finished, vars
<1>. QED  BY <1>1, <1>2, <1>3, <1>4, <1>5 DEF Next

\* While the invariant holds, every step keeps the ownership of containers.
LEMMA OwnerStep ==
    ASSUME TypeOK, StageInv, OwnerInv, [Next]_vars
    PROVE  OwnerInv'
<1>. SUFFICES ASSUME Tame' PROVE Owned'
  BY DEF OwnerInv, Owned
<1>0. Tame /\ Owned
  BY TameStable DEF OwnerInv, Owned
<1>t. /\ idle \in Seq(Envs) /\ inUse \subseteq Envs \cup Clients
      /\ cpc \in [Clients -> ClientStates] /\ cenv \in [Clients -> Envs \cup {NoEnv}]
      /\ survivors \in Seq(Envs) /\ dead \in Seq(Envs)
  BY DEF TypeOK
<1>i. /\ IsInjective(idle)
      /\ \A c \in Clients : HoldsSlot(c) => Slot(c) \notin Range(idle)
      /\ \A c, d \in Clients : HoldsSlot(c) /\ HoldsSlot(d) /\ c # d => Slot(c) # Slot(d)
      /\ rpc = "aging" => /\ IsInjective(survivors)
                          /\ Range(survivors) \cap Range(idle) = {}
                          /\ \A c \in Clients : HoldsSlot(c) => Slot(c) \notin Range(survivors)
      /\ ~Closed => \A c \in Clients : HoldsSlot(c) => Slot(c) \in inUse
  BY <1>0 DEF Owned, OneOwner, SurvivorsApart, SlotsCounted
<1>. USE DEF queueVars, clientVars, driverVars, reaperVars, shutdownVars,
            Goto, GotoWith, Closed, Slot, HoldsSlot, Holding
<1>1. ASSUME NEW c \in Clients, ClientStep(c) PROVE Owned'
  <2>0. ASSUME BeginSession(c) \/ Enqueue(c) \/ CreateFail(c) \/ HealthCheck(c) \/ CountLease(c)
                 \/ Discard(c) \/ Disposed(c) \/ Timeout(c) \/ EndSession(c) \/ ReleaseCheck(c)
                 \/ Retire(c) \/ Retired(c) \/ Cancel(c)
        PROVE  Owned'
    <3>1. UNCHANGED <<idle, rpc, survivors, hpc>>
      BY <2>0 DEF BeginSession, Enqueue, CreateFail, HealthCheck, CountLease, Discard, Disposed,
         Timeout, EndSession, ReleaseCheck, Retire, Retired, Cancel
    <3>2. \A d \in Clients : HoldsSlot(d)' => HoldsSlot(d) /\ Slot(d)' = Slot(d)
      BY <2>0, <1>t DEF BeginSession, Enqueue, CreateFail, HealthCheck, CountLease, Discard,
         Disposed, Timeout, EndSession, ReleasePath, ReleaseCheck, Retire, Retired, Cancel
    <3>3. \A d \in Clients : HoldsSlot(d)' /\ Slot(d) \in inUse => Slot(d) \in inUse'
      <4>1. CASE UNCHANGED inUse
        BY <4>1
      <4>2. CASE CreateFail(c) \/ Discard(c) \/ Retire(c)
        <5>1. HoldsSlot(c) /\ ~HoldsSlot(c)' /\ inUse' = inUse \ {Slot(c)}
          BY <4>2, <1>t DEF CreateFail, Discard, Retire
        <5>. QED  BY <5>1, <3>2, <1>i
      <4>. QED  BY <2>0, <4>1, <4>2 DEF BeginSession, Enqueue, HealthCheck, CountLease, Disposed,
                Timeout, EndSession, ReleaseCheck, Retired, Cancel
    <3>. QED  BY <1>0, <1>i, <3>1, <3>2, <3>3, Keeping
  <2>1. CASE LeaseIdle(c)
    <3>0. idle # <<>> /\ Head(idle) \in Envs
      BY <2>1, <1>t, TailProperties DEF LeaseIdle
    <3>. PICK e \in Envs : e = Head(idle)
      BY <3>0
    <3>1. /\ Tail(idle) \in Seq(Envs) /\ e \in Range(idle)
          /\ Range(Tail(idle)) \subseteq Range(idle)
          /\ IsInjective(Tail(idle)) /\ e \notin Range(Tail(idle))
      BY <3>0, <1>t, <1>i, TailProperties
    <3>2. /\ idle' = Tail(idle) /\ inUse' = inUse \cup {e}
          /\ cpc' = [cpc EXCEPT ![c] = "checking"] /\ cenv' = [cenv EXCEPT ![c] = e]
          /\ UNCHANGED <<rpc, survivors, hpc>>
      BY <2>1 DEF LeaseIdle, Reserve
    <3>3. \A d \in Clients \ {c} : /\ HoldsSlot(d)' <=> HoldsSlot(d)
                                   /\ Slot(d)' = Slot(d)
                                   /\ HoldsSlot(d) => Slot(d) # e
                                   /\ Slot(d) \in inUse => Slot(d) \in inUse'
      BY <3>1, <3>2, <1>t, <1>i
    <3>4. Slot(c)' = e
      BY <3>2, <1>t
    <3>5. /\ IsInjective(idle') /\ Range(idle') \subseteq Range(idle) /\ e \notin Range(idle')
          /\ e \in inUse'
          /\ rpc = "aging" => e \notin Range(survivors)
      BY <3>1, <3>2, <1>i
    <3>. QED  BY <3>2, <3>3, <3>4, <3>5, <1>0, Taking
  <2>2. CASE StartCreate(c)
    <3>1. /\ inUse' = inUse \cup {c} /\ cpc' = [cpc EXCEPT ![c] = "creating"]
          /\ UNCHANGED <<idle, cenv, rpc, survivors, hpc>>
      BY <2>2 DEF StartCreate, Reserve
    <3>2. c \notin Range(idle) /\ c \notin Range(survivors)
      BY <1>t, RangeOfSeq, PoolAssumption
    <3>3. c \notin Envs /\ \A d \in Clients : cenv[d] # c
      BY <1>t, PoolAssumption
    <3>4. \A d \in Clients \ {c} : /\ HoldsSlot(d)' <=> HoldsSlot(d)
                                   /\ Slot(d)' = Slot(d)
                                   /\ HoldsSlot(d) => Slot(d) # c
                                   /\ Slot(d) \in inUse => Slot(d) \in inUse'
      BY <3>1, <3>3, <1>t
    <3>5. Slot(c)' = c
      BY <3>1, <1>t
    <3>6. IsInjective(idle') /\ Range(idle') = Range(idle) /\ c \in inUse'
      BY <3>1, <1>i
    <3>. QED  BY <3>1, <3>2, <3>4, <3>5, <3>6, <1>0, Taking
  <2>3. ASSUME NEW e \in Envs, CreateOk(c, e) PROVE Owned'
    <3>1. /\ cpc[c] = "creating" /\ inUse' = (inUse \ {c}) \cup {e}
          /\ cpc' = [cpc EXCEPT ![c] = "leased"] /\ cenv' = [cenv EXCEPT ![c] = e]
          /\ UNCHANGED <<idle, rpc, survivors, hpc>>
      BY <2>3 DEF CreateOk
    <3>2. /\ e \notin Range(idle) /\ e \notin Range(survivors)
          /\ \A d \in Clients : Slot(d) # e
      BY <2>3, FreshProperties DEF CreateOk, Created
    <3>3. \A d \in Clients \ {c} : /\ HoldsSlot(d)' <=> HoldsSlot(d)
                                   /\ Slot(d)' = Slot(d)
                                   /\ HoldsSlot(d) => Slot(d) # e
                                   /\ Slot(d) \in inUse => Slot(d) \in inUse'
      BY <3>1, <3>2, <1>t, PoolAssumption
    <3>4. Slot(c)' = e /\ Slot(c) = c /\ HoldsSlot(c)
      BY <3>1, <1>t
    <3>. QED  BY <3>1, <3>2, <3>3, <3>4, <1>0, <1>i, Taking
  <2>4. CASE Wake(c)
    <3>1. /\ idle # <<>> /\ idle' = Append(Tail(idle), Head(idle))
          /\ cpc' = [cpc EXCEPT ![c] = "wantLock"]
          /\ UNCHANGED <<inUse, cenv, rpc, survivors, hpc>>
      BY <2>4 DEF Wake, PushedBack
    <3>2. IsInjective(idle') /\ Range(idle') \subseteq Range(idle)
      BY <3>1, <1>t, <1>i, RotationKeeps
    <3>3. \A d \in Clients : HoldsSlot(d)' => HoldsSlot(d) /\ Slot(d)' = Slot(d)
      BY <3>1, <1>t
    <3>. QED  BY <3>1, <3>2, <3>3, <1>0, Keeping
  <2>5. CASE Return(c)
    <3>1. /\ cpc[c] = "returning" /\ cenv[c] \in Envs /\ idle' = Append(idle, cenv[c])
          /\ inUse' = inUse \ {cenv[c]} /\ cpc' = [cpc EXCEPT ![c] = "out"]
          /\ cenv' = [cenv EXCEPT ![c] = NoEnv] /\ UNCHANGED <<rpc, survivors, hpc>>
      BY <2>5 DEF Return, StageInv, Carrying
    <3>2. HoldsSlot(c) /\ Slot(c) = cenv[c] /\ ~HoldsSlot(c)'
      BY <3>1, <1>t
    <3>3. \A d \in Clients : HoldsSlot(d)' => HoldsSlot(d) /\ Slot(d)' = Slot(d) /\ Slot(d) # cenv[c]
      BY <3>1, <3>2, <1>t, <1>i
    <3>4. cenv[c] \notin Range(idle) /\ (rpc = "aging" => cenv[c] \notin Range(survivors))
      BY <3>2, <1>i
    <3>. QED  BY <3>1, <3>3, <3>4, <1>0, Queueing
  <2>. QED  BY <1>1, <2>0, <2>1, <2>2, <2>3, <2>4, <2>5 DEF ClientStep
<1>2. ASSUME NEW e \in Envs, StartWarmOk(e) \/ ReaperWarmOk(e) PROVE Owned'
  <2>1. /\ idle' = Append(idle, e) /\ e \in Envs \ Tracked
        /\ UNCHANGED <<inUse, cpc, cenv, survivors, hpc>> /\ (rpc' = "aging" => rpc = "aging")
    BY <1>2 DEF StartWarmOk, ReaperWarmOk, Warmed, Created
  <2>2. \A d \in Clients : HoldsSlot(d)' => HoldsSlot(d) /\ Slot(d)' = Slot(d) /\ Slot(d) # e
    BY <2>1, FreshProperties
  <2>3. e \notin Range(idle) /\ e \notin Range(survivors)
    BY <2>1, FreshProperties
  <2>. QED  BY <2>1, <2>2, <2>3, <1>0, Queueing
<1>3. CASE Reap
  <2>1. PICK kept \in Seq(Envs), gone \in Seq(Envs) :
             /\ Len(kept) <= KeepTarget /\ Range(kept) \subseteq Range(idle)
             /\ IsInjective(idle) => IsInjective(kept)
             /\ \/ Requeue(kept, gone)
                \/ \E fit \in 0..(Len(kept) - 1) :
                     /\ rpc' = "aging" /\ warmLeft' = 0 /\ dead' = gone
                     /\ idle' = Popped(kept)
                     /\ aged' = SubSeq(kept, fit + 1, Len(kept))
                     /\ survivors' = SubSeq(kept, 1, fit)
    BY <1>3, ReapSplits
  <2>2. UNCHANGED <<inUse, cpc, cenv, hpc>>
    BY <1>3 DEF Reap
  <2>3. \A d \in Clients : HoldsSlot(d)' = HoldsSlot(d) /\ Slot(d)' = Slot(d)
    BY <2>2
  <2>4. CASE Requeue(kept, gone)
    <3>1. idle' = kept /\ rpc' # "aging"
      BY <2>4 DEF Requeue, Cull, TopUp
    <3>. QED  BY <2>1, <2>2, <2>3, <3>1, <1>0, <1>i, Keeping
  <2>5. ASSUME NEW fit \in 0..(Len(kept) - 1),
               /\ rpc' = "aging" /\ idle' = Popped(kept)
               /\ survivors' = SubSeq(kept, 1, fit)
        PROVE  Owned'
    <3>1. Len(kept) \in Nat /\ kept # <<>> /\ fit \in 0..1 /\ fit <= Len(kept)
      <4>1. MinIdle <= 2 /\ MinIdle \in Nat
        BY <2>5, PoolAssumption DEF Tame
      <4>2. KeepTarget <= 2
        BY <4>1, <1>t, InUseFinite DEF KeepTarget
      <4>3. Len(kept) \in Nat /\ Len(kept) <= 2 /\ Len(kept) > 0
        <5>1. Len(kept) \in Nat /\ KeepTarget \in Int
          BY <4>1, <1>t, InUseFinite DEF KeepTarget
        <5>. QED  BY <5>1, <4>2, <2>1
      <4>. QED  BY <4>3, EmptySeq
    <3>2. idle' = Tail(kept) /\ IsInjective(idle') /\ Range(idle') \subseteq Range(kept)
          /\ Head(kept) \notin Range(idle')
      BY <2>5, <3>1, <2>1, <1>i, TailProperties DEF Popped
    <3>3. /\ IsInjective(survivors') /\ Range(survivors') \subseteq Range(kept)
          /\ Range(survivors') \subseteq {Head(kept)}
      <4>1. /\ Len(survivors') = fit /\ survivors' \in Seq(Envs)
            /\ Range(survivors') \subseteq Range(kept) /\ IsInjective(survivors')
            /\ \A i \in 1..fit : survivors'[i] = kept[i]
        <5>1. 1 \in 1..(Len(kept) + 1) /\ fit \in 0..Len(kept) /\ 1 <= fit + 1
          BY <3>1
        <5>. QED  BY <5>1, <2>5, <2>1, <1>i, SegmentProperties
      <4>2. Range(survivors') \subseteq {kept[1]}
        BY <4>1, <3>1 DEF Range
      <4>3. Head(kept) = kept[1]
        BY <3>1
      <4>. QED  BY <4>1, <4>2, <4>3
    <3>4. OneOwner'
      BY <3>2, <2>1, <2>2, <2>3, <1>i DEF OneOwner
    <3>5. SurvivorsApart'
      BY <3>2, <3>3, <2>1, <2>3, <1>i DEF SurvivorsApart
    <3>6. SlotsCounted'
      BY <2>2, <2>3, <1>i DEF SlotsCounted
    <3>. QED  BY <3>4, <3>5, <3>6 DEF Owned
  <2>. QED  BY <2>1, <2>4, <2>5
<1>4. CASE AgedOut
  <2>1. rpc = "aging" /\ UNCHANGED <<inUse, cpc, cenv, hpc>>
    BY <1>4 DEF AgedOut
  <2>2. \A d \in Clients : HoldsSlot(d)' = HoldsSlot(d) /\ Slot(d)' = Slot(d)
    BY <2>1
  <2>3. CASE idle' = Popped(idle) /\ UNCHANGED <<rpc, survivors>>
    <3>1. IsInjective(idle') /\ Range(idle') \subseteq Range(idle)
      BY <2>3, <1>t, <1>i, TailProperties DEF Popped
    <3>. QED  BY <3>1, <2>1, <2>2, <2>3, <1>0, Keeping
  <2>4. CASE Requeue(survivors, dead)
    <3>1. idle' = survivors /\ rpc' # "aging"
      BY <2>4 DEF Requeue, Cull, TopUp
    <3>2. OneOwner'
      BY <3>1, <2>1, <2>2, <1>i DEF OneOwner
    <3>3. SurvivorsApart' /\ SlotsCounted'
      BY <3>1, <2>1, <2>2, <1>i DEF SurvivorsApart, SlotsCounted
    <3>. QED  BY <3>2, <3>3 DEF Owned
  <2>. QED  BY <1>4, <2>3, <2>4 DEF AgedOut
<1>5. ASSUME \/ StartWarmFail \/ Culled \/ ReaperWarmFail \/ ShutdownBegin \/ ShutdownStep
             \/ (\E e \in Envs : Crash(e)) \/ Finished \/ UNCHANGED vars
      PROVE  Owned'
  <2>1. UNCHANGED <<cpc, cenv>> /\ (Closed' \/ (~Closed /\ UNCHANGED inUse))
    BY <1>5 DEF StartWarmFail, Culled, ReaperWarmFail, ShutdownBegin, ShutdownStep, ReaperCancelled,
       DrainNext, DrainEnd, KillEnd, ShutdownDestroyed, Crash, Finished, vars
  <2>2. (rpc' = "aging" => rpc = "aging" /\ survivors' = survivors)
    BY <1>5 DEF StartWarmFail, Culled, ReaperWarmFail, ShutdownBegin, ShutdownStep, ReaperCancelled,
       DrainNext, DrainEnd, KillEnd, ShutdownDestroyed, Crash, Finished, vars, Cull, TopUp
  <2>3. idle' = idle \/ (idle # <<>> /\ idle' = Tail(idle))
    BY <1>5 DEF StartWarmFail, Culled, ReaperWarmFail, ShutdownBegin, ShutdownStep, ReaperCancelled,
       DrainNext, DrainEnd, KillEnd, ShutdownDestroyed, Crash, Finished, vars
  <2>4. IsInjective(idle') /\ Range(idle') \subseteq Range(idle)
    <3>1. CASE idle' = idle
      BY <3>1, <1>i
    <3>2. CASE idle # <<>> /\ idle' = Tail(idle)
      BY <3>2, <1>t, <1>i, TailProperties
    <3>. QED  BY <2>3, <3>1, <3>2
  <2>5. \A d \in Clients : HoldsSlot(d)' = HoldsSlot(d) /\ Slot(d)' = Slot(d)
    BY <2>1
  <2>. QED  BY <2>1, <2>2, <2>4, <2>5, <1>0, Keeping
<1>. QED  BY <1>1, <1>2, <1>3, <1>4, <1>5 DEF Next, ReaperStep

\* No two clients ever hold one container, and none is idle while it is held: for every
\* max_size, every number of clients and containers and every failure, if min_idle <= 2.
THEOREM Exclusive == ASSUME MinIdle <= 2 PROVE Spec => []OneOwner
<1>1. Init => TypeOK /\ StageInv /\ OwnerInv
  BY TypeInit, OwnerInit
<1>2. TypeOK /\ StageInv /\ OwnerInv /\ [Next]_vars => TypeOK' /\ StageInv' /\ OwnerInv'
  BY TypeStep, OwnerStep
<1>3. OwnerInv => OneOwner
  BY DEF OwnerInv, Tame
<1>. QED  BY <1>1, <1>2, <1>3, PTL DEF Spec

------------------------------------------------------------------------------
(* Counting: a slot that is given back was counted, since it was owned.         *)

Counted ==
    /\ Total + Claimed <= MaxSize + MinIdle
    /\ rpc = "aging" => /\ Len(survivors) < MinIdle
                        /\ Total + Claimed < MaxSize + MinIdle
    /\ rpc = "none" => Total <= MaxSize

\* A set of slots is finite, so that it can be counted.
LEMMA Sizes ==
    ASSUME NEW S \in SUBSET (Envs \cup Clients)
    PROVE  IsFiniteSet(S) /\ Cardinality(S) \in Nat
<1>1. IsFiniteSet(Envs \cup Clients)
  BY PoolAssumption, FS_Union
<1>2. IsFiniteSet(S)
  BY <1>1, FS_Subset
<1>. QED  BY <1>2, FS_CardinalityType

\* One slot more or less changes the size of a set of slots by one at most.
LEMMA Lengths ==
    ASSUME NEW S \in SUBSET (Envs \cup Clients), NEW x
    PROVE  /\ Cardinality(S \cup {x}) <= Cardinality(S) + 1
           /\ Cardinality(S \ {x}) = IF x \in S THEN Cardinality(S) - 1 ELSE Cardinality(S)
           /\ Cardinality(S \ {x}) <= Cardinality(S)
<1>1. IsFiniteSet(S) /\ Cardinality(S) \in Nat
  BY Sizes
<1>2. Cardinality(S \cup {x}) <= Cardinality(S) + 1
  <2>1. Cardinality(S \cup {x}) = IF x \in S THEN Cardinality(S) ELSE Cardinality(S) + 1
    BY <1>1, FS_AddElement
  <2>. QED  BY <1>1, <2>1
<1>3. Cardinality(S \ {x}) = IF x \in S THEN Cardinality(S) - 1 ELSE Cardinality(S)
  BY <1>1, FS_RemoveElement
<1>. QED  BY <1>1, <1>2, <1>3

\* What is counted are numbers.
LEMMA Numbers ==
    ASSUME TypeOK
    PROVE  /\ Len(idle) \in Nat /\ Cardinality(inUse) \in Nat /\ Total \in Nat
           /\ Len(survivors) \in Nat /\ Claimed \in Nat
           /\ startLeft \in 0..MinIdle /\ warmLeft \in 0..MinIdle
           /\ MinIdle \in Nat /\ MaxSize \in Nat /\ MinIdle <= MaxSize
<1>1. /\ Len(idle) \in Nat /\ Len(survivors) \in Nat
      /\ startLeft \in 0..MinIdle /\ warmLeft \in 0..MinIdle
      /\ inUse \in SUBSET (Envs \cup Clients)
  BY DEF TypeOK
<1>2. Cardinality(inUse) \in Nat
  BY <1>1, Sizes
<1>. QED  BY <1>1, <1>2, PoolAssumption DEF Total, Claimed

\* The same of the next state.
LEMMA NumbersNext ==
    ASSUME TypeOK'
    PROVE  /\ Len(idle') \in Nat /\ Cardinality(inUse') \in Nat /\ Total' \in Nat
           /\ Len(survivors') \in Nat /\ Claimed' \in Nat
           /\ startLeft' \in 0..MinIdle /\ warmLeft' \in 0..MinIdle
<1>1. /\ Len(idle') \in Nat /\ Len(survivors') \in Nat
      /\ startLeft' \in 0..MinIdle /\ warmLeft' \in 0..MinIdle
      /\ inUse' \in SUBSET (Envs \cup Clients)
  BY DEF TypeOK
<1>2. Cardinality(inUse') \in Nat
  BY <1>1, Sizes
<1>3. Total' \in Nat
  BY <1>1, <1>2 DEF Total
<1>4. Claimed' \in Nat
  <2>1. Claimed' = startLeft' \/ Claimed' = startLeft' + warmLeft'
    BY DEF Claimed
  <2>. QED  BY <2>1, <1>1, PoolAssumption
<1>. QED  BY <1>1, <1>2, <1>3, <1>4

\* Arithmetic, away from the sequences of the model.
LEMMA Sums == \A i, j \in Nat : i + j \in Nat
OBVIOUS

\* A strict and a weak inequality add up.
LEMMA SumsKeepOrder ==
    \A i, j, k, l \in Nat : i < j /\ l <= k => i + l < k + j /\ i + l <= k + j
OBVIOUS

\* Inequalities chain.
LEMMA Chained ==
    \A i, j, k \in Nat : i <= j => (j <= k => i <= k) /\ (j < k => i < k)
OBVIOUS

\* A step that adds nothing to what is counted or claimed.
LEMMA NoMore ==
    ASSUME TypeOK, TypeOK', Counted,
           Total' + Claimed' <= Total + Claimed,
           rpc' = "aging" => rpc = "aging" /\ survivors' = survivors,
           rpc' = "none" => rpc = "none" /\ Total' <= Total
    PROVE  Counted'
<1>1. /\ Total \in Nat /\ Claimed \in Nat /\ Total' \in Nat /\ Claimed' \in Nat
      /\ MinIdle \in Nat /\ MaxSize \in Nat
  BY Numbers, NumbersNext
<1>s. /\ Total + Claimed \in Nat /\ Total' + Claimed' \in Nat
      /\ MaxSize + MinIdle \in Nat
  BY <1>1, Sums
<1>2. Total' + Claimed' <= MaxSize + MinIdle
  BY <1>1, <1>s, Chained DEF Counted
<1>3. ASSUME rpc' = "aging"
      PROVE  Len(survivors') < MinIdle /\ Total' + Claimed' < MaxSize + MinIdle
  BY <1>s, <1>3, Chained DEF Counted
<1>4. ASSUME rpc' = "none" PROVE Total' <= MaxSize
  BY <1>1, <1>4, Chained DEF Counted
<1>. QED  BY <1>2, <1>3, <1>4 DEF Counted

\* The end of a pass: with room for min_idle more, the room it claims is there.
LEMMA CullCounts ==
    ASSUME TypeOK, TypeOK', NEW gone, NEW n, n = Total', Cull(gone, n),
           Total' + startLeft' <= MaxSize + MinIdle
    PROVE  Counted'
<1>1. /\ n \in Nat /\ Total' = n /\ startLeft' \in 0..MinIdle
      /\ MinIdle \in Nat /\ MaxSize \in Nat /\ MinIdle <= MaxSize
  BY Numbers, NumbersNext
<1>2. CASE gone # <<>>
  <2>1. rpc' = "culling"
    BY <1>2 DEF Cull
  <2>2. Claimed' = startLeft'
    BY <1>1, <2>1 DEF Claimed
  <2>. QED  BY <1>1, <2>1, <2>2 DEF Counted
<1>3. CASE gone = <<>> /\ n < MinIdle
  <2>1. rpc' = "warming" /\ warmLeft' = MinIdle - n
    BY <1>1, <1>3 DEF Cull, TopUp, WarmNeeded
  <2>2. Claimed' = startLeft' + (MinIdle - n)
    BY <2>1 DEF Claimed
  <2>. QED  BY <1>1, <2>1, <2>2 DEF Counted
<1>4. CASE gone = <<>> /\ ~(n < MinIdle)
  <2>1. rpc' = "asleep"
    BY <1>1, <1>4 DEF Cull, TopUp, WarmNeeded
  <2>2. Claimed' = startLeft'
    BY <1>1, <2>1 DEF Claimed
  <2>. QED  BY <1>1, <2>1, <2>2 DEF Counted
<1>. QED  BY <1>2, <1>3, <1>4

\* An empty pool, with start() about to warm min_idle containers, keeps the bounds.
LEMMA CountInit == ASSUME Init PROVE CountInv
<1>1. Total = 0 /\ Claimed \in 0..MinIdle
  BY PoolAssumption, FS_EmptySet DEF Init, Total, Claimed
<1>. QED  BY <1>1, PoolAssumption DEF CountInv, Init

\* Steps of a client.
LEMMA CountClient ==
    ASSUME TypeOK, TypeOK', StageInv, SlotsCounted, Counted, ~Closed,
           NEW c \in Clients, ClientStep(c)
    PROVE  Counted'
<1>n. /\ Len(idle) \in Nat /\ Cardinality(inUse) \in Nat
      /\ MinIdle \in Nat /\ MaxSize \in Nat /\ MinIdle <= MaxSize
      /\ startLeft \in 0..MinIdle /\ warmLeft \in 0..MinIdle
  BY Numbers
<1>t. /\ idle \in Seq(Envs) /\ inUse \in SUBSET (Envs \cup Clients)
      /\ cpc \in [Clients -> ClientStates]
  BY DEF TypeOK
<1>. USE DEF queueVars, clientVars, driverVars, reaperVars, shutdownVars, Goto, GotoWith
<1>0. UNCHANGED <<rpc, survivors, startLeft, warmLeft>> /\ Claimed' = Claimed
  BY DEF ClientStep, BeginSession, LeaseIdle, StartCreate, Enqueue, CreateOk, CreateFail,
     HealthCheck, CountLease, Discard, Disposed, Wake, Timeout, EndSession, ReleaseCheck, Return,
     Retire, Retired, Cancel, Claimed
<1>1. CASE StartCreate(c)
  <2>1. Total < MaxSize /\ UNCHANGED idle /\ inUse' = inUse \cup {c} /\ cpc[c] = "wantLock"
    BY <1>1 DEF StartCreate, HasRoom, Reserve
  <2>2. Total' <= Total + 1
    <3>1. Cardinality(inUse') <= Cardinality(inUse) + 1
      BY <2>1, <1>t, Lengths
    <3>. QED  BY <2>1, <3>1, <1>n, NumbersNext DEF Total
  <2>3. startLeft = 0
    BY <2>1, <1>n DEF StageInv
  <2>4. Total' + Claimed' <= MaxSize + MinIdle
    BY <1>0, <2>1, <2>2, <2>3, <1>n, Numbers, NumbersNext DEF Claimed
  <2>5. rpc = "aging" => Total' + Claimed' < MaxSize + MinIdle /\ Len(survivors) < MinIdle
    <3>1. Claimed' = 0 \/ rpc # "aging"
      BY <1>0, <2>3 DEF Claimed
    <3>2. rpc = "aging" => Len(survivors) < MinIdle
      BY DEF Counted
    <3>. QED  BY <3>1, <3>2, <2>1, <2>2, <1>n, Numbers, NumbersNext
  <2>. QED  BY <1>0, <2>1, <2>2, <2>4, <2>5, <1>n, Numbers, NumbersNext DEF Counted
<1>2. ASSUME Total' <= Total PROVE Counted'
  BY <1>0, <1>2, Numbers, NumbersNext, NoMore
<1>3. CASE UNCHANGED <<idle, inUse>>
  BY <1>2, <1>3, Numbers DEF Total
<1>4. CASE CreateFail(c) \/ Discard(c) \/ Retire(c)
  <2>1. UNCHANGED idle /\ \E x : inUse' = inUse \ {x}
    BY <1>4 DEF CreateFail, Discard, Retire
  <2>2. Cardinality(inUse') <= Cardinality(inUse)
    BY <2>1, <1>t, Lengths
  <2>. QED  BY <2>1, <2>2, <1>n, <1>2, NumbersNext DEF Total
<1>5. CASE LeaseIdle(c)
  <2>1. idle # <<>> /\ idle' = Tail(idle) /\ inUse' = inUse \cup {Head(idle)}
    BY <1>5 DEF LeaseIdle, Reserve
  <2>2. Len(idle') = Len(idle) - 1
    BY <2>1, <1>t, TailProperties
  <2>3. Cardinality(inUse') <= Cardinality(inUse) + 1
    BY <2>1, <1>t, Lengths
  <2>. QED  BY <2>2, <2>3, <1>n, <1>2, NumbersNext DEF Total
<1>6. ASSUME NEW e \in Envs, CreateOk(c, e) PROVE Counted'
  <2>1. cpc[c] = "creating" /\ UNCHANGED idle /\ inUse' = (inUse \ {c}) \cup {e}
    BY <1>6 DEF CreateOk
  <2>2. c \in inUse
    BY <2>1 DEF SlotsCounted, HoldsSlot, Slot
  <2>3. Cardinality(inUse \ {c}) = Cardinality(inUse) - 1
    BY <2>2, <1>t, Lengths
  <2>4. Cardinality(inUse') <= Cardinality(inUse \ {c}) + 1
    BY <2>1, <1>t, Lengths
  <2>. QED  BY <2>1, <2>3, <2>4, <1>n, <1>2, NumbersNext DEF Total
<1>7. CASE Wake(c)
  <2>1. idle # <<>> /\ idle' = Append(Tail(idle), Head(idle)) /\ UNCHANGED inUse
    BY <1>7 DEF Wake, PushedBack
  <2>2. Len(idle') = Len(idle)
    BY <2>1, <1>t, TailProperties, AppendKeeps
  <2>. QED  BY <2>1, <2>2, <1>n, <1>2 DEF Total
<1>8. CASE Return(c)
  <2>1. /\ cpc[c] = "returning" /\ cenv[c] \in Envs
        /\ idle' = Append(idle, cenv[c]) /\ inUse' = inUse \ {cenv[c]}
    BY <1>8 DEF Return, StageInv, Carrying, Holding
  <2>2. cenv[c] \in inUse
    BY <2>1 DEF SlotsCounted, HoldsSlot, Slot, Holding
  <2>3. Len(idle') = Len(idle) + 1
    BY <2>1, <1>t, AppendKeeps
  <2>4. Cardinality(inUse') = Cardinality(inUse) - 1
    BY <2>1, <2>2, <1>t, Lengths
  <2>. QED  BY <2>3, <2>4, <1>n, <1>2 DEF Total
<1>. QED  BY <1>1, <1>3, <1>4, <1>5, <1>6, <1>7, <1>8 DEF ClientStep, BeginSession, Enqueue,
            HealthCheck, CountLease, Disposed, Timeout, EndSession, ReleaseCheck, Retired, Cancel

\* While the ownership of containers holds, every step keeps the count.
LEMMA CountStep ==
    ASSUME TypeOK, StageInv, OwnerInv, CountInv, [Next]_vars
    PROVE  CountInv'
<1>. SUFFICES ASSUME Tame', ~Closed' PROVE Counted'
  BY DEF CountInv, Counted
<1>1. TypeOK' /\ Tame
  BY TypeStep, TameStable
<1>2. ~Closed
  BY DEF Next, ClientStep, BeginSession, LeaseIdle, StartCreate, Enqueue, CreateOk, CreateFail,
     HealthCheck, CountLease, Discard, Disposed, Wake, Timeout, EndSession, ReleaseCheck, Return,
     Retire, Retired, Cancel, StartWarmOk, StartWarmFail, ReaperStep, Reap, AgedOut, Culled,
     ReaperWarmOk, ReaperWarmFail, ShutdownBegin, ShutdownStep, ReaperCancelled, DrainNext,
     DrainEnd, KillEnd, ShutdownDestroyed, Crash, Finished, vars, Closed, shutdownVars
<1>3. Counted /\ SlotsCounted
  BY <1>1, <1>2 DEF CountInv, Counted, OwnerInv
<1>n. /\ Len(idle) \in Nat /\ Cardinality(inUse) \in Nat /\ Len(survivors) \in Nat
      /\ MinIdle \in Nat /\ MaxSize \in Nat /\ MinIdle <= MaxSize
      /\ startLeft \in 0..MinIdle /\ warmLeft \in 0..MinIdle
  BY Numbers
<1>t. idle \in Seq(Envs) /\ inUse \in SUBSET (Envs \cup Clients)
  BY DEF TypeOK
<1>. USE DEF queueVars, clientVars, driverVars, reaperVars, shutdownVars
<1>4. ASSUME NEW c \in Clients, ClientStep(c) PROVE Counted'
  BY <1>1, <1>2, <1>3, <1>4, CountClient
<1>5. ASSUME NEW e \in Envs, StartWarmOk(e) PROVE Counted'
  <2>1. /\ startLeft > 0 /\ startLeft' = startLeft - 1 /\ idle' = Append(idle, e)
        /\ UNCHANGED <<inUse, rpc, survivors, warmLeft>>
    BY <1>5 DEF StartWarmOk, Warmed
  <2>2. rpc # "none" /\ Len(idle') = Len(idle) + 1
    BY <2>1, <1>n, <1>t, AppendKeeps DEF StageInv
  <2>3. Total' = Total + 1 /\ Claimed' = Claimed - 1
    BY <2>1, <2>2, <1>n DEF Total, Claimed
  <2>4. Total' + Claimed' <= Total + Claimed
    BY <2>3, Numbers
  <2>. QED  BY <1>1, <1>3, <2>1, <2>2, <2>4, NoMore
<1>6. ASSUME NEW e \in Envs, ReaperWarmOk(e) PROVE Counted'
  <2>1. /\ rpc = "warming" /\ warmLeft > 0 /\ warmLeft' = warmLeft - 1
        /\ rpc' = IF warmLeft > 1 THEN "warming" ELSE "asleep"
        /\ idle' = Append(idle, e) /\ UNCHANGED <<inUse, startLeft>>
    BY <1>6 DEF ReaperWarmOk, Warmed, StageInv
  <2>2. Total' = Total + 1
    BY <2>1, <1>n, <1>t, AppendKeeps DEF Total
  <2>3. Claimed = startLeft + warmLeft
    BY <2>1 DEF Claimed
  <2>4. Claimed' = startLeft + warmLeft - 1
    BY <2>1, <1>n DEF Claimed
  <2>5. rpc' \notin {"aging", "none"}
    BY <2>1
  <2>. QED  BY <1>1, <1>3, <1>n, <2>2, <2>3, <2>4, <2>5, Numbers, NoMore
<1>7. CASE Culled
  <2>1. /\ Cull(Tail(dead), Total) /\ UNCHANGED <<idle, inUse, startLeft>>
    BY <1>7 DEF Culled
  <2>2. Total' = Total
    BY <2>1 DEF Total
  <2>3. Total + startLeft <= MaxSize + MinIdle
    BY <1>3, <1>n, Numbers DEF Counted, Claimed
  <2>. QED  BY <1>1, <2>1, <2>2, <2>3, CullCounts
<1>8. CASE Reap
  <2>1. PICK kept \in Seq(Envs), gone \in Seq(Envs) :
             /\ Len(kept) <= KeepTarget
             /\ \/ Requeue(kept, gone)
                \/ \E fit \in 0..(Len(kept) - 1) :
                     rpc' = "aging" /\ idle' = Popped(kept) /\ survivors' = SubSeq(kept, 1, fit)
    BY <1>8, ReapSplits
  <2>2. UNCHANGED <<inUse, startLeft>>
    BY <1>8 DEF Reap
  <2>3. /\ Len(kept) \in Nat
        /\ \/ Len(kept) = 0
           \/ Len(kept) + Cardinality(inUse) <= MinIdle
    BY <2>1, <1>n DEF KeepTarget
  <2>4. Cardinality(inUse) + startLeft <= MaxSize + MinIdle
    BY <1>3, <1>n DEF Counted, Claimed, Total
  <2>5. CASE Requeue(kept, gone)
    <3>1. idle' = kept /\ Cull(gone, Len(kept) + Cardinality(inUse))
      BY <2>5 DEF Requeue
    <3>2. Total' = Len(kept) + Cardinality(inUse)
      BY <3>1, <2>2 DEF Total
    <3>3. Total' + startLeft' <= MaxSize + MinIdle
      BY <3>2, <2>2, <2>3, <2>4, <1>n
    <3>. QED  BY <1>1, <3>1, <3>2, <3>3, CullCounts
  <2>6. ASSUME NEW fit \in 0..(Len(kept) - 1),
               rpc' = "aging", idle' = Popped(kept), survivors' = SubSeq(kept, 1, fit)
        PROVE  Counted'
    <3>1. Len(kept) > 0 /\ kept # <<>> /\ Len(kept) + Cardinality(inUse) <= MinIdle
      BY <2>3, <2>6
    <3>2. Len(idle') = Len(kept) - 1
      BY <2>6, <3>1, TailProperties DEF Popped
    <3>3. Len(survivors') = fit
      BY <2>3, <2>6, SegmentProperties
    <3>4. Total' < MinIdle /\ Claimed' = startLeft
      BY <3>1, <3>2, <2>2, <2>3, <2>6, <1>n DEF Total, Claimed
    <3>5. fit < MinIdle
      BY <3>1, <2>3, <1>n
    <3>6. Total' + startLeft < MaxSize + MinIdle /\ Total' + startLeft <= MaxSize + MinIdle
      <4>1. Total' \in Nat /\ Total' < MinIdle /\ startLeft \in Nat /\ startLeft <= MaxSize
        BY <3>4, <1>1, <1>n, NumbersNext
      <4>. QED  BY <4>1, <1>n, SumsKeepOrder
    <3>7. Len(survivors') < MinIdle /\ rpc' # "none"
      BY <2>6, <3>3, <3>5
    <3>. QED  BY <3>4, <3>6, <3>7 DEF Counted
  <2>. QED  BY <2>1, <2>5, <2>6
<1>9. CASE AgedOut
  <2>1. rpc = "aging" /\ UNCHANGED <<inUse, startLeft>>
    BY <1>9 DEF AgedOut
  <2>2. CASE idle' = Popped(idle) /\ UNCHANGED <<rpc, survivors, warmLeft>>
    <3>1. Len(idle') <= Len(idle)
      BY <2>2, <1>n, <1>t, TailProperties DEF Popped
    <3>2. Total' <= Total
      BY <3>1, <2>1, <1>n, NumbersNext, <1>1 DEF Total
    <3>3. Claimed' = Claimed
      BY <2>1, <2>2 DEF Claimed
    <3>. QED  BY <1>1, <1>3, <2>1, <2>2, <3>2, <3>3, Numbers, NumbersNext, NoMore
  <2>3. CASE Requeue(survivors, dead)
    <3>1. idle' = survivors /\ Cull(dead, Len(survivors) + Cardinality(inUse))
      BY <2>3 DEF Requeue
    <3>2. Total' = Len(survivors) + Cardinality(inUse)
      BY <3>1, <2>1 DEF Total
    <3>3. Len(survivors) <= 1 /\ Claimed = startLeft /\ Total + Claimed < MaxSize + MinIdle
      BY <1>1, <1>3, <2>1, <1>n DEF Counted, Tame, Claimed
    <3>4. Total' + startLeft' <= MaxSize + MinIdle
      BY <3>2, <3>3, <2>1, <1>n DEF Total
    <3>. QED  BY <1>1, <3>1, <3>2, <3>4, CullCounts
  <2>. QED  BY <1>9, <2>2, <2>3 DEF AgedOut
<1>10. CASE StartWarmFail
  <2>1. startLeft' = 0 /\ UNCHANGED <<idle, inUse, rpc, survivors, warmLeft>>
    BY <1>10 DEF StartWarmFail
  <2>2. Total' = Total /\ Claimed' <= Claimed
    BY <2>1, <1>n DEF Total, Claimed
  <2>. QED  BY <1>1, <1>3, <2>1, <2>2, Numbers, NumbersNext, NoMore
<1>11. CASE ReaperWarmFail
  <2>1. rpc' = "asleep" /\ rpc = "warming" /\ UNCHANGED <<idle, inUse, startLeft>>
    BY <1>11 DEF ReaperWarmFail
  <2>2. Total' = Total /\ Claimed' <= Claimed
    BY <2>1, <1>n DEF Total, Claimed
  <2>. QED  BY <1>1, <1>3, <2>1, <2>2, Numbers, NumbersNext, NoMore
<1>12. ASSUME ShutdownStep \/ (\E e \in Envs : Crash(e)) \/ Finished \/ UNCHANGED vars
       PROVE  Counted'
  <2>1. UNCHANGED <<idle, inUse, rpc, survivors, startLeft, warmLeft>>
    BY <1>2, <1>12 DEF ShutdownStep, ReaperCancelled, DrainNext, DrainEnd, KillEnd,
       ShutdownDestroyed, Crash, Finished, vars, Closed
  <2>2. Total' = Total /\ Claimed' = Claimed
    BY <2>1 DEF Total, Claimed
  <2>. QED  BY <1>1, <1>3, <2>1, <2>2, Numbers, NoMore
<1>13. ~ShutdownBegin
  BY DEF ShutdownBegin, Closed
<1>. QED  BY <1>4, <1>5, <1>6, <1>7, <1>8, <1>9, <1>10, <1>11, <1>12, <1>13 DEF Next, ReaperStep

\* With min_idle <= 2 the pool never counts more than max_size + min_idle containers,
\* whatever the clients, the reaper and the driver do: _warm can add min_idle to a pool
\* that _acquire has filled to max_size, and no more.
THEOREM Bounded == ASSUME MinIdle <= 2 PROVE Spec => []TotalBounded
<1>1. Init => TypeOK /\ StageInv /\ OwnerInv /\ CountInv
  BY TypeInit, OwnerInit, CountInit
<1>2. TypeOK /\ StageInv /\ OwnerInv /\ CountInv /\ [Next]_vars
        => TypeOK' /\ StageInv' /\ OwnerInv' /\ CountInv'
  BY TypeStep, OwnerStep, CountStep
<1>3. TypeOK /\ CountInv => TotalBounded
  BY Numbers DEF CountInv, Tame, TotalBounded
<1>. QED  BY <1>1, <1>2, <1>3, PTL DEF Spec

\* Without a reaper the pool never counts more than max_size containers, for every
\* min_idle: the lock and the placeholder of _acquire are enough.
THEOREM StrictlyBounded == Spec => []StrictBound
<1>1. Init => TypeOK /\ StageInv /\ OwnerInv /\ CountInv
  BY TypeInit, OwnerInit, CountInit
<1>2. TypeOK /\ StageInv /\ OwnerInv /\ CountInv /\ [Next]_vars
        => TypeOK' /\ StageInv' /\ OwnerInv' /\ CountInv'
  BY TypeStep, OwnerStep, CountStep
<1>3. CountInv => StrictBound
  BY DEF CountInv, Tame, StrictBound
<1>. QED  BY <1>1, <1>2, <1>3, PTL DEF Spec

------------------------------------------------------------------------------
(* Every slot of in_use has its client. *)

Held(y) == \E d \in Clients : HoldsSlot(d) /\ Slot(d) = y
NoLeak == NobodyGone => \A y \in inUse : Held(y)

\* A step of client c that adds to in_use only the slot c has after it, and keeps in
\* in_use the slot c had before only if c still has it.
LEMMA Accounting ==
    ASSUME NEW c \in Clients, NoLeak, NobodyGone' => NobodyGone,
           \A d \in Clients \ {c} : HoldsSlot(d) => HoldsSlot(d)' /\ Slot(d)' = Slot(d),
           \/ inUse' \subseteq inUse /\ HoldsSlot(c)' = HoldsSlot(c) /\ Slot(c)' = Slot(c)
           \/ inUse' \subseteq inUse \ {Slot(c)}
           \/ inUse' \subseteq inUse /\ ~HoldsSlot(c)
           \/ /\ inUse' \subseteq (inUse \ {Slot(c)}) \cup {Slot(c)'}
              /\ HoldsSlot(c)'
           \/ /\ inUse' \subseteq inUse \cup {Slot(c)'}
              /\ ~HoldsSlot(c) /\ HoldsSlot(c)'
    PROVE  NoLeak'
<1>. SUFFICES ASSUME NoLeak, NobodyGone, NEW y \in inUse'
              PROVE  \E d \in Clients : HoldsSlot(d)' /\ Slot(d)' = y
  BY DEF NoLeak, Held
<1>1. CASE HoldsSlot(c)' /\ Slot(c)' = y
  BY <1>1
<1>2. CASE ~(HoldsSlot(c)' /\ Slot(c)' = y)
  <2>1. y \in inUse
    BY <1>2
  <2>2. PICK d \in Clients : HoldsSlot(d) /\ Slot(d) = y
    BY <2>1 DEF NoLeak, Held
  <2>3. d # c
    BY <1>2, <2>2
  <2>. QED  BY <2>2, <2>3
<1>. QED  BY <1>1, <1>2

\* Every step keeps in_use to the slots in flight, as long as nobody is cancelled.
LEMMA NoLeakStep ==
    ASSUME TypeOK, StageInv, NoLeak, [Next]_vars
    PROVE  NoLeak'
<1>t. /\ inUse \subseteq Envs \cup Clients
      /\ cpc \in [Clients -> ClientStates] /\ cenv \in [Clients -> Envs \cup {NoEnv}]
  BY DEF TypeOK
<1>. USE DEF queueVars, clientVars, driverVars, reaperVars, shutdownVars,
            Goto, GotoWith, Closed, Slot, HoldsSlot, Holding
<1>1. ASSUME NEW c \in Clients, ClientStep(c) PROVE NoLeak'
  <2>2. /\ \A d \in Clients \ {c} : cpc'[d] = cpc[d] /\ cenv'[d] = cenv[d]
        /\ cpc[c] # "gone"
    BY <1>1, <1>t DEF ClientStep, BeginSession, LeaseIdle, StartCreate, Enqueue, CreateOk,
       CreateFail, HealthCheck, CountLease, Discard, Disposed, Wake, Timeout, EndSession,
       ReleaseCheck, Return, Retire, Retired, Cancel
  <2>3. NobodyGone' => NobodyGone
    BY <2>2 DEF NobodyGone
  <2>4. \A d \in Clients \ {c} : HoldsSlot(d) => HoldsSlot(d)' /\ Slot(d)' = Slot(d)
    BY <2>2
  <2>5. CASE BeginSession(c) \/ Enqueue(c) \/ HealthCheck(c) \/ CountLease(c) \/ Disposed(c)
               \/ Wake(c) \/ Timeout(c) \/ EndSession(c) \/ ReleaseCheck(c) \/ Retired(c)
    <3>1. inUse' = inUse
      BY <2>5 DEF BeginSession, Enqueue, HealthCheck, CountLease, Disposed, Wake, Timeout,
         EndSession, ReleaseCheck, Retired
    <3>2. \/ ~HoldsSlot(c)
          \/ HoldsSlot(c)' /\ HoldsSlot(c) /\ Slot(c)' = Slot(c)
      BY <2>5, <1>t DEF BeginSession, Enqueue, HealthCheck, CountLease, Disposed, Wake, Timeout,
         EndSession, ReleasePath, ReleaseCheck, Retired
    <3>. QED  BY <2>3, <2>4, <3>1, <3>2, Accounting
  <2>6. CASE CreateFail(c) \/ Discard(c) \/ Return(c) \/ Retire(c)
    <3>1. inUse' = inUse \ {Slot(c)}
      BY <2>6 DEF CreateFail, Discard, Return, Retire
    <3>. QED  BY <2>3, <2>4, <3>1, Accounting
  <2>7. CASE StartCreate(c)
    <3>1. inUse' = inUse \cup {c} /\ ~HoldsSlot(c)
      BY <2>7 DEF StartCreate, Reserve
    <3>2. HoldsSlot(c)' /\ Slot(c)' = c
      BY <2>7, <1>t DEF StartCreate
    <3>. QED  BY <2>3, <2>4, <3>1, <3>2, Accounting
  <2>8. CASE LeaseIdle(c)
    <3>1. inUse' = inUse \cup {Head(idle)} /\ ~HoldsSlot(c)
      BY <2>8 DEF LeaseIdle, Reserve
    <3>2. HoldsSlot(c)' /\ Slot(c)' = Head(idle)
      BY <2>8, <1>t DEF LeaseIdle
    <3>. QED  BY <2>3, <2>4, <3>1, <3>2, Accounting
  <2>9. ASSUME NEW e \in Envs, CreateOk(c, e) PROVE NoLeak'
    <3>1. inUse' = (inUse \ {c}) \cup {e} /\ Slot(c) = c
      BY <2>9 DEF CreateOk
    <3>2. HoldsSlot(c)' /\ Slot(c)' = e
      BY <2>9, <1>t DEF CreateOk
    <3>. QED  BY <2>3, <2>4, <3>1, <3>2, Accounting
  <2>10. CASE Cancel(c)
    BY <2>10, <1>t DEF Cancel, NoLeak, NobodyGone
  <2>. QED  BY <1>1, <2>5, <2>6, <2>7, <2>8, <2>9, <2>10 DEF ClientStep
<1>2. ASSUME \/ (\E e \in Envs : StartWarmOk(e)) \/ StartWarmFail \/ ReaperStep
             \/ ShutdownBegin \/ ShutdownStep
             \/ (\E e \in Envs : Crash(e)) \/ Finished \/ UNCHANGED vars
      PROVE  NoLeak'
  <2>1. UNCHANGED <<cpc, cenv>> /\ inUse' \in {inUse, {}}
    BY <1>2 DEF StartWarmOk, StartWarmFail, Warmed, ReaperStep, Reap, AgedOut, Culled,
       ReaperWarmOk, ReaperWarmFail, ShutdownBegin, ShutdownStep, ReaperCancelled, DrainNext,
       DrainEnd, KillEnd, ShutdownDestroyed, Crash, Finished, vars
  <2>2. NobodyGone' = NobodyGone /\ \A y : Held(y)' = Held(y)
    BY <2>1 DEF NobodyGone, Held
  <2>. QED  BY <2>1, <2>2 DEF NoLeak
<1>. QED  BY <1>1, <1>2 DEF Next

\* in_use is exactly the slots of the sessions in flight, if no task was cancelled: no
\* path of _acquire and _release leaks a slot or gives up one that is still in use.
THEOREM Accounted == ASSUME MinIdle <= 2 PROVE Spec => []SlotsAccounted
<1>1. Init => TypeOK /\ StageInv /\ OwnerInv /\ NoLeak
  BY TypeInit, OwnerInit DEF Init, NoLeak
<1>2. TypeOK /\ StageInv /\ OwnerInv /\ NoLeak /\ [Next]_vars
        => TypeOK' /\ StageInv' /\ OwnerInv' /\ NoLeak'
  BY TypeStep, OwnerStep, NoLeakStep
<1>3. OwnerInv /\ NoLeak => SlotsAccounted
  BY DEF OwnerInv, Tame, SlotsCounted, NoLeak, Held, SlotsAccounted
<1>. QED  BY <1>1, <1>2, <1>3, PTL DEF Spec

------------------------------------------------------------------------------
(* The pool implements LeaseService. *)

PhaseOf(pc) == IF pc \in Asking THEN "asking" ELSE IF pc \in Holding THEN "holding" ELSE "idle"

\* What a step of one client does to the phases and the leases.
LEMMA Moves ==
    ASSUME TypeOK, TypeOK', NEW c \in Clients,
           \A d \in Clients \ {c} : cpc'[d] = cpc[d] /\ cenv'[d] = cenv[d]
    PROVE  /\ phase[c] = PhaseOf(cpc[c])
           /\ phase' = [phase EXCEPT ![c] = PhaseOf(cpc'[c])]
           /\ lease' = [lease EXCEPT ![c] = IF cpc'[c] \in Holding THEN cenv'[c] ELSE NoEnv]
           /\ PhaseOf(cpc'[c]) = PhaseOf(cpc[c]) => phase' = phase
           /\ (IF cpc'[c] \in Holding THEN cenv'[c] ELSE NoEnv)
                = (IF cpc[c] \in Holding THEN cenv[c] ELSE NoEnv) => lease' = lease
<1>1. /\ phase = [d \in Clients |-> PhaseOf(cpc[d])]
      /\ phase' = [d \in Clients |-> PhaseOf(cpc'[d])]
  BY DEF phase, PhaseOf
<1>2. /\ lease = [d \in Clients |-> IF cpc[d] \in Holding THEN cenv[d] ELSE NoEnv]
      /\ lease' = [d \in Clients |-> IF cpc'[d] \in Holding THEN cenv'[d] ELSE NoEnv]
  BY DEF lease
<1>3. /\ phase[c] = PhaseOf(cpc[c])
      /\ phase' = [phase EXCEPT ![c] = PhaseOf(cpc'[c])]
      /\ PhaseOf(cpc'[c]) = PhaseOf(cpc[c]) => phase' = phase
  BY <1>1
<1>4. /\ lease' = [lease EXCEPT ![c] = IF cpc'[c] \in Holding THEN cenv'[c] ELSE NoEnv]
      /\ (IF cpc'[c] \in Holding THEN cenv'[c] ELSE NoEnv)
            = (IF cpc[c] \in Holding THEN cenv[c] ELSE NoEnv) => lease' = lease
  BY <1>2
<1>. QED  BY <1>3, <1>4

\* Initial states map to initial states.
LEMMA ServiceInit == ASSUME Init PROVE Service!Init
BY DEF Init, Service!Init, phase, lease, open, Closed, Asking, Holding

\* A step of a client maps to a step of LeaseService or to a stutter.
LEMMA ServiceClient ==
    ASSUME TypeOK, TypeOK', StageInv, OneOwner, NEW c \in Clients, ClientStep(c)
    PROVE  [Service!Next]_(Service!serviceVars)
<1>t. cpc \in [Clients -> ClientStates] /\ cenv \in [Clients -> Envs \cup {NoEnv}]
  BY DEF TypeOK
<1>1. \A d \in Clients \ {c} : cpc'[d] = cpc[d] /\ cenv'[d] = cenv[d]
  BY <1>t DEF ClientStep, BeginSession, LeaseIdle, StartCreate, Enqueue, CreateOk, CreateFail,
     HealthCheck, CountLease, Discard, Disposed, Wake, Timeout, EndSession, ReleaseCheck, Return,
     Retire, Retired, Cancel, Goto, GotoWith, clientVars
<1>2. open' = open
  BY DEF ClientStep, BeginSession, LeaseIdle, StartCreate, Enqueue, CreateOk, CreateFail,
     HealthCheck, CountLease, Discard, Disposed, Wake, Timeout, EndSession, ReleaseCheck, Return,
     Retire, Retired, Cancel, open, Closed, shutdownVars
<1>3. /\ phase[c] = PhaseOf(cpc[c])
      /\ phase' = [phase EXCEPT ![c] = PhaseOf(cpc'[c])]
      /\ lease' = [lease EXCEPT ![c] = IF cpc'[c] \in Holding THEN cenv'[c] ELSE NoEnv]
      /\ PhaseOf(cpc'[c]) = PhaseOf(cpc[c]) => phase' = phase
      /\ (IF cpc'[c] \in Holding THEN cenv'[c] ELSE NoEnv)
            = (IF cpc[c] \in Holding THEN cenv[c] ELSE NoEnv) => lease' = lease
  BY <1>1, Moves
<1>. USE DEF Goto, GotoWith, clientVars
<1>4. CASE BeginSession(c)
  <2>1. PhaseOf(cpc[c]) = "idle" /\ PhaseOf(cpc'[c]) = "asking"
    BY <1>4, <1>t DEF BeginSession, PhaseOf, Asking, Holding
  <2>2. lease' = lease
    BY <1>3, <1>4, <1>t DEF BeginSession, Holding
  <2>3. open
    BY <1>4 DEF BeginSession, Admits, open
  <2>. QED  BY <1>2, <1>3, <2>1, <2>2, <2>3 DEF Service!Next, Service!Request
<1>5. ASSUME PhaseOf(cpc[c]) = "asking", PhaseOf(cpc'[c]) = "idle"
      PROVE  [Service!Next]_(Service!serviceVars)
  <2>1. lease' = lease
    BY <1>3, <1>5 DEF PhaseOf, Asking, Holding
  <2>. QED  BY <1>2, <1>3, <1>5, <2>1 DEF Service!Next, Service!Refuse
<1>6. ASSUME PhaseOf(cpc[c]) = "holding", PhaseOf(cpc'[c]) = "idle"
      PROVE  [Service!Next]_(Service!serviceVars)
  <2>1. lease' = [lease EXCEPT ![c] = NoEnv]
    BY <1>3, <1>6 DEF PhaseOf, Asking, Holding
  <2>. QED  BY <1>2, <1>3, <1>6, <2>1 DEF Service!Next, Service!End
<1>7. ASSUME PhaseOf(cpc[c]) = "asking", cpc'[c] \in Holding,
             NEW e \in Envs, cenv'[c] = e, Service!Free(e)
      PROVE  [Service!Next]_(Service!serviceVars)
  <2>1. PhaseOf(cpc'[c]) = "holding" /\ lease' = [lease EXCEPT ![c] = e]
    BY <1>3, <1>7 DEF PhaseOf, Asking, Holding
  <2>. QED  BY <1>2, <1>3, <1>7, <2>1 DEF Service!Next, Service!Grant
<1>8. ASSUME PhaseOf(cpc'[c]) = PhaseOf(cpc[c]), cenv'[c] = cenv[c] \/ PhaseOf(cpc[c]) # "holding"
      PROVE  [Service!Next]_(Service!serviceVars)
  <2>1. phase' = phase /\ lease' = lease
    BY <1>3, <1>8 DEF PhaseOf, Asking, Holding
  <2>. QED  BY <1>2, <2>1 DEF Service!serviceVars
<1>9. CASE LeaseIdle(c) \/ StartCreate(c) \/ Enqueue(c) \/ HealthCheck(c) \/ Discard(c)
             \/ Disposed(c) \/ Wake(c)
  <2>1. cpc[c] \in Asking /\ cpc'[c] \in Asking
    BY <1>9, <1>t DEF LeaseIdle, StartCreate, Enqueue, HealthCheck, Discard, Disposed, Wake, Asking
  <2>. QED  BY <1>8, <2>1 DEF PhaseOf
<1>10. CASE CreateFail(c) \/ Timeout(c)
  BY <1>5, <1>10, <1>t DEF CreateFail, Timeout, PhaseOf, Asking, Holding
<1>11. CASE EndSession(c) \/ ReleaseCheck(c)
  <2>1. cpc[c] \in Holding /\ cpc'[c] \in Holding /\ cenv'[c] = cenv[c]
    BY <1>11, <1>t DEF EndSession, ReleasePath, ReleaseCheck, Holding
  <2>. QED  BY <1>8, <2>1 DEF PhaseOf, Asking, Holding
<1>12. CASE Return(c) \/ Retire(c)
  BY <1>6, <1>12, <1>t DEF Return, Retire, PhaseOf, Asking, Holding
<1>13. CASE Retired(c)
  BY <1>8, <1>13, <1>t DEF Retired, PhaseOf, Asking, Holding
<1>14. CASE Cancel(c)
  <2>1. cpc'[c] = "gone" /\ PhaseOf(cpc'[c]) = "idle"
    BY <1>14, <1>t DEF Cancel, PhaseOf, Asking, Holding
  <2>. QED  BY <1>5, <1>6, <1>8, <2>1 DEF PhaseOf
<1>15. ASSUME NEW e \in Envs, CreateOk(c, e) PROVE [Service!Next]_(Service!serviceVars)
  <2>1. \A d \in Clients : cenv[d] \in Range(cenv)
    BY <1>t DEF Range
  <2>2. e \notin Range(cenv) /\ e # NoEnv
    BY <1>15, PoolAssumption DEF CreateOk, Created, Tracked
  <2>3. Service!Free(e)
    BY <2>1, <2>2 DEF Service!Free, lease
  <2>4. PhaseOf(cpc[c]) = "asking" /\ cpc'[c] \in Holding /\ cenv'[c] = e
    BY <1>15, <1>t DEF CreateOk, PhaseOf, Asking, Holding
  <2>. QED  BY <1>7, <2>3, <2>4
<1>16. CASE CountLease(c)
  <2>1. cpc[c] = "counting" /\ cpc' = [cpc EXCEPT ![c] = "leased"] /\ cenv' = cenv /\ cenv[c] \in Envs
    BY <1>16 DEF CountLease, StageInv, Carrying
  <2>. PICK e \in Envs : e = cenv[c]
    BY <2>1
  <2>2. ASSUME NEW d \in Clients PROVE lease[d] # e
    <3>1. e # NoEnv
      BY PoolAssumption
    <3>2. CASE cpc[d] \in Holding
      <4>1. HoldsSlot(d) /\ Slot(d) = cenv[d] /\ HoldsSlot(c) /\ Slot(c) = e /\ d # c
        BY <2>1, <3>2 DEF HoldsSlot, Slot, Holding
      <4>. QED  BY <3>2, <4>1 DEF OneOwner, lease
    <3>. QED  BY <3>1, <3>2 DEF lease
  <2>3. PhaseOf(cpc[c]) = "asking" /\ cpc'[c] \in Holding /\ cenv'[c] = e
    BY <2>1, <1>t DEF PhaseOf, Asking, Holding
  <2>. QED  BY <1>7, <2>2, <2>3 DEF Service!Free
<1>. QED  BY <1>4, <1>9, <1>10, <1>11, <1>12, <1>13, <1>14, <1>15, <1>16 DEF ClientStep

\* So does every step of the pool.
LEMMA ServiceStep ==
    ASSUME TypeOK, TypeOK', StageInv, OneOwner, [Next]_vars
    PROVE  [Service!Next]_(Service!serviceVars)
<1>. USE DEF queueVars, clientVars, driverVars, reaperVars, shutdownVars
<1>1. ASSUME NEW c \in Clients, ClientStep(c) PROVE [Service!Next]_(Service!serviceVars)
  BY <1>1, ServiceClient
<1>2. CASE ShutdownBegin
  <2>1. UNCHANGED <<cpc, cenv>> /\ ~Closed /\ Closed'
    BY <1>2 DEF ShutdownBegin, Closed
  <2>2. UNCHANGED <<phase, lease>> /\ open /\ open' = FALSE
    BY <2>1 DEF phase, lease, open
  <2>. QED  BY <2>2 DEF Service!Next, Service!Close
<1>3. ASSUME \/ (\E e \in Envs : StartWarmOk(e)) \/ StartWarmFail \/ ReaperStep \/ ShutdownStep
             \/ (\E e \in Envs : Crash(e)) \/ Finished \/ UNCHANGED vars
      PROVE  [Service!Next]_(Service!serviceVars)
  <2>1. UNCHANGED <<cpc, cenv>> /\ Closed' = Closed
    BY <1>3 DEF StartWarmOk, StartWarmFail, Warmed, ReaperStep, Reap, AgedOut, Culled,
       ReaperWarmOk, ReaperWarmFail, ShutdownStep, ReaperCancelled, DrainNext, DrainEnd, KillEnd,
       ShutdownDestroyed, Crash, Finished, vars, Closed
  <2>2. UNCHANGED <<phase, lease, open>>
    BY <2>1 DEF phase, lease, open
  <2>. QED  BY <2>2 DEF Service!serviceVars
<1>. QED  BY <1>1, <1>2, <1>3 DEF Next

\* The pool implements LeaseService: a session is granted a container nobody holds, is
\* refused, or waits; sessions begin only while the pool is open.
THEOREM Implements == ASSUME MinIdle <= 2 PROVE Spec => ServiceSpec
<1>1. Init => TypeOK /\ StageInv /\ OwnerInv
  BY TypeInit, OwnerInit
<1>2. TypeOK /\ StageInv /\ OwnerInv /\ [Next]_vars => TypeOK' /\ StageInv' /\ OwnerInv'
  BY TypeStep, OwnerStep
<1>3. OwnerInv => OneOwner
  BY DEF OwnerInv, Tame
<1>4. Init => Service!Init
  BY ServiceInit
<1>5. TypeOK /\ TypeOK' /\ StageInv /\ OneOwner /\ [Next]_vars
        => [Service!Next]_(Service!serviceVars)
  BY ServiceStep
<1>. QED  BY <1>1, <1>2, <1>3, <1>4, <1>5, PTL DEF Spec, ServiceSpec, Service!Spec

------------------------------------------------------------------------------
(* What the reaper has picked to destroy is out of reach. *)

Pile == Range(aged) \cup Range(dead)

\* With min_idle <= 1 a pass either keeps its one entry or ages it out.
SparedInv == ReaperSparesLeased /\ survivors = <<>>

\* A step that adds nothing to the piles, puts nothing of them into the queue, and gives
\* a client at most what the queue had or what is in no pile.
LEMMA Sparing ==
    ASSUME ReaperSparesLeased, ~Closed, Pile' \subseteq Pile,
           \A e \in Range(idle') : e \in Range(idle) \/ e \notin Pile,
           \A d \in Clients : HoldsSlot(d)' =>
               \/ HoldsSlot(d) /\ Slot(d)' = Slot(d)
               \/ Slot(d)' \in Range(idle) \/ Slot(d)' \notin Pile
    PROVE  ReaperSparesLeased'
<1>1. \A e \in Pile : e \notin Range(idle) /\ \A d \in Clients : HoldsSlot(d) => Slot(d) # e
  BY DEF ReaperSparesLeased, Pile
<1>2. ASSUME NEW e \in Pile'
      PROVE  e \notin Range(idle') /\ \A d \in Clients : HoldsSlot(d)' => Slot(d)' # e
  BY <1>1, <1>2
<1>. QED  BY <1>2 DEF ReaperSparesLeased, Pile

\* A pass leaves its piles out of reach.
LEMMA ReapSpares ==
    ASSUME TypeOK, OwnerInv, MinIdle <= 1, Reap
    PROVE  SparedInv'
<1>0. /\ MinIdle \in Nat /\ Cardinality(inUse) \in Nat /\ Len(idle) \in Nat /\ OneOwner
      /\ UNCHANGED <<cpc, cenv, hpc>>
  BY PoolAssumption, InUseFinite DEF TypeOK, OwnerInv, Tame, Reap, clientVars, shutdownVars
<1>1. PICK kept \in Seq(Envs), gone \in Seq(Envs) :
             /\ Len(kept) <= KeepTarget /\ Range(kept) \subseteq Range(idle)
             /\ Range(gone) \subseteq Range(idle)
             /\ IsInjective(idle) => Range(kept) \cap Range(gone) = {}
             /\ \/ Requeue(kept, gone)
                \/ \E fit \in 0..(Len(kept) - 1) :
                     /\ rpc' = "aging" /\ dead' = gone
                     /\ idle' = Popped(kept)
                     /\ aged' = SubSeq(kept, fit + 1, Len(kept))
                     /\ survivors' = SubSeq(kept, 1, fit)
  BY ReapSplits
<1>2. \A d \in Clients : HoldsSlot(d)' => Slot(d)' \notin Range(idle)
  BY <1>0 DEF OneOwner, HoldsSlot, Slot
<1>3. CASE Requeue(kept, gone)
  <2>1. idle' = kept /\ aged' = <<>> /\ survivors' = <<>> /\ dead' = gone
    BY <1>3 DEF Requeue, Cull
  <2>2. Range(<<>>) = {}
    BY DEF Range
  <2>3. Pile' = Range(gone)
    BY <2>1, <2>2 DEF Pile
  <2>. QED  BY <1>0, <1>1, <1>2, <2>1, <2>3 DEF SparedInv, ReaperSparesLeased, OneOwner, Pile
<1>4. ASSUME NEW fit \in 0..(Len(kept) - 1), dead' = gone, idle' = Popped(kept),
             aged' = SubSeq(kept, fit + 1, Len(kept)), survivors' = SubSeq(kept, 1, fit)
      PROVE  SparedInv'
  <2>1. KeepTarget \in Nat /\ KeepTarget <= 1
    BY <1>0 DEF KeepTarget
  <2>2. Len(kept) \in Nat
    OBVIOUS
  <2>3. Len(kept) = 1 /\ fit = 0
    <3>1. Len(kept) <= KeepTarget
      BY <1>1
    <3>2. fit \in Nat /\ fit <= Len(kept) - 1
      BY <2>2
    <3>. PICK n \in Nat, m \in Nat : n = Len(kept) /\ m = KeepTarget
      BY <2>1, <2>2
    <3>3. n <= m /\ m <= 1 /\ fit \in Nat /\ fit <= n - 1
      BY <2>1, <3>1, <3>2
    <3>4. n = 1 /\ fit = 0
      BY <3>3
    <3>. QED  BY <3>4
  <2>4. kept # <<>> /\ Len(Tail(kept)) = 0 /\ Tail(kept) \in Seq(Envs)
    <3>1. kept # <<>>
      <4>1. Len(kept) > 0
        BY <2>3
      <4>. QED  BY <4>1, EmptySeq
    <3>. QED  BY <2>3, <3>1, TailProperties
  <2>5. idle' = <<>>
    BY <1>4, <2>4, EmptySeq DEF Popped
  <2>6. survivors' = <<>>
    BY <1>4, <2>3, SubSeqEmpty
  <2>7. aged' = SubSeq(kept, 1, 1) /\ Range(aged') \subseteq Range(kept)
    <3>1. 1 \in 1..(Len(kept) + 1) /\ 1 \in 0..Len(kept) /\ 1 <= 1 + 1
      BY <2>3
    <3>2. aged' = SubSeq(kept, 1, 1)
      BY <1>4, <2>3
    <3>. QED  BY <3>1, <3>2, SegmentProperties
  <2>8. Range(idle') = {}
    BY <2>5 DEF Range
  <2>. QED  BY <1>1, <1>2, <1>4, <2>6, <2>7, <2>8 DEF SparedInv, ReaperSparesLeased
<1>. QED  BY <1>1, <1>3, <1>4

\* Every step keeps the piles out of reach.
LEMMA SparedStep ==
    ASSUME TypeOK, StageInv, OwnerInv, MinIdle <= 1, SparedInv, [Next]_vars
    PROVE  SparedInv'
<1>t. /\ idle \in Seq(Envs) /\ aged \in Seq(Envs) /\ dead \in Seq(Envs)
      /\ cpc \in [Clients -> ClientStates] /\ cenv \in [Clients -> Envs \cup {NoEnv}]
  BY DEF TypeOK
<1>p. Pile \subseteq Envs /\ Pile \subseteq Tracked
  BY <1>t, RangeOfSeq DEF Pile, Tracked
<1>i. ReaperSparesLeased /\ survivors = <<>>
  BY DEF SparedInv
<1>. USE DEF queueVars, clientVars, driverVars, reaperVars, shutdownVars,
            Goto, GotoWith, Slot, HoldsSlot, Holding
<1>1. ASSUME NEW c \in Clients, ClientStep(c), ~Closed PROVE ReaperSparesLeased'
  <2>0. Pile' = Pile
    BY <1>1 DEF ClientStep, BeginSession, LeaseIdle, StartCreate, Enqueue, CreateOk, CreateFail,
       HealthCheck, CountLease, Discard, Disposed, Wake, Timeout, EndSession, ReleaseCheck, Return,
       Retire, Retired, Cancel, Pile
  <2>1. CASE BeginSession(c) \/ Enqueue(c) \/ CreateFail(c) \/ HealthCheck(c) \/ CountLease(c)
                 \/ Discard(c) \/ Disposed(c) \/ Timeout(c) \/ EndSession(c) \/ ReleaseCheck(c)
                 \/ Retire(c) \/ Retired(c) \/ Cancel(c)
    <3>1. idle' = idle
      BY <2>1 DEF BeginSession, Enqueue, CreateFail, HealthCheck, CountLease, Discard, Disposed,
         Timeout, EndSession, ReleaseCheck, Retire, Retired, Cancel
    <3>2. \A d \in Clients : HoldsSlot(d)' => HoldsSlot(d) /\ Slot(d)' = Slot(d)
      BY <2>1, <1>t DEF BeginSession, Enqueue, CreateFail, HealthCheck, CountLease, Discard,
         Disposed, Timeout, EndSession, ReleasePath, ReleaseCheck, Retire, Retired, Cancel
    <3>. QED  BY <1>1, <1>i, <2>0, <3>1, <3>2, Sparing
  <2>2. CASE LeaseIdle(c)
    <3>1. /\ idle # <<>> /\ idle' = Tail(idle)
          /\ cpc' = [cpc EXCEPT ![c] = "checking"] /\ cenv' = [cenv EXCEPT ![c] = Head(idle)]
      BY <2>2 DEF LeaseIdle
    <3>2. Range(idle') \subseteq Range(idle) /\ Head(idle) \in Range(idle)
      BY <3>1, <1>t, TailProperties
    <3>3. \A d \in Clients : \/ HoldsSlot(d)' = HoldsSlot(d) /\ Slot(d)' = Slot(d)
                             \/ Slot(d)' = Head(idle)
      BY <3>1, <1>t
    <3>. QED  BY <1>1, <1>i, <2>0, <3>2, <3>3, Sparing
  <2>3. CASE StartCreate(c)
    <3>1. idle' = idle /\ cpc' = [cpc EXCEPT ![c] = "creating"] /\ cenv' = cenv
      BY <2>3 DEF StartCreate
    <3>2. c \notin Pile
      BY <1>p, PoolAssumption
    <3>3. \A d \in Clients : (HoldsSlot(d)' = HoldsSlot(d) /\ Slot(d)' = Slot(d)) \/ Slot(d)' = c
      BY <3>1, <1>t
    <3>. QED  BY <1>1, <1>i, <2>0, <3>1, <3>2, <3>3, Sparing
  <2>4. ASSUME NEW e \in Envs, CreateOk(c, e)  PROVE ReaperSparesLeased'
    <3>1. /\ idle' = idle /\ cpc' = [cpc EXCEPT ![c] = "leased"] /\ cenv' = [cenv EXCEPT ![c] = e]
          /\ e \notin Tracked
      BY <2>4 DEF CreateOk, Created
    <3>2. e \notin Pile
      BY <1>p, <3>1
    <3>3. \A d \in Clients : (HoldsSlot(d)' = HoldsSlot(d) /\ Slot(d)' = Slot(d)) \/ Slot(d)' = e
      BY <3>1, <1>t
    <3>. QED  BY <1>1, <1>i, <2>0, <3>1, <3>2, <3>3, Sparing
  <2>5. CASE Wake(c)
    <3>1. /\ idle # <<>> /\ idle' = Append(Tail(idle), Head(idle))
          /\ cpc' = [cpc EXCEPT ![c] = "wantLock"] /\ cenv' = cenv
      BY <2>5 DEF Wake, PushedBack
    <3>2. Range(idle') \subseteq Range(idle)
      BY <3>1, <1>t, RotationKeeps
    <3>3. \A d \in Clients : HoldsSlot(d)' => HoldsSlot(d) /\ Slot(d)' = Slot(d)
      BY <3>1, <1>t
    <3>. QED  BY <1>1, <1>i, <2>0, <3>2, <3>3, Sparing
  <2>6. CASE Return(c)
    <3>1. /\ cpc[c] = "returning" /\ cenv[c] \in Envs /\ idle' = Append(idle, cenv[c])
          /\ cpc' = [cpc EXCEPT ![c] = "out"] /\ cenv' = [cenv EXCEPT ![c] = NoEnv]
      BY <2>6 DEF Return, StageInv, Carrying
    <3>2. HoldsSlot(c) /\ Slot(c) = cenv[c]
      BY <3>1
    <3>3. cenv[c] \notin Pile
      BY <1>1, <1>i, <3>2 DEF ReaperSparesLeased, Pile
    <3>4. Range(idle') = Range(idle) \cup {cenv[c]}
      BY <3>1, <1>t, AppendKeeps
    <3>5. \A d \in Clients : HoldsSlot(d)' => HoldsSlot(d) /\ Slot(d)' = Slot(d)
      BY <3>1, <1>t
    <3>. QED  BY <1>1, <1>i, <2>0, <3>3, <3>4, <3>5, Sparing
  <2>. QED  BY <1>1, <2>1, <2>2, <2>3, <2>4, <2>5, <2>6 DEF ClientStep
<1>2. ASSUME NEW c \in Clients, ClientStep(c)  PROVE hpc' = hpc /\ survivors' = survivors
  BY <1>2 DEF ClientStep, BeginSession, LeaseIdle, StartCreate, Enqueue, CreateOk, CreateFail,
     HealthCheck, CountLease, Discard, Disposed, Wake, Timeout, EndSession, ReleaseCheck, Return,
     Retire, Retired, Cancel
<1>3. ASSUME NEW e \in Envs, StartWarmOk(e) \/ ReaperWarmOk(e)  PROVE SparedInv'
  <2>1. /\ idle' = Append(idle, e) /\ e \notin Tracked /\ UNCHANGED <<aged, dead, survivors, hpc>>
        /\ UNCHANGED <<cpc, cenv>>
    BY <1>3 DEF StartWarmOk, ReaperWarmOk, Warmed, Created
  <2>2. Range(idle') = Range(idle) \cup {e} /\ e \notin Pile /\ Pile' = Pile
    BY <2>1, <1>t, <1>p, AppendKeeps DEF Pile
  <2>3. \A d \in Clients : HoldsSlot(d)' = HoldsSlot(d) /\ Slot(d)' = Slot(d)
    BY <2>1
  <2>. QED  BY <1>i, <2>1, <2>2, <2>3, Sparing DEF SparedInv, ReaperSparesLeased, Closed
<1>4. CASE Reap
  BY <1>4, ReapSpares
<1>5. CASE AgedOut
  <2>1. ~Closed /\ UNCHANGED <<cpc, cenv, hpc>> /\ aged # <<>>
    BY <1>5 DEF AgedOut, StageInv
  <2>2. \A d \in Clients : HoldsSlot(d)' = HoldsSlot(d) /\ Slot(d)' = Slot(d)
    BY <2>1
  <2>3. CASE aged' = Tail(aged) /\ idle' = Popped(idle) /\ UNCHANGED <<survivors, dead>>
    <3>1. Range(aged') \subseteq Range(aged)
      BY <2>1, <2>3, <1>t, TailProperties
    <3>2. Range(idle') \subseteq Range(idle)
      BY <2>3, <1>t, TailProperties DEF Popped
    <3>3. Pile' \subseteq Pile
      BY <3>1, <2>3 DEF Pile
    <3>. QED  BY <1>i, <2>1, <2>2, <2>3, <3>2, <3>3, Sparing DEF SparedInv
  <2>4. CASE Requeue(survivors, dead)
    <3>1. idle' = survivors /\ aged' = <<>> /\ survivors' = <<>> /\ dead' = dead
      BY <2>4 DEF Requeue, Cull
    <3>2. Range(idle') = {} /\ Range(aged') = {}
      BY <1>i, <3>1 DEF Range
    <3>3. Pile' \subseteq Pile
      BY <3>1, <3>2 DEF Pile
    <3>. QED  BY <1>i, <2>1, <2>2, <3>1, <3>2, <3>3, Sparing DEF SparedInv
  <2>. QED  BY <1>5, <2>3, <2>4 DEF AgedOut
<1>6. CASE Culled
  <2>1. /\ ~Closed /\ UNCHANGED <<cpc, cenv, hpc, idle, aged, survivors>> /\ dead # <<>>
        /\ dead' = Tail(dead)
    BY <1>6 DEF Culled, Cull, StageInv
  <2>2. \A d \in Clients : HoldsSlot(d)' = HoldsSlot(d) /\ Slot(d)' = Slot(d)
    BY <2>1
  <2>3. Pile' \subseteq Pile
    <3>1. Range(dead') \subseteq Range(dead)
      BY <2>1, <1>t, TailProperties
    <3>. QED  BY <2>1, <3>1 DEF Pile
  <2>. QED  BY <1>i, <2>1, <2>2, <2>3, Sparing DEF SparedInv
<1>7. CASE ShutdownBegin \/ ReaperCancelled \/ DrainNext \/ DrainEnd \/ KillEnd
  <2>1. Closed' /\ survivors' \in {survivors, <<>>}
    BY <1>7 DEF ShutdownBegin, ReaperCancelled, DrainNext, DrainEnd, KillEnd, Closed
  <2>. QED  BY <1>i, <2>1 DEF SparedInv, ReaperSparesLeased
<1>8. CASE StartWarmFail \/ ReaperWarmFail \/ (\E e \in Envs : Crash(e) \/ ShutdownDestroyed(e))
             \/ Finished \/ UNCHANGED vars
  <2>1. UNCHANGED <<idle, aged, dead, survivors, cpc, cenv, hpc>>
    BY <1>8 DEF StartWarmFail, ReaperWarmFail, Crash, ShutdownDestroyed, Finished, vars
  <2>. QED  BY <1>i, <2>1 DEF SparedInv, ReaperSparesLeased, Closed
<1>9. ASSUME NEW c \in Clients, ClientStep(c)  PROVE SparedInv'
  BY <1>1, <1>2, <1>9, <1>i DEF SparedInv, ReaperSparesLeased, Closed
<1>. QED  BY <1>3, <1>4, <1>5, <1>6, <1>7, <1>8, <1>9 DEF Next, ReaperStep, ShutdownStep

\* With min_idle <= 1 what the reaper has picked to destroy is neither idle nor leased,
\* however long the destruction takes and whatever is leased and released meanwhile.
THEOREM ReaperSpares == ASSUME MinIdle <= 1 PROVE Spec => []ReaperSparesLeased
<1>1. Init => TypeOK /\ StageInv /\ OwnerInv /\ SparedInv
  BY TypeInit, OwnerInit DEF Init, SparedInv, ReaperSparesLeased, Range
<1>2. TypeOK /\ StageInv /\ OwnerInv /\ SparedInv /\ [Next]_vars
        => TypeOK' /\ StageInv' /\ OwnerInv' /\ SparedInv'
  BY TypeStep, OwnerStep, SparedStep
<1>3. SparedInv => ReaperSparesLeased
  BY DEF SparedInv
<1>. QED  BY <1>1, <1>2, <1>3, PTL DEF Spec

------------------------------------------------------------------------------
(* Shutdown, and what the pool keeps track of. *)

\* Stages at which a client works with no container, and those at which it is giving one
\* back although the pool was open when it began to.
EmptyHanded == {"out", "gone", "wantLock", "creating", "waiting"}
Releasing == {"relCheck", "returning"}

HandsInv == \A c \in Clients : cpc[c] \in EmptyHanded => cenv[c] = NoEnv

\* What there is left of start(), the reaper and shutdown() at each other's stages.
CalmInv ==
    /\ Closed => startLeft = 0
    /\ rpc \in {"none", "stopped"} => aged = <<>> /\ survivors = <<>> /\ dead = <<>>
    /\ hpc \in {"draining", "killing", "down"} => rpc \in {"none", "stopped"}
    /\ hpc \in {"open", "awaitReaper", "down"} => victims = {}

\* A running container that shutdown() has still to destroy.
Going(e) == e \in live => e \in victims

\* A container that is given back during shutdown() is in in_use when that is emptied, so
\* that it is destroyed, although it may get back into the queue.
CloseInv ==
    /\ hpc \in {"awaitReaper", "draining"} =>
           \A c \in Clients : cpc[c] \in Releasing => cenv[c] \in inUse
    /\ (hpc \in {"killing", "down"} /\ DestroyNeverFailed) =>
           /\ \A c \in Clients : cpc[c] \in Releasing => Going(cenv[c])
           /\ \A e \in Range(idle) : Going(e)

\* An entry of a queue is its head or in its tail.
LEMMA HeadOrTail ==
    ASSUME NEW S, NEW q \in Seq(S), q # <<>>, NEW e \in Range(q)
    PROVE  e = Head(q) \/ e \in Range(Tail(q))
<1>1. /\ Tail(q) \in Seq(S) /\ Len(Tail(q)) = Len(q) - 1 /\ Head(q) = q[1] /\ Len(q) \in Nat
      /\ \A i \in 1..Len(Tail(q)) : Tail(q)[i] = q[i + 1]
  OBVIOUS
<1>2. DOMAIN q = 1..Len(q) /\ DOMAIN Tail(q) = 1..(Len(q) - 1)
  BY <1>1
<1>3. PICK i \in 1..Len(q) : e = q[i]
  BY <1>2 DEF Range
<1>4. CASE i # 1
  <2>1. i - 1 \in 1..(Len(q) - 1) /\ (i - 1) + 1 = i
    BY <1>1, <1>4
  <2>2. Tail(q)[i - 1] = e
    BY <1>1, <1>3, <2>1
  <2>. QED  BY <1>2, <2>1, <2>2 DEF Range
<1>. QED  BY <1>1, <1>3, <1>4

\* An empty-handed client has no container.
LEMMA HandsStep ==
    ASSUME TypeOK, HandsInv, [Next]_vars
    PROVE  HandsInv'
<1>t. cpc \in [Clients -> ClientStates] /\ cenv \in [Clients -> Envs \cup {NoEnv}]
  BY DEF TypeOK
<1>. USE DEF clientVars, Goto, GotoWith, EmptyHanded
<1>1. ASSUME NEW c \in Clients, ClientStep(c)  PROVE HandsInv'
  <2>1. \A d \in Clients \ {c} : cpc'[d] = cpc[d] /\ cenv'[d] = cenv[d]
    BY <1>1, <1>t DEF ClientStep, BeginSession, LeaseIdle, StartCreate, Enqueue, CreateOk,
       CreateFail, HealthCheck, CountLease, Discard, Disposed, Wake, Timeout, EndSession,
       ReleaseCheck, Return, Retire, Retired, Cancel
  <2>2. cpc'[c] \in EmptyHanded => cenv'[c] = NoEnv
    BY <1>1, <1>t DEF ClientStep, BeginSession, LeaseIdle, StartCreate, Enqueue, CreateOk,
       CreateFail, HealthCheck, CountLease, Discard, Disposed, Wake, Timeout, EndSession,
       ReleasePath, ReleaseCheck, Return, Retire, Retired, Cancel, HandsInv
  <2>. QED  BY <2>1, <2>2 DEF HandsInv
<1>2. ASSUME \/ (\E e \in Envs : StartWarmOk(e)) \/ StartWarmFail \/ ReaperStep
             \/ ShutdownBegin \/ ShutdownStep
             \/ (\E e \in Envs : Crash(e)) \/ Finished \/ UNCHANGED vars
      PROVE  HandsInv'
  <2>1. UNCHANGED <<cpc, cenv>>
    BY <1>2 DEF StartWarmOk, StartWarmFail, Warmed, ReaperStep, Reap, AgedOut, Culled,
       ReaperWarmOk, ReaperWarmFail, ShutdownBegin, ShutdownStep, ReaperCancelled, DrainNext,
       DrainEnd, KillEnd, ShutdownDestroyed, Crash, Finished, vars
  <2>. QED  BY <2>1 DEF HandsInv
<1>. QED  BY <1>1, <1>2 DEF Next

\* The stages of start(), the reaper and shutdown() keep to that.
LEMMA CalmStep ==
    ASSUME TypeOK, CalmInv, [Next]_vars
    PROVE  CalmInv'
<1>. USE DEF queueVars, clientVars, driverVars, reaperVars, shutdownVars, Closed, CalmInv
<1>1. ASSUME NEW c \in Clients, ClientStep(c)  PROVE CalmInv'
  <2>1. UNCHANGED <<hpc, startLeft, rpc, aged, survivors, dead, victims>>
    BY <1>1 DEF ClientStep, BeginSession, LeaseIdle, StartCreate, Enqueue, CreateOk, CreateFail,
       HealthCheck, CountLease, Discard, Disposed, Wake, Timeout, EndSession, ReleaseCheck, Return,
       Retire, Retired, Cancel
  <2>. QED  BY <2>1
<1>2. CASE (\E e \in Envs : StartWarmOk(e)) \/ StartWarmFail
  BY <1>2 DEF StartWarmOk, StartWarmFail, TypeOK
<1>3. CASE ReaperStep
  <2>1. /\ ~Closed /\ UNCHANGED <<hpc, startLeft, victims>>
        /\ rpc' \in {"aging", "culling", "warming", "asleep"}
    <3>1. CASE Reap
      BY <3>1 DEF Reap, Requeue, Cull, TopUp
    <3>2. CASE AgedOut
      BY <3>2 DEF AgedOut, Requeue, Cull, TopUp
    <3>3. CASE Culled
      BY <3>3 DEF Culled, Cull, TopUp
    <3>4. CASE ReaperWarmFail \/ \E e \in Envs : ReaperWarmOk(e)
      BY <3>4 DEF ReaperWarmFail, ReaperWarmOk
    <3>. QED  BY <1>3, <3>1, <3>2, <3>3, <3>4 DEF ReaperStep
  <2>. QED  BY <2>1
<1>4. CASE ShutdownBegin \/ ReaperCancelled \/ DrainNext \/ DrainEnd \/ KillEnd
  BY <1>4 DEF ShutdownBegin, ReaperCancelled, DrainNext, DrainEnd, KillEnd
<1>5. CASE (\E e \in Envs : ShutdownDestroyed(e) \/ Crash(e)) \/ Finished \/ UNCHANGED vars
  BY <1>5 DEF ShutdownDestroyed, Crash, Finished, vars
<1>. QED  BY <1>1, <1>2, <1>3, <1>4, <1>5 DEF Next, ShutdownStep

\* If no destruction has failed, none had, and this one does not.
LEMMA NeverFailed ==
    ASSUME TypeOK, [Next]_vars, DestroyNeverFailed'
    PROVE  DestroyNeverFailed /\ \A e : Destroyed(e) => live' = live \ {e}
<1>t. faults \in [FaultKinds -> 0..MaxFaults] /\ MaxFaults \in Nat
  BY PoolAssumption DEF TypeOK
<1>1. \A kind : Fault(kind) => DestroyNeverFailed /\ kind # "destroy"
  <2>. SUFFICES ASSUME NEW kind \in FaultKinds, Fault(kind)
                PROVE  DestroyNeverFailed /\ kind # "destroy"
    BY DEF Fault
  <2>1. /\ faults' = [faults EXCEPT ![kind] = faults[kind] + 1]
        /\ faults[kind] \in Nat
    BY <1>t DEF Fault
  <2>2. CASE kind = "destroy"
    <3>1. faults'["destroy"] = faults["destroy"] + 1 /\ faults["destroy"] \in Nat
      BY <1>t, <2>1, <2>2
    <3>2. faults'["destroy"] = 0
      BY <2>2 DEF DestroyNeverFailed
    <3>. QED  BY <3>1, <3>2
  <2>3. CASE kind # "destroy"
    BY <1>t, <2>1, <2>3 DEF DestroyNeverFailed
  <2>. QED  BY <2>2, <2>3
<1>2. \A e : Destroyed(e) => live' = live \ {e}
  BY <1>1 DEF Destroyed
<1>. USE DEF driverVars
<1>3. faults' = faults \/ \E kind : Fault(kind)
  <2>1. ASSUME NEW c \in Clients, ClientStep(c)  PROVE faults' = faults \/ \E kind : Fault(kind)
    BY <2>1 DEF ClientStep, BeginSession, LeaseIdle, StartCreate, Enqueue, CreateOk, CreateFail,
       HealthCheck, CountLease, Discard, Disposed, Wake, Timeout, EndSession, ReleaseCheck, Return,
       Retire, Retired, Cancel, Created, CreateRefused, Destroyed, Probed
  <2>2. CASE (\E e \in Envs : StartWarmOk(e)) \/ StartWarmFail \/ ReaperStep
    BY <2>2 DEF StartWarmOk, StartWarmFail, Warmed, ReaperStep, Reap, AgedOut, Culled,
       ReaperWarmOk, ReaperWarmFail, Created, CreateRefused, Destroyed
  <2>3. CASE ShutdownBegin \/ ShutdownStep \/ (\E e \in Envs : Crash(e)) \/ Finished \/ UNCHANGED vars
    BY <2>3 DEF ShutdownBegin, ShutdownStep, ReaperCancelled, DrainNext,
       DrainEnd, KillEnd, ShutdownDestroyed, Crash, Finished, vars, Destroyed
  <2>. QED  BY <2>1, <2>2, <2>3 DEF Next
<1>4. DestroyNeverFailed
  BY <1>1, <1>3 DEF DestroyNeverFailed
<1>. QED  BY <1>2, <1>4

\* What a client does while the pool is being closed.
LEMMA ClientCloses ==
    ASSUME TypeOK, StageInv, Closed, NEW c \in Clients, ClientStep(c)
    PROVE  /\ UNCHANGED <<hpc, victims>>
           /\ \A e \in Tracked : e \in live' => e \in live
           /\ \A e \in Range(idle') : e \in Range(idle) \/ (cpc[c] = "returning" /\ e = cenv[c])
           /\ \A y \in inUse : y \in inUse' \/ (HoldsSlot(c) /\ Slot(c) = y)
           /\ \A d \in Clients \ {c} : cpc'[d] = cpc[d] /\ cenv'[d] = cenv[d]
           /\ cpc'[c] \in Releasing =>
                  cpc[c] \in Releasing /\ cenv'[c] = cenv[c] /\ inUse' = inUse
<1>t. /\ idle \in Seq(Envs)
      /\ cpc \in [Clients -> ClientStates] /\ cenv \in [Clients -> Envs \cup {NoEnv}]
  BY DEF TypeOK
<1>. USE DEF queueVars, clientVars, driverVars, shutdownVars, Goto, GotoWith
<1>1. UNCHANGED <<hpc, victims>> /\ \A d \in Clients \ {c} : cpc'[d] = cpc[d] /\ cenv'[d] = cenv[d]
  BY <1>t DEF ClientStep, BeginSession, LeaseIdle, StartCreate, Enqueue, CreateOk,
     CreateFail, HealthCheck, CountLease, Discard, Disposed, Wake, Timeout, EndSession,
     ReleaseCheck, Return, Retire, Retired, Cancel
<1>2. \A e \in Tracked : e \in live' => e \in live
  BY DEF ClientStep, BeginSession, LeaseIdle, StartCreate, Enqueue, CreateOk,
     CreateFail, HealthCheck, CountLease, Discard, Disposed, Wake, Timeout, EndSession,
     ReleaseCheck, Return, Retire, Retired, Cancel, Created, CreateRefused, Destroyed, Probed
<1>3. \A e \in Range(idle') : e \in Range(idle) \/ (cpc[c] = "returning" /\ e = cenv[c])
  <2>1. CASE idle' = idle
    BY <2>1
  <2>2. CASE LeaseIdle(c)
    <3>1. Range(Tail(idle)) \subseteq Range(idle)
      BY <1>t, <2>2, TailProperties DEF LeaseIdle
    <3>. QED  BY <2>2, <3>1 DEF LeaseIdle
  <2>3. CASE Wake(c)
    <3>1. Range(Append(Tail(idle), Head(idle))) \subseteq Range(idle)
      BY <1>t, <2>3, RotationKeeps DEF Wake
    <3>. QED  BY <2>3, <3>1 DEF Wake, PushedBack
  <2>4. CASE Return(c)
    <3>1. cenv[c] \in Envs /\ cpc[c] = "returning" /\ idle' = Append(idle, cenv[c])
      BY <2>4 DEF Return, StageInv, Carrying, Holding
    <3>. QED  BY <3>1, <1>t, AppendKeeps
  <2>. QED  BY <2>1, <2>2, <2>3, <2>4 DEF ClientStep, BeginSession, StartCreate, Enqueue, CreateOk,
            CreateFail, HealthCheck, CountLease, Discard, Disposed, Timeout, EndSession,
            ReleaseCheck, Retire, Retired, Cancel
<1>4. \A y \in inUse : y \in inUse' \/ (HoldsSlot(c) /\ Slot(c) = y)
  BY DEF ClientStep, BeginSession, LeaseIdle, StartCreate, Enqueue, CreateOk,
     CreateFail, HealthCheck, CountLease, Discard, Disposed, Wake, Timeout, EndSession,
     ReleaseCheck, Return, Retire, Retired, Cancel, Reserve, HoldsSlot, Slot, Holding
<1>5. cpc'[c] \in Releasing => cpc[c] \in Releasing /\ cenv'[c] = cenv[c] /\ inUse' = inUse
  BY <1>t DEF ClientStep, BeginSession, LeaseIdle, StartCreate, Enqueue, CreateOk,
     CreateFail, HealthCheck, CountLease, Discard, Disposed, Wake, Timeout, EndSession, ReleasePath,
     ReleaseCheck, Return, Retire, Retired, Cancel, Releasing
<1>. QED  BY <1>1, <1>2, <1>3, <1>4, <1>5

\* Every step of shutdown(), and every step beside it, keeps the invariant.
LEMMA CloseStep ==
    ASSUME TypeOK, StageInv, OwnerInv, Tame, CalmInv, CloseInv, [Next]_vars
    PROVE  CloseInv'
<1>0. /\ OneOwner /\ SlotsCounted
      /\ (DestroyNeverFailed' => DestroyNeverFailed)
      /\ cenv \in [Clients -> Envs \cup {NoEnv}] /\ live \subseteq Envs
  BY NeverFailed DEF OwnerInv, TypeOK
<1>h. \A c \in Clients : cpc[c] \in Releasing =>
          /\ HoldsSlot(c) /\ Slot(c) = cenv[c] /\ cenv[c] \in Envs /\ cenv[c] \in Tracked
  BY <1>0 DEF Releasing, HoldsSlot, Slot, Holding, StageInv, Carrying, Tracked, Range
<1>. USE DEF queueVars, clientVars, driverVars, reaperVars, shutdownVars
<1>1. ASSUME NEW c \in Clients, ClientStep(c)  PROVE CloseInv'
  <2>1. CASE ~Closed
    BY <1>1, <2>1 DEF Closed, CloseInv, ClientStep, BeginSession, LeaseIdle, StartCreate, Enqueue,
       CreateOk, CreateFail, HealthCheck, CountLease, Discard, Disposed, Wake, Timeout, EndSession,
       ReleaseCheck, Return, Retire, Retired, Cancel
  <2>2. CASE Closed
    <3>1. /\ UNCHANGED <<hpc, victims>>
          /\ \A e \in Tracked : e \in live' => e \in live
          /\ \A e \in Range(idle') : e \in Range(idle) \/ (cpc[c] = "returning" /\ e = cenv[c])
          /\ \A y \in inUse : y \in inUse' \/ (HoldsSlot(c) /\ Slot(c) = y)
          /\ \A d \in Clients \ {c} : cpc'[d] = cpc[d] /\ cenv'[d] = cenv[d]
          /\ cpc'[c] \in Releasing =>
                 cpc[c] \in Releasing /\ cenv'[c] = cenv[c] /\ inUse' = inUse
      BY <1>1, <2>2, ClientCloses
    <3>2. \A d \in Clients : cpc'[d] \in Releasing => cpc[d] \in Releasing /\ cenv'[d] = cenv[d]
      BY <3>1
    <3>3. ASSUME hpc' \in {"awaitReaper", "draining"}, NEW d \in Clients, cpc'[d] \in Releasing
          PROVE  cenv'[d] \in inUse'
      <4>1. cenv[d] \in inUse /\ cpc[d] \in Releasing /\ cenv'[d] = cenv[d]
        BY <3>1, <3>2, <3>3 DEF CloseInv
      <4>2. CASE d # c
        <5>1. HoldsSlot(c) => Slot(c) # cenv[d]
          BY <1>0, <1>h, <4>1, <4>2 DEF OneOwner
        <5>. QED  BY <3>1, <4>1, <5>1
      <4>. QED  BY <3>1, <3>3, <4>1, <4>2
    <3>4. ASSUME hpc' \in {"killing", "down"}, DestroyNeverFailed'
          PROVE  /\ \A d \in Clients : cpc'[d] \in Releasing => Going(cenv[d])'
                 /\ \A e \in Range(idle') : Going(e)'
      <4>1. /\ \A d \in Clients : cpc[d] \in Releasing => Going(cenv[d])
            /\ \A e \in Range(idle) : Going(e)
        BY <1>0, <3>1, <3>4 DEF CloseInv
      <4>2. \A e \in Tracked : Going(e) => Going(e)'
        BY <3>1 DEF Going
      <4>3. Range(idle) \subseteq Tracked
        BY DEF Tracked
      <4>4. \A e \in Range(idle') : Going(e)'
        BY <1>h, <3>1, <4>1, <4>2, <4>3 DEF Releasing
      <4>5. \A d \in Clients : cpc'[d] \in Releasing => Going(cenv[d])'
        BY <1>h, <3>2, <4>1, <4>2 DEF Going
      <4>. QED  BY <4>4, <4>5
    <3>. QED  BY <3>3, <3>4 DEF CloseInv, Going
  <2>. QED  BY <2>1, <2>2
<1>2. CASE (\E e \in Envs : StartWarmOk(e)) \/ StartWarmFail \/ ReaperStep
  <2>1. ~Closed /\ hpc' = hpc
    BY <1>2 DEF StartWarmOk, StartWarmFail, Warmed, ReaperStep, Reap, AgedOut, Culled,
       ReaperWarmOk, ReaperWarmFail, CalmInv, TypeOK
  <2>. QED  BY <2>1 DEF CloseInv, Closed
<1>3. CASE ShutdownBegin
  <2>1. ~Closed /\ UNCHANGED <<cpc, cenv, inUse>> /\ hpc' \in {"awaitReaper", "draining"}
    BY <1>3 DEF ShutdownBegin, Closed
  <2>. QED  BY <1>0, <1>h, <2>1 DEF CloseInv, SlotsCounted
<1>4. CASE ReaperCancelled
  BY <1>4 DEF ReaperCancelled, CloseInv
<1>5. CASE DrainNext
  BY <1>5 DEF DrainNext, CloseInv
<1>6. CASE DrainEnd
  <2>1. Range(idle') = {}
    BY <1>6 DEF DrainEnd, Range
  <2>. QED  BY <1>h, <1>6, <2>1 DEF DrainEnd, CloseInv, Going
<1>7. CASE KillEnd
  BY <1>0, <1>7 DEF KillEnd, CloseInv, Going
<1>8. ASSUME NEW e \in Envs, ShutdownDestroyed(e)  PROVE CloseInv'
  <2>1. victims' = victims \ {e} /\ UNCHANGED <<idle, inUse, cpc, cenv, hpc>>
    BY <1>8 DEF ShutdownDestroyed
  <2>2. DestroyNeverFailed' => live' = live \ {e}
    BY <1>8, NeverFailed DEF ShutdownDestroyed
  <2>. QED  BY <1>0, <2>1, <2>2 DEF CloseInv, Going
<1>9. CASE (\E e \in Envs : Crash(e)) \/ Finished \/ UNCHANGED vars
  <2>1. UNCHANGED <<idle, inUse, cpc, cenv, hpc, victims>> /\ live' \subseteq live
    BY <1>9 DEF Crash, Finished, vars
  <2>. QED  BY <1>0, <2>1 DEF CloseInv, Going
<1>. QED  BY <1>1, <1>2, <1>3, <1>4, <1>5, <1>6, <1>7, <1>8, <1>9 DEF Next, ShutdownStep

\* After shutdown() and the end of the last session the pool knows of no running container,
\* if nobody was cancelled and the driver refused no destruction: whatever was acquired or
\* released meanwhile is destroyed by shutdown() or by its session.
THEOREM ShutsDownClean == ASSUME MinIdle <= 2 PROVE Spec => []ShutdownClean
<1>0. Tame
  BY DEF Tame
<1>. DEFINE Inv == TypeOK /\ StageInv /\ OwnerInv /\ NoLeak /\ HandsInv /\ CalmInv /\ CloseInv
<1>1. Init => Inv
  BY TypeInit, OwnerInit DEF Init, NoLeak, HandsInv, CalmInv, CloseInv, Closed
<1>2. Inv /\ [Next]_vars => Inv'
  BY <1>0, TypeStep, OwnerStep, NoLeakStep, HandsStep, CalmStep, CloseStep
<1>3. Inv => ShutdownClean
  <2>. SUFFICES ASSUME Inv, hpc = "down", AllOut, NobodyGone, DestroyNeverFailed,
                       NEW e \in live, e \in Tracked
                PROVE  FALSE
    BY DEF ShutdownClean
  <2>1. victims = {} /\ aged = <<>> /\ survivors = <<>> /\ dead = <<>>
    BY DEF CalmInv
  <2>2. e \notin Range(idle)
    BY <2>1 DEF CloseInv, Going
  <2>3. e \notin inUse
    BY DEF NoLeak, Held, HoldsSlot, Holding, AllOut
  <2>4. e \notin Range(cenv)
    <3>1. e # NoEnv /\ cenv \in [Clients -> Envs \cup {NoEnv}]
      BY PoolAssumption DEF TypeOK
    <3>2. \A c \in Clients : cenv[c] = NoEnv
      BY DEF HandsInv, EmptyHanded, AllOut
    <3>. QED  BY <3>1, <3>2 DEF Range
  <2>5. Range(<<>>) = {}
    BY DEF Range
  <2>. QED  BY <2>1, <2>2, <2>3, <2>4, <2>5 DEF Tracked
<1>. QED  BY <1>1, <1>2, <1>3, PTL DEF Spec

------------------------------------------------------------------------------
(* What the pool knows of, it does not forget. *)

\* A step of a client that is neither cancelled nor failed by the driver passes every
\* container on: what it takes from one place of the pool it puts in another.
LEMMA ClientPasses ==
    ASSUME TypeOK, StageInv, HandsInv, faults' = faults, NobodyGone',
           NEW c \in Clients, ClientStep(c),
           NEW e \in live \cap live', e \in Range(idle) \cup (inUse \cap Envs) \cup Range(cenv)
    PROVE  e \in Range(idle') \cup (inUse' \cap Envs) \cup Range(cenv')
<1>t. /\ idle \in Seq(Envs) /\ faults \in [FaultKinds -> 0..MaxFaults] /\ MaxFaults \in Nat
      /\ cpc \in [Clients -> ClientStates] /\ cenv \in [Clients -> Envs \cup {NoEnv}]
      /\ Envs \cap Clients = {} /\ NoEnv \notin Envs /\ live \subseteq Envs
  BY PoolAssumption DEF TypeOK
<1>. USE DEF queueVars, clientVars, Goto, GotoWith
<1>1. \A kind : ~Fault(kind)
  BY <1>t DEF Fault
<1>2. \A x : Destroyed(x) => x \notin live'
  BY <1>1 DEF Destroyed
<1>3. /\ \A d \in Clients \ {c} : cenv'[d] = cenv[d]
      /\ DOMAIN cenv' = Clients
  BY <1>t DEF ClientStep, BeginSession, LeaseIdle, StartCreate, Enqueue, CreateOk,
     CreateFail, HealthCheck, CountLease, Discard, Disposed, Wake, Timeout, EndSession,
     ReleaseCheck, Return, Retire, Retired, Cancel
<1>4. /\ \A d \in Clients : cenv'[d] \in Range(cenv')
      /\ e \in Range(cenv) => \E d \in Clients : e = cenv[d]
  BY <1>t, <1>3 DEF Range
<1>5. CASE LeaseIdle(c)
  <2>1. /\ idle # <<>> /\ idle' = Tail(idle) /\ inUse' = inUse \cup {Head(idle)}
        /\ cpc[c] = "wantLock"
    BY <1>5 DEF LeaseIdle, Reserve
  <2>2. e \in Range(idle) => e = Head(idle) \/ e \in Range(idle')
    BY <1>t, <2>1, HeadOrTail
  <2>3. cenv[c] = NoEnv
    BY <2>1 DEF HandsInv, EmptyHanded
  <2>4. e \in Range(cenv) => e \in Range(cenv')
    BY <1>t, <1>3, <1>4, <2>3
  <2>. QED  BY <1>t, <2>1, <2>2, <2>4
<1>6. ASSUME NEW x \in Envs, CreateOk(c, x)
      PROVE  e \in Range(idle') \cup (inUse' \cap Envs) \cup Range(cenv')
  <2>1. idle' = idle /\ inUse' = (inUse \ {c}) \cup {x} /\ cpc[c] = "creating"
    BY <1>6 DEF CreateOk
  <2>2. cenv[c] = NoEnv
    BY <2>1 DEF HandsInv, EmptyHanded
  <2>3. e \in Range(cenv) => e \in Range(cenv')
    BY <1>t, <1>3, <1>4, <2>2
  <2>. QED  BY <1>t, <2>1, <2>3
<1>7. CASE CreateFail(c)
  BY <1>1, <1>7 DEF CreateFail, CreateRefused
<1>8. CASE Discard(c) \/ Retire(c)
  <2>1. idle' = idle /\ inUse' = inUse \ {cenv[c]} /\ cenv' = cenv
    BY <1>8 DEF Discard, Retire
  <2>. QED  BY <1>4, <2>1
<1>9. CASE Disposed(c) \/ Retired(c)
  <2>1. UNCHANGED <<idle, inUse>> /\ Destroyed(cenv[c])
    BY <1>9 DEF Disposed, Retired
  <2>2. e # cenv[c]
    BY <1>2, <2>1
  <2>3. e \in Range(cenv) => e \in Range(cenv')
    BY <1>3, <1>4, <2>2
  <2>. QED  BY <2>1, <2>3
<1>10. CASE Wake(c)
  <2>1. idle # <<>> /\ idle' = Append(Tail(idle), Head(idle)) /\ UNCHANGED <<inUse, cenv>>
    BY <1>10 DEF Wake, PushedBack
  <2>2. Head(idle) \in Envs /\ Tail(idle) \in Seq(Envs)
    BY <1>t, <2>1
  <2>3. Range(idle') = Range(Tail(idle)) \cup {Head(idle)}
    <3>1. Range(Append(Tail(idle), Head(idle))) = Range(Tail(idle)) \cup {Head(idle)}
      <4>. DEFINE q == Tail(idle)
                  d == Head(idle)
      <4>1. q \in Seq(Envs) /\ d \in Envs
        BY <2>2
      <4>. HIDE DEF q, d
      <4>2. Range(Append(q, d)) = Range(q) \cup {d}
        BY <4>1, AppendKeeps
      <4>. QED  BY <4>2 DEF q, d
    <3>. QED  BY <2>1, <3>1
  <2>4. e \in Range(idle) => e \in Range(idle')
    BY <1>t, <2>1, <2>3, HeadOrTail
  <2>. QED  BY <2>1, <2>4
<1>11. CASE Return(c)
  <2>1. /\ idle' = Append(idle, cenv[c]) /\ inUse' = inUse \ {cenv[c]}
        /\ cenv[c] \in Envs
    BY <1>11 DEF Return, StageInv, Carrying, Holding
  <2>2. Range(idle') = Range(idle) \cup {cenv[c]}
    BY <1>t, <2>1, AppendKeeps
  <2>3. e \in Range(cenv) => e = cenv[c] \/ e \in Range(cenv')
    BY <1>3, <1>4
  <2>. QED  BY <2>1, <2>2, <2>3
<1>12. CASE Cancel(c)
  BY <1>t, <1>12 DEF Cancel, NobodyGone
<1>13. CASE StartCreate(c)
  BY <1>13 DEF StartCreate, Reserve
<1>14. CASE BeginSession(c) \/ Enqueue(c) \/ HealthCheck(c) \/ CountLease(c)
              \/ Timeout(c) \/ EndSession(c) \/ ReleaseCheck(c)
  BY <1>14 DEF BeginSession, Enqueue, HealthCheck, CountLease, Timeout, EndSession, ReleaseCheck
<1>. QED  BY <1>5, <1>6, <1>7, <1>8, <1>9, <1>10, <1>11, <1>12, <1>13, <1>14 DEF ClientStep

\* Without reaper, cancellation and driver faults every step passes on what it takes.
LEMMA StepPasses ==
    ASSUME TypeOK, StageInv, HandsInv, CalmInv, NoLeak, [Next]_vars,
           rpc = "none", faults' = faults, NobodyGone',
           NEW e \in live \cap live', e \in Tracked
    PROVE  e \in Tracked'
<1>t. /\ idle \in Seq(Envs) /\ faults \in [FaultKinds -> 0..MaxFaults] /\ MaxFaults \in Nat
      /\ cenv \in [Clients -> Envs \cup {NoEnv}] /\ e \in Envs
      /\ Envs \cap Clients = {}
  BY PoolAssumption DEF TypeOK
<1>. USE DEF queueVars, clientVars, driverVars, reaperVars, shutdownVars
<1>1. \A kind : ~Fault(kind)
  BY <1>t DEF Fault
<1>2. \A x : Destroyed(x) => x \notin live'
  BY <1>1 DEF Destroyed
<1>3. ASSUME NEW c \in Clients, ClientStep(c)  PROVE e \in Tracked'
  <2>1. UNCHANGED <<aged, survivors, dead, victims>>
    BY <1>3 DEF ClientStep, BeginSession, LeaseIdle, StartCreate, Enqueue, CreateOk, CreateFail,
       HealthCheck, CountLease, Discard, Disposed, Wake, Timeout, EndSession, ReleaseCheck, Return,
       Retire, Retired, Cancel
  <2>2. CASE e \in Range(idle) \cup (inUse \cap Envs) \cup Range(cenv)
    <3>1. e \in Range(idle') \cup (inUse' \cap Envs) \cup Range(cenv')
      BY <1>3, <2>2, ClientPasses
    <3>. QED  BY <3>1 DEF Tracked
  <2>. QED  BY <2>1, <2>2 DEF Tracked
<1>4. ASSUME NEW x \in Envs, StartWarmOk(x)  PROVE e \in Tracked'
  <2>1. Range(idle') = Range(idle) \cup {x}
    BY <1>t, <1>4, AppendKeeps DEF StartWarmOk, Warmed
  <2>2. UNCHANGED <<inUse, cenv, aged, survivors, dead, victims>>
    BY <1>4 DEF StartWarmOk, Warmed
  <2>. QED  BY <2>1, <2>2 DEF Tracked
<1>5. CASE StartWarmFail
  BY <1>1, <1>5 DEF StartWarmFail, CreateRefused
<1>6. CASE ReaperStep \/ ReaperCancelled
  BY <1>6 DEF ReaperStep, Reap, AgedOut, Culled, ReaperWarmOk, ReaperWarmFail,
     ReaperCancelled, StageInv
<1>7. CASE DrainNext
  <2>1. /\ idle # <<>> /\ victims = {} /\ victims' = {Head(idle)} /\ idle' = Tail(idle)
        /\ UNCHANGED <<inUse, cenv, aged, survivors, dead>>
    BY <1>7 DEF DrainNext
  <2>2. e \in Range(idle) => e \in Range(idle') \cup victims'
    BY <1>t, <2>1, HeadOrTail
  <2>. QED  BY <2>1, <2>2 DEF Tracked
<1>8. ASSUME NEW x \in Envs, ShutdownDestroyed(x)  PROVE e \in Tracked'
  <2>1. e # x /\ victims' = victims \ {x}
    BY <1>2, <1>8 DEF ShutdownDestroyed
  <2>2. UNCHANGED <<idle, inUse, cenv, aged, survivors, dead>>
    BY <1>8 DEF ShutdownDestroyed
  <2>. QED  BY <2>1, <2>2 DEF Tracked
<1>9. CASE DrainEnd
  BY <1>9 DEF DrainEnd, Tracked
<1>10. CASE KillEnd
  <2>1. UNCHANGED <<idle, cpc, cenv, aged, survivors, dead, victims>>
    BY <1>10 DEF KillEnd
  <2>2. ASSUME e \in inUse PROVE e \in Range(cenv)
    <3>1. PICK d \in Clients : HoldsSlot(d) /\ Slot(d) = e
      BY <2>1, <2>2 DEF NoLeak, NobodyGone, Held
    <3>2. e = cenv[d]
      BY <1>t, <3>1 DEF Slot
    <3>. QED  BY <1>t, <3>2 DEF Range
  <2>. QED  BY <2>1, <2>2 DEF Tracked
<1>11. CASE ShutdownBegin \/ (\E x \in Envs : Crash(x)) \/ Finished \/ UNCHANGED vars
  <2>1. UNCHANGED <<idle, inUse, cenv, aged, survivors, dead, victims>>
    BY <1>11 DEF ShutdownBegin, Crash, Finished, vars
  <2>. QED  BY <2>1 DEF Tracked
<1>. QED  BY <1>3, <1>4, <1>5, <1>6, <1>7, <1>8, <1>9, <1>10, <1>11 DEF Next, ShutdownStep

\* Without reaper, cancellation and driver faults no step of a session, of start() or of
\* shutdown() lets go of a container that Docker keeps running.
THEOREM NothingLost == Spec => NoContainerLost
<1>. DEFINE Inv == TypeOK /\ StageInv /\ HandsInv /\ CalmInv /\ NoLeak
<1>1. Init => Inv
  BY TypeInit DEF Init, NoLeak, HandsInv, CalmInv, Closed
<1>2. Inv /\ [Next]_vars => Inv'
  BY TypeStep, NoLeakStep, HandsStep, CalmStep
<1>3. Inv /\ [Next]_vars
        => [rpc = "none" /\ faults' = faults /\ NobodyGone'
              => \A e \in live \cap live' : e \in Tracked => e \in Tracked']_vars
  BY StepPasses
<1>. QED  BY <1>1, <1>2, <1>3, PTL DEF Spec, NoContainerLost
==============================================================================

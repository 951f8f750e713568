---------------------------- MODULE EventBusProofs ----------------------------
(***************************************************************************)
(* What every subscriber gets: the events it asked for, in their order, and *)
(* a true count of those it has missed; and that events and committed rows  *)
(* tell the same story.                                                     *)
(***************************************************************************)
EXTENDS ExecutionEvents, ExecutionServiceProofs, FiniteSetTheorems

USE BusAssumption

------------------------------------------------------------------------------
(* Sequences of events on their way. *)

\* In the order of publication.
InOrder(q) == \A i, j \in 1..Len(q) : i < j => q[i] < q[j]

\* Published after the event lo, and asked for by s.
Wanted(s, q, lo) ==
    \A n \in ToSet(q) : n \in 1..Len(published) /\ lo < n /\ published[n] \in Asked[s]

\* All of q comes before all of r.
Precedes(q, r) == \A m \in ToSet(q), n \in ToSet(r) : m < n

\* A subscriber has got what comes before the events on the wire, and those come before
\* the events in its queue.
OnTheWay(s) ==
    /\ InOrder(wire[s]) /\ InOrder(queue[s]) /\ Precedes(wire[s], queue[s])
    /\ Wanted(s, wire[s], upTo[s]) /\ Wanted(s, queue[s], upTo[s])

\* Before a subscription begins there is nothing to count.
Begun(s) ==
    /\ since[s] \in -1..Len(published)
    /\ stage[s] \in {"off", "asked"} => since[s] = -1
    /\ since[s] = -1 => /\ queue[s] = <<>> /\ wire[s] = <<>> /\ got[s] = <<>>
                        /\ lost[s] = 0
    /\ since[s] # -1 => upTo[s] \in 0..Len(published)

\* Types, as far as the argument needs them.
Types ==
    /\ published \in Seq(Events)
    /\ stage \in [Subscribers -> {"off", "asked", "on", "left", "silent", "gone"}]
    /\ lost \in [Subscribers -> Nat] /\ since \in [Subscribers -> Int]
    /\ queue \in [Subscribers -> Seq(Nat)] /\ wire \in [Subscribers -> Seq(Nat)]
    /\ got \in [Subscribers -> Seq(Nat)]

\* The invariant: every subscriber has begun or has nothing, its events are in order.
FeedInv ==
    /\ Types
    /\ \A s \in Subscribers : Begun(s) /\ OnTheWay(s) /\ (s \notin Remote => wire[s] = <<>>)

\* What a sequence becomes when something is appended to it.
LEMMA Appended ==
    ASSUME NEW S, NEW q \in Seq(S), NEW e \in S
    PROVE  /\ Append(q, e) \in Seq(S) /\ Append(q, e) # <<>> /\ Last(Append(q, e)) = e
           /\ Len(q) \in Nat /\ Len(Append(q, e)) = Len(q) + 1
           /\ \A i \in 1..Len(q) : Append(q, e)[i] = q[i]
           /\ Append(q, e)[Len(q) + 1] = e
<1>1. /\ Append(q, e) \in Seq(S) /\ Len(q) \in Nat /\ Len(Append(q, e)) = Len(q) + 1
      /\ Append(q, e)[Len(q) + 1] = e
  OBVIOUS
<1>2. \A i \in 1..Len(q) : Append(q, e)[i] = q[i]
  OBVIOUS
<1>3. Append(q, e) # <<>>
  OBVIOUS
<1> QED  BY <1>1, <1>2, <1>3 DEF Last

\* An event appended to earlier ones leaves them in order.
LEMMA Ordered ==
    ASSUME NEW q \in Seq(Nat), NEW e \in Nat, InOrder(q), \A n \in ToSet(q) : n < e
    PROVE  InOrder(Append(q, e)) /\ ToSet(Append(q, e)) = ToSet(q) \cup {e}
<1> DEFINE r == Append(q, e)
<1>1. /\ Len(q) \in Nat /\ Len(r) = Len(q) + 1 /\ DOMAIN q = 1..Len(q) /\ DOMAIN r = 1..Len(r)
      /\ r[Len(q) + 1] = e
  BY Appended
<1>2. \A i \in 1..Len(q) : r[i] = q[i] /\ q[i] \in ToSet(q)
  BY <1>1, Appended DEF ToSet
<1>3. \A i \in 1..Len(r) : i \in 1..Len(q) \/ i = Len(q) + 1
  BY <1>1
<1>4. ASSUME NEW i \in 1..Len(r), NEW j \in 1..Len(r), i < j  PROVE r[i] < r[j]
  <2>1. i \in 1..Len(q)
    BY <1>1, <1>3, <1>4
  <2>2. CASE j = Len(q) + 1
    BY <1>1, <1>2, <2>1, <2>2
  <2>3. CASE j \in 1..Len(q)
    BY <1>2, <1>4, <2>1, <2>3 DEF InOrder
  <2> QED  BY <1>3, <2>2, <2>3
<1>5. ToSet(r) = ToSet(q) \cup {e}
  <2>1. ToSet(r) \subseteq ToSet(q) \cup {e}
    BY <1>1, <1>2, <1>3 DEF ToSet
  <2>2. e \in ToSet(r)
    BY <1>1 DEF ToSet
  <2>3. \A i \in 1..Len(q) : i \in 1..Len(r)
    BY <1>1
  <2>4. ToSet(q) \subseteq ToSet(r)
    BY <1>1, <1>2, <2>3 DEF ToSet
  <2> QED  BY <2>1, <2>2, <2>4
<1> QED  BY <1>4, <1>5 DEF InOrder

\* The first of several in order comes before the rest of them.
LEMMA Shortened ==
    ASSUME NEW q \in Seq(Nat), q # <<>>
    PROVE  /\ Len(q) \in Nat /\ Head(q) \in Nat
           /\ Tail(q) \in Seq(Nat) /\ Len(Tail(q)) = Len(q) - 1
           /\ Head(q) \in ToSet(q) /\ ToSet(Tail(q)) \subseteq ToSet(q)
           /\ InOrder(q) => InOrder(Tail(q)) /\ \A n \in ToSet(Tail(q)) : Head(q) < n
<1>1. /\ Len(q) \in Nat /\ Len(q) >= 1 /\ Head(q) = q[1] /\ Head(q) \in Nat
      /\ Tail(q) \in Seq(Nat) /\ Len(Tail(q)) = Len(q) - 1
      /\ DOMAIN q = 1..Len(q) /\ DOMAIN Tail(q) = 1..(Len(q) - 1)
  OBVIOUS
<1>2. \A i \in 1..(Len(q) - 1) : Tail(q)[i] = q[i + 1] /\ i + 1 \in 1..Len(q)
  BY <1>1
<1>3. Head(q) \in ToSet(q)
  <2>1. 1 \in 1..Len(q)
    BY <1>1
  <2> QED  BY <1>1, <2>1 DEF ToSet
<1>4. ToSet(Tail(q)) \subseteq ToSet(q)
  BY <1>1, <1>2 DEF ToSet
<1>5. ASSUME InOrder(q)  PROVE InOrder(Tail(q)) /\ \A n \in ToSet(Tail(q)) : Head(q) < n
  <2>1. ASSUME NEW i \in 1..(Len(q) - 1), NEW j \in 1..(Len(q) - 1), i < j
        PROVE  Tail(q)[i] < Tail(q)[j]
    <3>1. i + 1 < j + 1
      BY <2>1
    <3> QED  BY <1>2, <1>5, <3>1 DEF InOrder
  <2>2. ASSUME NEW i \in 1..(Len(q) - 1)  PROVE Head(q) < Tail(q)[i]
    <3>1. 1 \in 1..Len(q) /\ 1 < i + 1
      BY <1>1
    <3> QED  BY <1>1, <1>2, <1>5, <3>1 DEF InOrder
  <2> QED  BY <1>1, <2>1, <2>2 DEF InOrder, ToSet
<1> QED  BY <1>1, <1>3, <1>4, <1>5

\* Every step of the composition is one of the bus, or none.
BusNext ==
    \/ \E ev \in Events : Publish(ev)
    \/ \E s \in Subscribers : SubscriberStep(s)
    \/ SubscribersLost
    \/ UNCHANGED busVars

\* Seen from the bus, a step of the composition is one of its own, or nothing.
LEMMA StepOfBus == [EventsNext]_eventVars => BusNext
<1> SUFFICES ASSUME [EventsNext]_eventVars PROVE BusNext
  OBVIOUS
<1>1. ASSUME NEW x \in Execs, Announce(x)  PROVE BusNext
  <2>1. Announced(x) \subseteq Kinds
    BY DEF Announced, Kinds
  <2>2. \A kind \in Kinds : Event(x, kind) \in Events
    BY EventsAssumption
  <2> QED  BY <1>1, <2>1, <2>2 DEF Announce, BusNext
<1> QED  BY <1>1 DEF EventsNext, eventVars, BusNext

\* Every step of the bus keeps the types.
LEMMA BusTypes == Types /\ BusNext => Types'
<1> SUFFICES ASSUME Types, BusNext PROVE Types'
  OBVIOUS
<1>1. ASSUME NEW ev \in Events, Publish(ev)  PROVE Types'
  <2>1. Len(published) + 1 \in Nat /\ Append(published, ev) \in Seq(Events)
    BY DEF Types
  <2>2. \A s \in Subscribers : Append(queue[s], Len(published) + 1) \in Seq(Nat)
    BY <2>1 DEF Types
  <2> QED  BY <1>1, <2>1, <2>2 DEF Publish, Types
<1>2. ASSUME NEW s \in Subscribers, SubscriberStep(s)  PROVE Types'
  <2>1. /\ queue[s] \in Seq(Nat) /\ wire[s] \in Seq(Nat) /\ got[s] \in Seq(Nat)
        /\ Len(published) \in Int /\ <<>> \in Seq(Nat)
    BY DEF Types
  <2>2. \A q \in Seq(Nat) : q # <<>> => Head(q) \in Nat /\ Tail(q) \in Seq(Nat)
    BY Shortened
  <2>3. \A q \in Seq(Nat), e \in Nat : Append(q, e) \in Seq(Nat)
    OBVIOUS
  <2>4. CASE Take(s)
    <3>1. Head(queue[s]) \in Nat /\ Tail(queue[s]) \in Seq(Nat)
      BY <2>1, <2>2, <2>4 DEF Take
    <3>2. /\ Append(wire[s], Head(queue[s])) \in Seq(Nat)
          /\ Append(got[s], Head(queue[s])) \in Seq(Nat)
      BY <2>1, <2>3, <3>1
    <3>3. CASE s \in Remote
      BY <2>4, <3>1, <3>2, <3>3 DEF Take, Types
    <3>4. CASE s \notin Remote
      BY <2>4, <3>1, <3>2, <3>4 DEF Take, Types
    <3> QED  BY <3>3, <3>4
  <2>5. CASE Receive(s)
    BY <2>1, <2>2, <2>3, <2>5 DEF Receive, Types
  <2>6. CASE Subscribe(s) \/ Register(s) \/ Leave(s) \/ FallSilent(s) \/ Unsubscribe(s)
    <3>1. CASE Subscribe(s) \/ Leave(s) \/ FallSilent(s)
      BY <3>1 DEF Subscribe, Leave, FallSilent, StageTo, Types
    <3>2. CASE Register(s)
      BY <2>1, <3>2 DEF Register, StageTo, Types
    <3>3. CASE Unsubscribe(s)
      BY <2>1, <3>3 DEF Unsubscribe, StageTo, Types
    <3> QED  BY <2>6, <3>1, <3>2, <3>3
  <2> QED  BY <1>2, <2>4, <2>5, <2>6 DEF SubscriberStep
<1>3. CASE SubscribersLost
  <2>1. <<>> \in Seq(Nat)
    OBVIOUS
  <2> QED  BY <1>3, <2>1 DEF SubscribersLost, Types
<1>4. CASE UNCHANGED busVars
  BY <1>4 DEF busVars, Types
<1> QED  BY <1>1, <1>2, <1>3, <1>4 DEF BusNext

------------------------------------------------------------------------------
(* The order. *)

\* How far a subscriber is, now and next.
LEMMA UpToIs ==
    ASSUME NEW s \in Subscribers
    PROVE  /\ upTo[s] = IF got[s] = <<>> THEN since[s] ELSE Last(got[s])
           /\ (upTo')[s] = IF got'[s] = <<>> THEN since'[s] ELSE Last(got'[s])
BY DEF upTo

\* The invariant, for one subscriber.
Fine(u) == Begun(u) /\ OnTheWay(u) /\ (u \notin Remote => wire[u] = <<>>)

\* Nothing happens to u.
Untouched(u) ==
    /\ published' = published /\ stage'[u] = stage[u] /\ since'[u] = since[u]
    /\ queue'[u] = queue[u] /\ wire'[u] = wire[u] /\ got'[u] = got[u] /\ lost'[u] = lost[u]

\* A subscriber to which nothing happens stays as it is.
LEMMA UntouchedFine == ASSUME NEW u \in Subscribers, Fine(u), Untouched(u)  PROVE Fine(u)'
<1>1. (upTo')[u] = upTo[u]
  BY UpToIs DEF Untouched
<1> QED  BY <1>1 DEF Fine, Untouched, Begun, OnTheWay, InOrder, Precedes, Wanted

\* A new event goes behind everything that is on the way.
LEMMA PublishFine ==
    ASSUME Types, NEW u \in Subscribers, Fine(u), NEW ev \in Events, Publish(ev)
    PROVE  Fine(u)'
<1> DEFINE n == Len(published) + 1
<1>0. /\ n \in Nat /\ Len(published) \in Nat /\ Len(published') = n
      /\ \A k \in 1..Len(published) : published'[k] = published[k]
      /\ published'[n] = ev
  BY Appended DEF Types, Publish
<1>1. /\ stage'[u] = stage[u] /\ since'[u] = since[u] /\ wire'[u] = wire[u] /\ got'[u] = got[u]
      /\ (upTo')[u] = upTo[u]
      /\ queue[u] \in Seq(Nat)
      /\ lost[u] \in Nat /\ lost'[u] \in {lost[u], lost[u] + 1}
      /\ \/ queue'[u] = queue[u] /\ (since[u] = -1 => lost'[u] = lost[u])
         \/ queue'[u] = Append(queue[u], n) /\ since[u] # -1 /\ ev \in Asked[u] /\ lost'[u] = lost[u]
  BY UpToIs DEF Publish, Types, Listed, Fits
<1>2. Begun(u)'
  BY <1>0, <1>1 DEF Fine, Begun
<1>3. ASSUME NEW q, Wanted(u, q, upTo[u])
      PROVE  \A m \in ToSet(q) : m \in 1..n /\ m < n /\ upTo[u] < m /\ published'[m] \in Asked[u]
  BY <1>0, <1>3 DEF Wanted
<1>4. \A m \in ToSet(wire[u]) : m \in 1..n /\ m < n /\ upTo[u] < m /\ published'[m] \in Asked[u]
  BY <1>3 DEF Fine, OnTheWay
<1>5. \A m \in ToSet(queue[u]) : m \in 1..n /\ m < n /\ upTo[u] < m /\ published'[m] \in Asked[u]
  BY <1>3 DEF Fine, OnTheWay
<1>6. InOrder(wire[u])' /\ Wanted(u, wire[u], upTo[u])'
  BY <1>0, <1>1, <1>4 DEF Fine, OnTheWay, InOrder, Wanted
<1>7. ASSUME queue'[u] = Append(queue[u], n), since[u] # -1, ev \in Asked[u]
      PROVE  InOrder(queue[u])' /\ Precedes(wire[u], queue[u])' /\ Wanted(u, queue[u], upTo[u])'
  <2>1. InOrder(Append(queue[u], n)) /\ ToSet(queue'[u]) = ToSet(queue[u]) \cup {n}
    BY <1>0, <1>1, <1>5, <1>7, Ordered DEF Fine, OnTheWay
  <2>2. upTo[u] < n /\ n \in 1..n
    BY <1>0, <1>7 DEF Fine, Begun
  <2>3. InOrder(queue[u])'
    BY <1>7, <2>1 DEF InOrder
  <2>4. Precedes(wire[u], queue[u])'
    BY <1>1, <1>4, <2>1 DEF Fine, OnTheWay, Precedes
  <2>5. Wanted(u, queue[u], upTo[u])'
    BY <1>0, <1>1, <1>5, <1>7, <2>1, <2>2 DEF Wanted
  <2> QED  BY <2>3, <2>4, <2>5
<1>8. ASSUME queue'[u] = queue[u]
      PROVE  InOrder(queue[u])' /\ Precedes(wire[u], queue[u])' /\ Wanted(u, queue[u], upTo[u])'
  BY <1>0, <1>1, <1>5, <1>8 DEF Fine, OnTheWay, InOrder, Precedes, Wanted
<1> QED  BY <1>1, <1>2, <1>6, <1>7, <1>8 DEF Fine, OnTheWay

\* How far a subscriber may be.
LEMMA UpToRange ==
    ASSUME Types, NEW s \in Subscribers, Fine(s)
    PROVE  upTo[s] \in Int /\ (upTo[s] = -1 <=> since[s] = -1)
<1>1. since[s] # -1 => upTo[s] \in 0..Len(published)
  BY DEF Fine, Begun
<1>2. since[s] = -1 => upTo[s] = -1
  BY UpToIs DEF Fine, Begun
<1>3. Len(published) \in Nat
  BY DEF Types
<1> QED  BY <1>1, <1>2, <1>3

\* Delivery of the first event of what is on the way, i.
Delivers(s, i) ==
    /\ (upTo')[s] = i /\ i \in 1..Len(published) /\ i > upTo[s] /\ upTo[s] # -1
    /\ published[i] \in Asked[s]

\* What goes onto the wire comes behind it, and before what is left in the queue.
LEMMA TakeRemoteFine ==
    ASSUME Types, NEW s \in Subscribers, Fine(s), Take(s), s \in Remote
    PROVE  Fine(s)' /\ (upTo')[s] = upTo[s]
<1> DEFINE q == queue[s]  r == wire[s]
<1>1. q \in Seq(Nat) /\ r \in Seq(Nat) /\ q # <<>> /\ since[s] # -1
  BY DEF Types, Take, Listed
<1>2. /\ queue'[s] = Tail(q) /\ wire'[s] = Append(r, Head(q)) /\ got'[s] = got[s]
      /\ UNCHANGED <<published, stage, lost, since>>
  BY DEF Types, Take
<1>3. (upTo')[s] = upTo[s]
  BY <1>2, UpToIs
<1>4. /\ InOrder(r) /\ InOrder(q) /\ \A m \in ToSet(r), n \in ToSet(q) : m < n
      /\ Wanted(s, r, upTo[s]) /\ Wanted(s, q, upTo[s])
  BY DEF Fine, OnTheWay, Precedes
<1>5. /\ Head(q) \in Nat /\ Head(q) \in ToSet(q) /\ ToSet(Tail(q)) \subseteq ToSet(q)
      /\ InOrder(Tail(q)) /\ \A n \in ToSet(Tail(q)) : Head(q) < n
  BY <1>1, <1>4, Shortened
<1>6. InOrder(Append(r, Head(q))) /\ ToSet(Append(r, Head(q))) = ToSet(r) \cup {Head(q)}
  BY <1>1, <1>4, <1>5, Ordered
<1>7. OnTheWay(s)'
  <2>1. InOrder(wire[s])' /\ InOrder(queue[s])'
    BY <1>2, <1>5, <1>6 DEF InOrder
  <2>2. Precedes(wire[s], queue[s])'
    BY <1>2, <1>4, <1>5, <1>6 DEF Precedes
  <2>3. Wanted(s, wire[s], upTo[s])' /\ Wanted(s, queue[s], upTo[s])'
    BY <1>2, <1>3, <1>4, <1>5, <1>6 DEF Wanted
  <2> QED  BY <2>1, <2>2, <2>3 DEF OnTheWay
<1>8. Begun(s)'
  BY <1>1, <1>2, <1>3 DEF Fine, Begun
<1> QED  BY <1>3, <1>7, <1>8 DEF Fine

\* The same in the process of the bus, where what is taken is received at once.
LEMMA TakeLocalFine ==
    ASSUME Types, NEW s \in Subscribers, Fine(s), Take(s), s \notin Remote
    PROVE  Fine(s)' /\ Delivers(s, Head(queue[s]))
<1> DEFINE q == queue[s]
<1>1. q \in Seq(Nat) /\ got[s] \in Seq(Nat) /\ q # <<>> /\ since[s] # -1
  BY DEF Types, Take, Listed
<1>2. /\ queue'[s] = Tail(q) /\ got'[s] = Append(got[s], Head(q)) /\ wire'[s] = wire[s]
      /\ UNCHANGED <<published, stage, lost, since>>
  BY DEF Types, Take
<1>3. InOrder(q) /\ Wanted(s, q, upTo[s]) /\ wire[s] = <<>>
  BY DEF Fine, OnTheWay
<1>4. /\ Head(q) \in Nat /\ Head(q) \in ToSet(q) /\ ToSet(Tail(q)) \subseteq ToSet(q)
      /\ InOrder(Tail(q)) /\ \A n \in ToSet(Tail(q)) : Head(q) < n
  BY <1>1, <1>3, Shortened
<1>5. (upTo')[s] = Head(q)
  <2>1. Append(got[s], Head(q)) # <<>> /\ Last(Append(got[s], Head(q))) = Head(q)
    BY <1>1, <1>4, Appended
  <2> QED  BY <1>2, <2>1, UpToIs
<1>6. upTo[s] # -1
  BY <1>1, UpToRange
<1>7. Delivers(s, Head(q))
  BY <1>3, <1>4, <1>5, <1>6 DEF Wanted, Delivers
<1>8. OnTheWay(s)'
  <2>1. ToSet(<<>>) = {} /\ InOrder(<<>>)
    BY DEF ToSet, InOrder
  <2>2. InOrder(wire[s])' /\ InOrder(queue[s])'
    BY <1>2, <1>3, <1>4, <2>1 DEF InOrder
  <2>3. Precedes(wire[s], queue[s])' /\ Wanted(s, wire[s], upTo[s])'
    BY <1>2, <1>3, <2>1 DEF Precedes, Wanted
  <2>4. Wanted(s, queue[s], upTo[s])'
    BY <1>2, <1>3, <1>4, <1>5 DEF Wanted
  <2> QED  BY <2>2, <2>3, <2>4 DEF OnTheWay
<1>9. Begun(s)'
  BY <1>1, <1>2, <1>7 DEF Fine, Begun, Delivers
<1> QED  BY <1>2, <1>3, <1>7, <1>8, <1>9 DEF Fine

\* The first event on the wire is the next one to receive.
LEMMA ReceiveFine ==
    ASSUME Types, NEW s \in Subscribers, Fine(s), Receive(s)
    PROVE  Fine(s)' /\ Delivers(s, Head(wire[s]))
<1> DEFINE r == wire[s]
<1>1. r \in Seq(Nat) /\ got[s] \in Seq(Nat) /\ r # <<>> /\ since[s] # -1
  BY DEF Types, Receive, Fine, Begun
<1>2. /\ wire'[s] = Tail(r) /\ got'[s] = Append(got[s], Head(r)) /\ queue'[s] = queue[s]
      /\ UNCHANGED <<published, stage, lost, since>>
  BY DEF Types, Receive
<1>3. /\ InOrder(r) /\ Wanted(s, r, upTo[s]) /\ InOrder(queue[s]) /\ Wanted(s, queue[s], upTo[s])
      /\ \A m \in ToSet(r), n \in ToSet(queue[s]) : m < n
  BY DEF Fine, OnTheWay, Precedes
<1>4. /\ Head(r) \in Nat /\ Head(r) \in ToSet(r) /\ ToSet(Tail(r)) \subseteq ToSet(r)
      /\ InOrder(Tail(r)) /\ \A n \in ToSet(Tail(r)) : Head(r) < n
  BY <1>1, <1>3, Shortened
<1>5. (upTo')[s] = Head(r)
  <2>1. Append(got[s], Head(r)) # <<>> /\ Last(Append(got[s], Head(r))) = Head(r)
    BY <1>1, <1>4, Appended
  <2> QED  BY <1>2, <2>1, UpToIs
<1>6. upTo[s] # -1
  BY <1>1, UpToRange
<1>7. Delivers(s, Head(r))
  BY <1>3, <1>4, <1>5, <1>6 DEF Wanted, Delivers
<1>8. OnTheWay(s)'
  <2>1. InOrder(wire[s])' /\ InOrder(queue[s])'
    BY <1>2, <1>3, <1>4 DEF InOrder
  <2>2. Precedes(wire[s], queue[s])'
    BY <1>2, <1>3, <1>4 DEF Precedes
  <2>3. Wanted(s, wire[s], upTo[s])' /\ Wanted(s, queue[s], upTo[s])'
    BY <1>2, <1>3, <1>4, <1>5 DEF Wanted
  <2> QED  BY <2>1, <2>2, <2>3 DEF OnTheWay
<1>9. Begun(s)'
  BY <1>1, <1>2, <1>7 DEF Fine, Begun, Delivers
<1>10. s \in Remote
  BY <1>1 DEF Fine
<1> QED  BY <1>7, <1>8, <1>9, <1>10 DEF Fine

\* At first nothing is on its way.
LEMMA InitFeed == EventsInit => FeedInv
<1> SUFFICES ASSUME BusInit PROVE FeedInv
  BY DEF EventsInit
<1>1. <<>> \in Seq(Nat) /\ <<>> \in Seq(Events) /\ Len(published) = 0 /\ ToSet(<<>>) = {}
  BY DEF BusInit, ToSet
<1>2. Types
  BY <1>1 DEF BusInit, Types
<1>3. ASSUME NEW s \in Subscribers
      PROVE  Begun(s) /\ OnTheWay(s) /\ (s \notin Remote => wire[s] = <<>>)
  BY <1>1 DEF BusInit, Begun, OnTheWay, InOrder, Precedes, Wanted
<1> QED  BY <1>2, <1>3 DEF FeedInv

\* A step of s leaves the others alone.
LEMMA OthersUntouched ==
    ASSUME Types, NEW s \in Subscribers, SubscriberStep(s), NEW u \in Subscribers, u # s
    PROVE  Untouched(u)
<1>1. CASE Take(s)
  BY <1>1 DEF Take, Types, Untouched
<1>2. CASE Subscribe(s) \/ Register(s) \/ Receive(s) \/ Leave(s) \/ FallSilent(s) \/ Unsubscribe(s)
  BY <1>2 DEF Subscribe, Register, Receive, Leave, FallSilent, Unsubscribe, StageTo, Types, Untouched
<1> QED  BY <1>1, <1>2 DEF SubscriberStep

\* A subscription begins with nothing on the way; and what ends it takes away what was.
LEMMA StageFine ==
    ASSUME Types, NEW s \in Subscribers, Fine(s),
           Subscribe(s) \/ Register(s) \/ Leave(s) \/ FallSilent(s) \/ Unsubscribe(s)
    PROVE  /\ Fine(s)'
           /\ IF Register(s) THEN upTo[s] = -1 /\ (upTo')[s] = Len(published)
                             ELSE (upTo')[s] = upTo[s]
<1>0. ToSet(<<>>) = {} /\ InOrder(<<>>) /\ Len(published) \in Nat
  BY DEF ToSet, InOrder, Types
<1>1. CASE Register(s)
  <2>1. /\ published' = published /\ stage[s] = "asked" /\ stage'[s] = "on" /\ since[s] = -1
        /\ since'[s] = Len(published) /\ got'[s] = <<>> /\ got[s] = <<>>
        /\ queue'[s] = <<>> /\ wire'[s] = <<>> /\ lost' = lost
    BY <1>1 DEF Register, StageTo, Types, Fine, Begun
  <2>2. upTo[s] = -1 /\ (upTo')[s] = Len(published)
    BY <2>1, UpToIs
  <2>3. OnTheWay(s)'
    BY <1>0, <2>1 DEF OnTheWay, InOrder, Precedes, Wanted
  <2>4. Begun(s)'
    BY <1>0, <2>1, <2>2 DEF Begun
  <2> QED  BY <1>1, <2>1, <2>2, <2>3, <2>4 DEF Fine
<1>2. ASSUME Subscribe(s) \/ Leave(s) \/ FallSilent(s) \/ Unsubscribe(s)
      PROVE  Fine(s)' /\ (upTo')[s] = upTo[s] /\ ~Register(s)
  <2>1. /\ published' = published /\ since'[s] = since[s] /\ got'[s] = got[s] /\ lost'[s] = lost[s]
        /\ stage'[s] \in {"off", "asked"} => stage[s] \in {"off", "asked"}
        /\ \/ queue'[s] = queue[s] /\ wire'[s] = wire[s]
           \/ queue'[s] = <<>> /\ wire'[s] = <<>>
        /\ ~Register(s)
    BY <1>2 DEF Subscribe, Register, Leave, FallSilent, Unsubscribe, StageTo, Types
  <2>2. (upTo')[s] = upTo[s]
    BY <2>1, UpToIs
  <2>3. OnTheWay(s)'
    BY <1>0, <2>1, <2>2 DEF Fine, OnTheWay, InOrder, Precedes, Wanted
  <2>4. Begun(s)'
    BY <2>1, <2>2 DEF Fine, Begun
  <2> QED  BY <2>1, <2>2, <2>3, <2>4 DEF Fine
<1> QED  BY <1>1, <1>2

\* The crash takes away what was on the way.
LEMMA LostFine ==
    ASSUME Types, NEW s \in Subscribers, Fine(s), SubscribersLost
    PROVE  Fine(s)' /\ (upTo')[s] = upTo[s]
<1>0. ToSet(<<>>) = {} /\ InOrder(<<>>)
  BY DEF ToSet, InOrder
<1>1. /\ published' = published /\ since' = since /\ got' = got /\ lost' = lost
      /\ stage'[s] \in {"off", "asked"} => stage[s] = "off"
      /\ queue'[s] = <<>> /\ wire'[s] = <<>>
  BY DEF SubscribersLost, Types
<1>2. (upTo')[s] = upTo[s]
  BY <1>1, UpToIs
<1>3. OnTheWay(s)'
  BY <1>0, <1>1 DEF OnTheWay, InOrder, Precedes, Wanted
<1>4. Begun(s)'
  BY <1>1, <1>2 DEF Fine, Begun
<1> QED  BY <1>1, <1>2, <1>3, <1>4 DEF Fine

\* Every step preserves FeedInv.
LEMMA NextFeed == FeedInv /\ [EventsNext]_eventVars => FeedInv'
<1> SUFFICES ASSUME FeedInv, BusNext PROVE FeedInv'
  BY StepOfBus
<1>0. Types /\ \A u \in Subscribers : Fine(u)
  BY DEF FeedInv, Fine
<1>1. \A u \in Subscribers : Fine(u)'
  <2>1. ASSUME NEW s \in Subscribers, SubscriberStep(s)  PROVE Fine(s)'
    BY <1>0, <2>1, TakeRemoteFine, TakeLocalFine, ReceiveFine, StageFine DEF SubscriberStep
  <2>2. ASSUME UNCHANGED busVars, NEW u \in Subscribers  PROVE Untouched(u)
    BY <2>2 DEF busVars, Untouched
  <2> QED
    BY <1>0, <2>1, <2>2, PublishFine, LostFine, OthersUntouched, UntouchedFine DEF BusNext
<1>2. Types'
  BY <1>0, BusTypes
<1> QED  BY <1>1, <1>2 DEF FeedInv, Fine

\* What a step does to "how far": at most one subscriber advances, as EventFeed says.
LEMMA FeedStep == FeedInv /\ [EventsNext]_eventVars => [Feed!Next]_(Feed!feedVars)
<1> SUFFICES ASSUME FeedInv, BusNext PROVE Feed!Next \/ UNCHANGED <<published, upTo>>
  BY StepOfBus DEF Feed!feedVars
<1>0. /\ Types /\ \A u \in Subscribers : Fine(u)
      /\ upTo = [u \in Subscribers |-> upTo[u]] /\ upTo' = [u \in Subscribers |-> (upTo')[u]]
  BY DEF FeedInv, Fine, upTo
<1>1. ASSUME \A u \in Subscribers : (upTo')[u] = upTo[u]  PROVE upTo' = upTo
  BY <1>0, <1>1
<1>2. ASSUME NEW s \in Subscribers, NEW i, (upTo')[s] = i,
             \A u \in Subscribers : u # s => (upTo')[u] = upTo[u]
      PROVE  upTo' = [upTo EXCEPT ![s] = i]
  BY <1>0, <1>2
<1>3. ASSUME NEW ev \in Events, Publish(ev)  PROVE Feed!Publish(ev)
  <2>1. \A u \in Subscribers : (upTo')[u] = upTo[u]
    BY <1>3, UpToIs DEF Publish
  <2> QED  BY <1>1, <1>3, <2>1 DEF Publish, Feed!Publish
<1>4. ASSUME NEW s \in Subscribers, SubscriberStep(s)
      PROVE  Feed!Next \/ UNCHANGED <<published, upTo>>
  <2>1. published' = published
    BY <1>4 DEF SubscriberStep, Subscribe, Register, Take, Receive, Leave, FallSilent, Unsubscribe
  <2>2. \A u \in Subscribers : u # s => (upTo')[u] = upTo[u]
    BY <1>0, <1>4, OthersUntouched, UpToIs DEF Untouched
  <2>3. ASSUME NEW i, Delivers(s, i)  PROVE Feed!Next
    BY <1>2, <2>1, <2>2, <2>3 DEF Delivers, Feed!Deliver, Feed!Next
  <2>4. ASSUME Register(s)  PROVE Feed!Next
    BY <1>0, <1>2, <2>1, <2>2, <2>4, StageFine DEF Feed!Begin, Feed!Next
  <2>5. ASSUME (upTo')[s] = upTo[s]  PROVE UNCHANGED <<published, upTo>>
    BY <1>1, <2>1, <2>2, <2>5
  <2> QED
    BY <1>0, <1>4, <2>3, <2>4, <2>5, TakeRemoteFine, TakeLocalFine, ReceiveFine, StageFine
       DEF SubscriberStep
<1>5. CASE SubscribersLost
  BY <1>0, <1>1, <1>5, LostFine DEF SubscribersLost
<1>6. CASE UNCHANGED busVars
  BY <1>6 DEF busVars, upTo
<1> QED  BY <1>3, <1>4, <1>5, <1>6 DEF BusNext, Feed!Next

\* The bus implements EventFeed, whatever is published and however slow, silent or gone
\* a subscriber is.
THEOREM FeedKeepsOrder == EventsSpec => KeepsOrder
<1>1. EventsInit => Feed!Init
  BY DEF EventsInit, BusInit, Feed!Init, upTo
<1> QED  BY <1>1, InitFeed, NextFeed, FeedStep, PTL DEF EventsSpec, KeepsOrder, Feed!Spec

------------------------------------------------------------------------------
(* The count. *)

\* The count, for one subscriber.
Balanced(s) ==
    s \in Listed => Cardinality(Missed(s)) = Len(got[s]) + Len(wire[s]) + Len(queue[s]) + lost[s]

\* One more event, if it is asked for, is one more to account for.
LEMMA MissedGrows ==
    ASSUME Types, NEW s \in Subscribers, since[s] \in 0..Len(published), NEW ev \in Events, Publish(ev)
    PROVE  /\ IsFiniteSet(Missed(s)) /\ Cardinality(Missed(s)) \in Nat
           /\ Cardinality(Missed(s)') = Cardinality(Missed(s)) + (IF ev \in Asked[s] THEN 1 ELSE 0)
<1> DEFINE n == Len(published) + 1
<1>0. /\ n \in Nat /\ Len(published) \in Nat /\ Len(published') = n
      /\ \A k \in 1..Len(published) : published'[k] = published[k]
      /\ published'[n] = ev /\ since' = since /\ since[s] \in Int
  BY Appended DEF Types, Publish
<1>1. IsFiniteSet((since[s] + 1)..Len(published))
  <2>1. since[s] + 1 \in Int /\ Len(published) \in Int
    BY <1>0
  <2>2. \A a, b \in Int : IsFiniteSet(a..b)
    BY FS_Interval
  <2> QED  BY <2>1, <2>2
<1>2. IsFiniteSet(Missed(s))
  BY <1>1, FS_Subset DEF Missed
<1>3. Cardinality(Missed(s)) \in Nat
  BY <1>2, FS_CardinalityType
<1>4. Missed(s)' = IF ev \in Asked[s] THEN Missed(s) \cup {n} ELSE Missed(s)
  <2>1. (since[s] + 1)..n = (since[s] + 1)..Len(published) \cup {n}
    BY <1>0
  <2>2. \A k \in (since[s] + 1)..Len(published) : published'[k] = published[k]
    BY <1>0
  <2> QED  BY <1>0, <2>1, <2>2 DEF Missed
<1>5. n \notin Missed(s)
  BY <1>0 DEF Missed
<1>6. Cardinality(Missed(s) \cup {n}) = Cardinality(Missed(s)) + 1
  BY <1>2, <1>5, FS_AddElement
<1> QED  BY <1>2, <1>3, <1>4, <1>6

\* The count stays right for the subscriber of a step.
LEMMA StepBalanced ==
    ASSUME FeedInv, NEW s \in Subscribers, SubscriberStep(s), Balanced(s)
    PROVE  Balanced(s)'
<1>0. /\ Types /\ Fine(s) /\ queue[s] \in Seq(Nat) /\ wire[s] \in Seq(Nat) /\ got[s] \in Seq(Nat)
      /\ lost[s] \in Nat /\ Len(got[s]) \in Nat /\ Len(wire[s]) \in Nat /\ Len(queue[s]) \in Nat
  BY DEF FeedInv, Fine, Types
<1>1. ASSUME published' = published, since'[s] = since[s]  PROVE Missed(s)' = Missed(s)
  BY <1>1 DEF Missed
<1>2. CASE Take(s)
  <2>1. /\ published' = published /\ since' = since /\ stage' = stage /\ lost' = lost
        /\ s \in Listed /\ queue[s] # <<>> /\ queue'[s] = Tail(queue[s])
        /\ \/ wire'[s] = Append(wire[s], Head(queue[s])) /\ got' = got
           \/ got'[s] = Append(got[s], Head(queue[s])) /\ wire' = wire
    BY <1>0, <1>2 DEF Take, Types
  <2>2. Len(queue'[s]) = Len(queue[s]) - 1 /\ Head(queue[s]) \in Nat
    BY <1>0, <2>1, Shortened
  <2>3. \A q \in Seq(Nat) : Len(Append(q, Head(queue[s]))) = Len(q) + 1
    BY <2>2, Appended
  <2>4. \/ Len(got'[s]) = Len(got[s]) /\ Len(wire'[s]) = Len(wire[s]) + 1
        \/ Len(got'[s]) = Len(got[s]) + 1 /\ Len(wire'[s]) = Len(wire[s])
    BY <1>0, <2>1, <2>3
  <2>5. Len(got'[s]) + Len(wire'[s]) + Len(queue'[s]) + lost'[s]
          = Len(got[s]) + Len(wire[s]) + Len(queue[s]) + lost[s]
    <3> DEFINE g == Len(got[s])  w == Len(wire[s])  q == Len(queue[s])  l == lost[s]
               g1 == Len(got'[s])  w1 == Len(wire'[s])  q1 == Len(queue'[s])  l1 == lost'[s]
    <3>1. /\ q1 = q - 1 /\ l1 = l
          /\ \/ g1 = g /\ w1 = w + 1
             \/ g1 = g + 1 /\ w1 = w
      BY <2>1, <2>2, <2>4
    <3>2. g \in Nat /\ w \in Nat /\ q \in Nat /\ l \in Nat
      BY <1>0
    <3> HIDE DEF g, w, q, l, g1, w1, q1, l1
    <3>3. g1 + w1 + q1 + l1 = g + w + q + l
      BY <3>1, <3>2
    <3> QED  BY <3>3 DEF g, w, q, l, g1, w1, q1, l1
  <2> QED  BY <1>1, <2>1, <2>5 DEF Balanced
<1>3. CASE Receive(s)
  <2>1. /\ published' = published /\ since' = since /\ stage' = stage /\ lost' = lost
        /\ queue' = queue /\ wire[s] # <<>> /\ wire'[s] = Tail(wire[s])
        /\ got'[s] = Append(got[s], Head(wire[s]))
    BY <1>0, <1>3 DEF Receive, Types
  <2>2. Len(wire'[s]) = Len(wire[s]) - 1 /\ Head(wire[s]) \in Nat
    BY <1>0, <2>1, Shortened
  <2>3. Len(got'[s]) = Len(got[s]) + 1
    BY <1>0, <2>1, <2>2, Appended
  <2>4. Len(got'[s]) + Len(wire'[s]) + Len(queue'[s]) + lost'[s]
          = Len(got[s]) + Len(wire[s]) + Len(queue[s]) + lost[s]
    <3> DEFINE g == Len(got[s])  w == Len(wire[s])  q == Len(queue[s])  l == lost[s]
               g1 == Len(got'[s])  w1 == Len(wire'[s])  q1 == Len(queue'[s])  l1 == lost'[s]
    <3>1. g1 = g + 1 /\ w1 = w - 1 /\ q1 = q /\ l1 = l
      BY <2>1, <2>2, <2>3
    <3>2. g \in Nat /\ w \in Nat /\ q \in Nat /\ l \in Nat
      BY <1>0
    <3> HIDE DEF g, w, q, l, g1, w1, q1, l1
    <3>3. g1 + w1 + q1 + l1 = g + w + q + l
      BY <3>1, <3>2
    <3> QED  BY <3>3 DEF g, w, q, l, g1, w1, q1, l1
  <2>5. (s \in Listed)' <=> s \in Listed
    BY <2>1 DEF Listed
  <2> QED  BY <1>1, <2>1, <2>4, <2>5 DEF Balanced
<1>4. CASE Register(s)
  <2>1. /\ since'[s] = Len(published) /\ published' = published /\ lost'[s] = 0
        /\ got'[s] = <<>> /\ queue'[s] = <<>> /\ wire'[s] = <<>> /\ Len(published) \in Nat
    BY <1>0, <1>4 DEF Register, StageTo, Types, Fine, Begun
  <2>2. Missed(s)' = {}
    BY <2>1 DEF Missed
  <2> QED  BY <2>1, <2>2, FS_EmptySet DEF Balanced
<1>5. CASE Subscribe(s) \/ Leave(s) \/ FallSilent(s)
  <2>1. /\ published' = published /\ since' = since /\ lost' = lost /\ got' = got
        /\ queue' = queue /\ wire' = wire
        /\ (s \in Listed)' => s \in Listed
    BY <1>0, <1>5 DEF Subscribe, Leave, FallSilent, StageTo, Types, Listed, Fine, Begun
  <2> QED  BY <1>1, <2>1 DEF Balanced
<1>6. CASE Unsubscribe(s)
  BY <1>0, <1>6 DEF Unsubscribe, StageTo, Types, Listed, Balanced
<1> QED  BY <1>2, <1>3, <1>4, <1>5, <1>6 DEF SubscriberStep

\* Every step of the composition keeps every count right.
LEMMA NextBalanced ==
    FeedInv /\ LossCounted /\ [EventsNext]_eventVars => LossCounted'
<1> SUFFICES ASSUME FeedInv, LossCounted, BusNext, NEW s \in Subscribers
             PROVE  Balanced(s)'
  BY StepOfBus DEF LossCounted, Balanced, Listed
<1>0. Types /\ Fine(s) /\ Balanced(s)
  BY DEF FeedInv, Fine, LossCounted, Balanced
<1>1. ASSUME Untouched(s)  PROVE Balanced(s)'
  <2>1. Missed(s)' = Missed(s) /\ ((s \in Listed)' <=> s \in Listed)
    BY <1>1 DEF Untouched, Missed, Listed
  <2> QED  BY <1>0, <1>1, <2>1 DEF Untouched, Balanced
<1>2. ASSUME NEW u \in Subscribers, SubscriberStep(u)  PROVE Balanced(s)'
  BY <1>0, <1>1, <1>2, OthersUntouched, StepBalanced
<1>3. ASSUME NEW ev \in Events, Publish(ev)  PROVE Balanced(s)'
  <2> SUFFICES ASSUME s \in Listed  PROVE Balanced(s)'
    BY <1>3 DEF Publish, Listed, Balanced
  <2>1. since[s] \in 0..Len(published)
    BY <1>0 DEF Listed, Fine, Begun, Types
  <2>2. /\ Cardinality(Missed(s)) \in Nat
        /\ Cardinality(Missed(s)') = Cardinality(Missed(s)) + (IF ev \in Asked[s] THEN 1 ELSE 0)
    BY <1>0, <1>3, <2>1, MissedGrows
  <2>3. /\ got' = got /\ wire' = wire /\ queue[s] \in Seq(Nat) /\ lost[s] \in Nat
        /\ Len(got[s]) \in Nat /\ Len(wire[s]) \in Nat /\ Len(queue[s]) \in Nat
        /\ Len(published) + 1 \in Nat
    BY <1>0, <1>3 DEF Publish, Types
  <2>4. Len(Append(queue[s], Len(published) + 1)) = Len(queue[s]) + 1
    BY <2>3, Appended
  <2>5. Len(queue'[s]) + lost'[s] = Len(queue[s]) + lost[s] + (IF ev \in Asked[s] THEN 1 ELSE 0)
    <3>1. CASE ev \notin Asked[s]
      BY <1>0, <1>3, <2>3, <3>1 DEF Publish, Types
    <3>2. CASE ev \in Asked[s] /\ Fits(s)
      BY <1>0, <1>3, <2>3, <2>4, <3>2 DEF Publish, Types
    <3>3. CASE ev \in Asked[s] /\ ~Fits(s)
      BY <1>0, <1>3, <2>3, <3>3 DEF Publish, Types
    <3> QED  BY <3>1, <3>2, <3>3
  <2>6. Len(queue'[s]) \in Nat /\ lost'[s] \in Nat
    BY <1>0, <1>3, BusTypes DEF BusNext, Types
  <2>7. Cardinality(Missed(s)') = Len(got'[s]) + Len(wire'[s]) + Len(queue'[s]) + lost'[s]
    <3> DEFINE g == Len(got[s])  w == Len(wire[s])  q == Len(queue[s])  l == lost[s]
               g1 == Len(got'[s])  w1 == Len(wire'[s])  q1 == Len(queue'[s])  l1 == lost'[s]
               m == Cardinality(Missed(s))  m1 == Cardinality(Missed(s)')
               more == IF ev \in Asked[s] THEN 1 ELSE 0
    <3>1. m = g + w + q + l
      BY <1>0 DEF Balanced
    <3>2. g1 = g /\ w1 = w /\ q1 + l1 = q + l + more /\ m1 = m + more
      BY <2>2, <2>3, <2>5
    <3>3. /\ g \in Nat /\ w \in Nat /\ q \in Nat /\ l \in Nat /\ q1 \in Nat /\ l1 \in Nat
          /\ more \in Nat
      BY <2>3, <2>6
    <3> HIDE DEF g, w, q, l, g1, w1, q1, l1, m, m1, more
    <3>4. m1 = g1 + w1 + q1 + l1
      BY <3>1, <3>2, <3>3
    <3> QED  BY <3>4 DEF g1, w1, q1, l1, m1
  <2> QED  BY <2>7 DEF Balanced
<1>4. CASE SubscribersLost
  BY <1>0, <1>4 DEF SubscribersLost, Types, Listed, Balanced
<1>5. CASE UNCHANGED busVars
  BY <1>1, <1>5 DEF busVars, Untouched
<1> QED  BY <1>2, <1>3, <1>4, <1>5 DEF BusNext

\* The counter is right: what a live subscription asked for since it began it has received,
\* is on its way, or is counted as lost.
THEOREM LossIsCounted == EventsSpec => []LossCounted
<1>1. EventsInit => LossCounted
  BY DEF EventsInit, BusInit, LossCounted, Listed
<1> QED  BY <1>1, InitFeed, NextFeed, NextBalanced, PTL DEF EventsSpec

------------------------------------------------------------------------------
(* Events and rows tell the same story.  Of the rows the proof needs what ends    *)
(* in Step: a visible row is never behind the committed one, and moves forward.   *)

\* The workspace of an exec is not still to be created.
Rooted(x) == \A c \in Creates : Target[c] = Target[x] => pc[c] \notin {"new", "insertWs"}

\* The rank that the row of an exec has reached at a stage of it.
Due(l) == CASE l \in {"commitInsert", "start"} -> 1
            [] l \in {"commitStart", "session", "executing", "finish", "fail"} -> 2
            [] l \in {"commitFinish", "commitFail"} -> 3
            [] OTHER -> 0

\* The stages before the commit of the UPDATE to "running", those after it, and those
\* after the commit of the INSERT.
Early == {"new", "lookup", "insertEx", "commitInsert", "start", "commitStart"}
AfterStarted == {"session", "executing", "finish", "commitFinish", "fail", "commitFail"}
AfterQueued == {"start", "commitStart"} \cup AfterStarted

\* What has been said of an exec, stage by stage; a row that is gone does not come back.
Told(x) ==
    /\ pc[x] \in ExecStages \/ Said(x, "queued") => Rooted(x)
    /\ pc[x] \in AfterQueued => Said(x, "queued")
    /\ pc[x] \in AfterStarted => Said(x, "started")
    /\ pc[x] \in Early => ~Said(x, "started")
    /\ Said(x, "started") => Said(x, "queued")
    /\ Said(x, "finished") => Said(x, "started")
    /\ pc[x] = "done" /\ answer[x].of = x => Said(x, "finished")
    /\ Said(x, "queued") /\ disk.ws[Target[x]] = "absent" => db.ws[Target[x]] = "absent"

\* The visible row is as far as its exec, the committed one as far as the events.
Reached(x) ==
    /\ db.ws[Target[x]] # "absent" => pc[x] # "commitMissing" /\ Rank(db.ex[x]) >= Due(pc[x])
    /\ disk.ws[Target[x]] # "absent" => RowsFollow(x)

Matched(x) == /\ Told(x)
              /\ CommitNeverFailed => Reached(x)
              /\ disk.ws[Target[x]] # "absent" => EventsFollow(x)
MatchInv == \A x \in Execs : Matched(x)

\* The invariants of the executions, of which this one is made.
ExecInv == IndInv /\ OutcomeInv /\ StoryInv

\* What a step of an exec does to its stage, to its row and to what is said of it.
Course(x) ==
    /\ pc'[x] \in ExecStages /\ pc[x] \notin ExecStages => HasWs(Target[x])
    /\ pc[x] \in {"new"} \cup ExecStages /\ pc[x] # "commitMissing"
    /\ "queued" \in Announced(x) => pc[x] = "commitInsert" /\ Save
    /\ "started" \in Announced(x) => pc[x] = "commitStart" /\ Save
    /\ "finished" \in Announced(x) => pc[x] \in {"commitFinish", "commitFail"} /\ Save
    /\ pc'[x] \in AfterQueued => pc[x] \in AfterQueued \/ "queued" \in Announced(x)
    /\ pc'[x] \in AfterStarted => pc[x] \in AfterStarted \/ "started" \in Announced(x)
    /\ pc'[x] \in Early => pc[x] \in Early /\ "started" \notin Announced(x)
    /\ pc'[x] = "commitMissing" => pc[x] \in {"start", "finish", "fail"} /\ ~HasEx(x) /\ db' = db
    /\ Due(pc'[x]) > Due(pc[x]) => Rank(db'.ex[x]) >= Due(pc'[x])
    /\ pc'[x] = "done" /\ answer'[x].of = x => "finished" \in Announced(x)
    /\ pc'[x] = "error" => \/ pc[x] \in Early /\ "started" \notin Announced(x)
                           \/ "finished" \in Announced(x) \/ x \in EmptyCommands
                           \/ faults' \cap {"write", "commit", "fs"} # {}

\* Every step of an exec is of this form.
LEMMA ExecCourse ==
    ASSUME TypeOK, StatusInv, NEW x \in Execs, ExecStep(x)
    PROVE  Course(x)
<1>0. /\ db \in Rows /\ pc \in [Tasks -> {"new"} \cup Calling \cup Ended] /\ x \in Tasks
      /\ answer \in [Execs -> Answers \cup {NoAnswer}] /\ outcome \in [Execs -> Terminal]
      /\ db.ex[x] \in Allowed(pc[x])
  BY DEF TypeOK, StatusInv, Tasks
<1>. USE DEF Course, Announced, Goto, Early, AfterStarted, AfterQueued, ExecStages, Due
<1>1. CASE FindWs(x)
  BY <1>0, <1>1 DEF FindWs, storeVars
<1>2. CASE Lookup(x)
  <2>1. \A y \in Execs : Cached(x, y) => y # x
    BY <1>0, <1>2 DEF Lookup, Cached, Allowed, Terminal
  <2>. QED  BY <1>0, <1>2, <2>1 DEF Lookup, storeVars
<1>3. CASE InsertEx(x)
  <2>1. ExInserted(x).ex[x] = "queued" /\ Rank("queued") = 1
    BY <1>0 DEF ExInserted, Rows, Rank
  <2>. QED  BY <1>0, <1>3, <2>1 DEF InsertEx, storeVars, Write, WriteFails, Fault
<1>4. CASE CommitInsert(x)
  BY <1>0, <1>4 DEF CommitInsert, CommitThen, Commit, CommitFails, Fault, Save
<1>5. CASE Start(x)
  <2>1. HasEx(x) => ExUpdated(x, "running").ex[x] = "running" /\ Rank("running") = 2
    BY <1>0 DEF ExUpdated, Rows, Rank
  <2>2. ~HasEx(x) => ExUpdated(x, "running") = db
    BY DEF ExUpdated
  <2>. QED  BY <1>0, <1>5, <2>1, <2>2 DEF Start, UpdateThen, Write, WriteFails, Fault
<1>6. CASE CommitStart(x)
  BY <1>0, <1>6 DEF CommitStart, CommitThen, Commit, CommitFails, Fault, Save
<1>7. CASE Session(x)
  BY <1>0, <1>7 DEF Session, Fault
<1>8. CASE Executed(x)
  BY <1>0, <1>8 DEF Executed, Fault
<1>9. \A s \in Terminal : /\ HasEx(x) => ExUpdated(x, s).ex[x] = s /\ Rank(s) = 3
                          /\ ~HasEx(x) => ExUpdated(x, s) = db
  BY <1>0 DEF ExUpdated, Rows, Rank, Terminal
<1>10. CASE Finish(x)
  <2>1. /\ pc[x] = "finish" /\ faults \subseteq faults'
        /\ \/ pc'[x] = "commitFinish" /\ Rank(db'.ex[x]) = 3
           \/ pc'[x] = "commitMissing" /\ ~HasEx(x) /\ db' = db
           \/ pc'[x] = "error" /\ "write" \in faults'
    BY <1>0, <1>9, <1>10 DEF Finish, UpdateThen, Write, WriteFails, Fault
  <2>2. Announced(x) = {}
    BY <2>1
  <2>3. CASE pc'[x] = "commitFinish" /\ Rank(db'.ex[x]) = 3
    BY <2>1, <2>2, <2>3
  <2>4. CASE pc'[x] = "commitMissing" /\ ~HasEx(x) /\ db' = db
    BY <2>1, <2>2, <2>4
  <2>5. CASE pc'[x] = "error" /\ "write" \in faults'
    BY <2>1, <2>2, <2>5
  <2>. QED  BY <2>1, <2>3, <2>4, <2>5
<1>11. CASE CommitFinish(x)
  BY <1>0, <1>11 DEF CommitFinish, CommitThen, Commit, CommitFails, Fault, Save
<1>12. CASE Fail(x)
  <2>1. /\ pc[x] = "fail" /\ "failed" \in Terminal
        /\ \/ pc'[x] = "commitFail" /\ Rank(db'.ex[x]) = 3
           \/ pc'[x] = "commitMissing" /\ ~HasEx(x) /\ db' = db
           \/ pc'[x] = "error" /\ "write" \in faults'
    BY <1>0, <1>9, <1>12 DEF Fail, UpdateThen, Write, WriteFails, Fault, Terminal
  <2>2. Announced(x) = {}
    BY <2>1
  <2>3. CASE pc'[x] = "commitFail" /\ Rank(db'.ex[x]) = 3
    BY <2>1, <2>2, <2>3
  <2>4. CASE pc'[x] = "commitMissing" /\ ~HasEx(x) /\ db' = db
    BY <2>1, <2>2, <2>4
  <2>5. CASE pc'[x] = "error" /\ "write" \in faults'
    BY <2>1, <2>2, <2>5
  <2>. QED  BY <2>1, <2>3, <2>4, <2>5
<1>13. CASE CommitFail(x)
  BY <1>0, <1>13 DEF CommitFail, CommitThen, Commit, CommitFails, Fault, Save
<1>. QED  BY <1>1, <1>2, <1>3, <1>4, <1>5, <1>6, <1>7, <1>8, <1>10, <1>11, <1>12, <1>13 DEF ExecStep

\* What is said after a step: what was, and what an exec announces.
LEMMA SaidNow ==
    ASSUME Types, NEW y \in Execs, NEW kind \in Kinds
    PROVE  /\ UNCHANGED published => (Said(y, kind)' <=> Said(y, kind))
           /\ \A x \in Execs : Announce(x) =>
                (Said(y, kind)' <=> Said(y, kind) \/ (y = x /\ kind \in Announced(x)))
<1>1. UNCHANGED published => (Said(y, kind)' <=> Said(y, kind))
  BY DEF Said
<1>2. ASSUME NEW x \in Execs, NEW k \in Kinds, Publish(Event(x, k))
      PROVE  Said(y, kind)' <=> Said(y, kind) \/ (y = x /\ kind = k)
  <2>1. /\ published' = Append(published, Event(x, k)) /\ published \in Seq(Events)
        /\ Event(x, k) \in Events
    BY <1>2, EventsAssumption DEF Publish, Types
  <2>2. /\ Len(published) \in Nat /\ DOMAIN published' = 1..(Len(published) + 1)
        /\ DOMAIN published = 1..Len(published)
        /\ published'[Len(published) + 1] = Event(x, k)
        /\ \A i \in 1..Len(published) : published'[i] = published[i]
    BY <2>1
  <2>3. Event(x, k) = Event(y, kind) <=> (y = x /\ kind = k)
    BY DEF Event
  <2>. QED  BY <2>2, <2>3 DEF Said
<1>3. ASSUME NEW x \in Execs, Announce(x)
      PROVE  Said(y, kind)' <=> Said(y, kind) \/ (y = x /\ kind \in Announced(x))
  <2>1. CASE Announced(x) = {}
    BY <1>1, <1>3, <2>1 DEF Announce, busVars
  <2>2. CASE Announced(x) # {}
    <3>1. PICK k \in Announced(x) : Publish(Event(x, k))
      BY <1>3, <2>2 DEF Announce
    <3>2. k \in Kinds /\ Announced(x) = {k}
      BY <3>1 DEF Announced, Kinds
    <3>. QED  BY <1>2, <3>1, <3>2
  <2>. QED  BY <2>1, <2>2
<1>. QED  BY <1>1, <1>3

\* What any step does to the rows of a workspace that is not still to be created: they
\* do not come back, and the row of an exec moves forward, unless the daemon has died.
LEMMA RowsCarry ==
    ASSUME Step, NEW x \in Execs, Rooted(x)
    PROVE  /\ Rooted(x)'
           /\ (disk.ws[Target[x]] = "absent" => db.ws[Target[x]] = "absent")
                => /\ disk'.ws[Target[x]] = "absent" => db'.ws[Target[x]] = "absent"
                   /\ disk.ws[Target[x]] = "absent" => disk'.ws[Target[x]] = "absent"
           /\ disk'.ws[Target[x]] # "absent" => Ahead(disk'.ex[x], disk.ex[x])
           /\ CommitNeverFailed' /\ ~Crash /\ db'.ws[Target[x]] # "absent"
                => db.ws[Target[x]] # "absent" /\ Ahead(db'.ex[x], db.ex[x])
<1>0. /\ Target[x] \in Workspaces /\ Creates \subseteq Tasks
  BY MetaAssumption DEF Tasks
<1>1. Rooted(x)'
  BY <1>0 DEF Step, Rooted, Rests, Moves, CreateMoves
<1>2. disk'.ws[Target[x]] # "absent" => Ahead(disk'.ex[x], disk.ex[x])
  BY StepForward
<1>3. /\ RowStep
      /\ Statement(db') =>
            /\ db'.ws[Target[x]] # "absent" => db.ws[Target[x]] # "absent"
            /\ db'.ws[Target[x]] = "absent" \/ Ahead(db'.ex[x], db.ex[x])
  BY <1>0 DEF Step, Rooted
<1>4. (disk.ws[Target[x]] = "absent" => db.ws[Target[x]] = "absent")
                => /\ disk'.ws[Target[x]] = "absent" => db'.ws[Target[x]] = "absent"
                   /\ disk.ws[Target[x]] = "absent" => disk'.ws[Target[x]] = "absent"
  BY <1>3 DEF RowStep, Save, Rollback
<1>5. CommitNeverFailed' /\ ~Crash /\ db'.ws[Target[x]] # "absent"
        => db.ws[Target[x]] # "absent" /\ Ahead(db'.ex[x], db.ex[x])
  BY <1>3 DEF RowStep, Save, Rollback, Ahead
<1>. QED  BY <1>1, <1>2, <1>4, <1>5

\* Faults are not forgotten.
LEMMA FaultsKept == [Next]_vars => faults \subseteq faults'
<1>. SUFFICES ASSUME [Next]_vars PROVE faults \subseteq faults'
  OBVIOUS
<1>1. ASSUME NEW t \in Tasks, WorkspaceStep(t)  PROVE faults \subseteq faults'
  BY <1>1 DEF WorkspaceStep, MakeDir, MakeDirFails, InsertWs, CommitWs, FindDoomed, MarkWs, CommitMark,
     DeleteWs, CommitDelete, CommitMissing, storeVars, Write, WriteFails, Commit, CommitFails, Fault
<1>2. ASSUME NEW x \in Execs, ExecStep(x)  PROVE faults \subseteq faults'
  BY <1>2 DEF ExecStep, FindWs, Lookup, InsertEx, CommitInsert, Start, CommitStart, Session, Executed,
     Finish, CommitFinish, Fail, CommitFail, CommitThen, UpdateThen, Write, WriteFails, Commit,
     CommitFails, Fault, storeVars
<1>3. ASSUME NEW t \in Tasks, Cancel(t)  PROVE faults \subseteq faults'
  BY <1>3 DEF Cancel, Write, Commit, storeVars
<1>. QED  BY <1>1, <1>2, <1>3 DEF Next, Crash, Reopened, Fault, AllEnded, vars

\* A status that moves forward keeps its rank.
LEMMA RankKept ==
    ASSUME NEW a \in ExStatus, NEW b \in ExStatus, Ahead(a, b), NEW n \in 0..3, Rank(b) >= n
    PROVE  Rank(a) >= n
BY DEF Ahead, Rank, ExStatus, Terminal

\* The rank that is due is one of a status, and none is due outside the stages of an exec.
LEMMA DueRank ==
    ASSUME NEW l, NEW s \in ExStatus
    PROVE  Due(l) \in 0..3 /\ Rank(s) \in 0..3 /\ (l \notin ExecStages => Due(l) = 0)
BY DEF Due, Rank, ExStatus, Terminal, ExecStages

\* What is newly said is committed with the row that is due, so the committed row follows.
LEMMA RowsFollowOn ==
    ASSUME Step, NEW x \in Execs, Matched(x), CommitNeverFailed', disk'.ws[Target[x]] # "absent",
           Said(x, "queued")' => Said(x, "queued") \/ (Save /\ Due(pc[x]) >= 1),
           Said(x, "started")' => Said(x, "started") \/ (Save /\ Due(pc[x]) >= 2),
           Said(x, "finished")' => Said(x, "finished") \/ (Save /\ Due(pc[x]) >= 3),
           (Said(x, "started") => Said(x, "queued"))', (Said(x, "finished") => Said(x, "started"))'
    PROVE  RowsFollow(x)'
<1>0. /\ db \in Rows /\ disk \in Rows /\ disk' \in Rows
      /\ db.ex[x] \in ExStatus /\ disk.ex[x] \in ExStatus /\ disk'.ex[x] \in ExStatus
      /\ CommitNeverFailed
  BY DEF Step, IndInv, TypeOK, Rows
<1>1. ASSUME Save, NEW n \in 1..3, Due(pc[x]) >= n  PROVE Rank(disk'.ex[x]) >= n
  <2>1. disk' = db /\ Rank(db.ex[x]) >= Due(pc[x])
    BY <1>0, <1>1 DEF Save, Matched, Reached
  <2>. QED  BY <1>0, <1>1, <2>1, DueRank
<1>2. ASSUME Said(x, "queued")  PROVE RowsFollow(x) /\ Ahead(disk'.ex[x], disk.ex[x])
  BY <1>0, <1>2, RowsCarry DEF Matched, Told, Reached
<1>3. ASSUME Said(x, "queued"), NEW n \in 1..3, Rank(disk.ex[x]) >= n  PROVE Rank(disk'.ex[x]) >= n
  BY <1>0, <1>2, <1>3, RankKept
<1>4. Rank(disk.ex[x]) \in 0..3 /\ Rank(disk'.ex[x]) \in 0..3
  BY <1>0, DueRank
<1>5. Said(x, "started") \/ Said(x, "finished") => Said(x, "queued")
  BY DEF Matched, Told
<1>6. Said(x, "queued")' => Rank(disk'.ex[x]) >= 1
  BY <1>1, <1>2, <1>3, <1>4 DEF RowsFollow
<1>7. Said(x, "started")' => Rank(disk'.ex[x]) >= 2
  BY <1>1, <1>2, <1>3, <1>4, <1>5 DEF RowsFollow
<1>8. Said(x, "finished")' => Rank(disk'.ex[x]) >= 3
  BY <1>1, <1>2, <1>3, <1>4, <1>5 DEF RowsFollow
<1>. QED  BY <1>4, <1>6, <1>7, <1>8 DEF RowsFollow

\* An exec that does not move, or is cancelled or lost, stays matched whatever else moves.
LEMMA RestingMatched ==
    ASSUME Step, faults \subseteq faults', NEW x \in Execs, Matched(x), answer'[x] = answer[x],
           \A kind \in Kinds : Said(x, kind)' <=> Said(x, kind),
           \/ pc'[x] = pc[x] /\ (~Crash \/ pc[x] \notin ExecStages)
           \/ pc'[x] \in {"cancelled", "lost"}
    PROVE  Matched(x)'
<1>0. /\ db \in Rows /\ disk \in Rows /\ db' \in Rows /\ disk' \in Rows
      /\ db.ex[x] \in ExStatus /\ disk.ex[x] \in ExStatus /\ db'.ex[x] \in ExStatus
      /\ disk'.ex[x] \in ExStatus /\ (CommitNeverFailed' => CommitNeverFailed)
  BY DEF Step, IndInv, TypeOK, Rows
<1>1. /\ Said(x, "queued")' <=> Said(x, "queued")
      /\ Said(x, "started")' <=> Said(x, "started")
      /\ Said(x, "finished")' <=> Said(x, "finished")
  BY DEF Kinds
<1>2. /\ pc'[x] = pc[x] \/ pc'[x] \in {"cancelled", "lost"}
      /\ pc'[x] \in ExecStages => pc'[x] = pc[x] /\ ~Crash
  BY DEF ExecStages
<1>3. Told(x)'
  <2>1. CASE Rooted(x)
    BY <1>1, <1>2, <2>1, RowsCarry DEF Matched, Told, AfterQueued, AfterStarted, Early
  <2>2. CASE ~Rooted(x)
    BY <1>1, <1>2, <2>2 DEF Matched, Told, AfterQueued, AfterStarted, Early
  <2>. QED  BY <2>1, <2>2
<1>4. ASSUME CommitNeverFailed', db'.ws[Target[x]] # "absent"
      PROVE  pc'[x] # "commitMissing" /\ Rank(db'.ex[x]) >= Due(pc'[x])
  <2>1. CASE pc'[x] \in ExecStages
    <3>1. /\ Rooted(x) /\ CommitNeverFailed /\ pc'[x] = pc[x]
          /\ db.ws[Target[x]] # "absent" /\ Ahead(db'.ex[x], db.ex[x])
      BY <1>0, <1>2, <1>4, <2>1, RowsCarry DEF Matched, Told
    <3>2. pc[x] # "commitMissing" /\ Rank(db.ex[x]) >= Due(pc[x])
      BY <3>1 DEF Matched, Reached
    <3>. QED  BY <1>0, <3>1, <3>2, RankKept, DueRank
  <2>2. CASE pc'[x] \notin ExecStages
    BY <1>0, <2>2, DueRank DEF ExecStages
  <2>. QED  BY <2>1, <2>2
<1>5. ASSUME Said(x, "queued"), disk'.ws[Target[x]] # "absent"  PROVE disk.ws[Target[x]] # "absent"
  BY <1>5, RowsCarry DEF Matched, Told
<1>6. ASSUME CommitNeverFailed', disk'.ws[Target[x]] # "absent"  PROVE RowsFollow(x)'
  BY <1>1, <1>3, <1>6, RowsFollowOn DEF Told
<1>7. ASSUME disk'.ws[Target[x]] # "absent"  PROVE EventsFollow(x)'
  <2>1. CASE Said(x, "started")
    <3>1. EventsFollow(x)
      BY <1>5, <1>7, <2>1 DEF Matched, Told
    <3>. QED  BY <1>1, <1>2, <3>1 DEF EventsFollow
  <2>2. CASE ~Said(x, "started")
    BY <1>1, <1>3, <2>2 DEF Told, EventsFollow
  <2>. QED  BY <2>1, <2>2
<1>. QED  BY <1>3, <1>4, <1>6, <1>7 DEF Matched, Reached

\* An exec whose row is gone commits nothing and ends.
LEMMA MissingMatched ==
    ASSUME Step, faults \subseteq faults', NEW x \in Execs, Matched(x), answer'[x] = answer[x],
           \A kind \in Kinds : Said(x, kind)' <=> Said(x, kind), CommitMissing(x)
    PROVE  Matched(x)'
<1>0. /\ pc[x] = "commitMissing" /\ pc'[x] = "error"
      /\ disk' = db \/ "commit" \in faults'
  <2>1. x \in Tasks /\ pc \in [Tasks -> {"new"} \cup Calling \cup Ended]
    BY DEF Step, IndInv, TypeOK, Tasks
  <2>. QED  BY <2>1 DEF CommitMissing, Goto, Commit, CommitFails, Fault
<1>1. /\ Said(x, "queued")' <=> Said(x, "queued")
      /\ Said(x, "started")' <=> Said(x, "started")
      /\ Said(x, "finished")' <=> Said(x, "finished")
  BY DEF Kinds
<1>2. Rooted(x)
  BY <1>0 DEF Matched, Told, ExecStages
<1>3. Told(x)'
  BY <1>0, <1>1, <1>2, RowsCarry DEF Matched, Told, AfterQueued, AfterStarted, Early, ExecStages
<1>4. db'.ws[Target[x]] # "absent" => pc'[x] # "commitMissing" /\ Rank(db'.ex[x]) >= Due(pc'[x])
  <2>1. db'.ex[x] \in ExStatus
    BY DEF Step, IndInv, TypeOK, Rows
  <2>. QED  BY <1>0, <2>1, DueRank DEF ExecStages
<1>5. ASSUME CommitNeverFailed', disk'.ws[Target[x]] # "absent"  PROVE RowsFollow(x)'
  BY <1>1, <1>3, <1>5, RowsFollowOn DEF Told
<1>6. ASSUME disk'.ws[Target[x]] # "absent"  PROVE EventsFollow(x)'
  <2>1. "commit" \in faults'
    BY <1>0, <1>6 DEF CommitNeverFailed, Matched, Reached
  <2>. QED  BY <1>0, <2>1 DEF EventsFollow
<1>. QED  BY <1>3, <1>4, <1>5, <1>6 DEF Matched, Reached

\* An exec that moves has said what its stage and its row call for.
LEMMA MovingMatched ==
    ASSUME Step, ~Crash, faults \subseteq faults', NEW x \in Execs, Matched(x), Course(x),
           \A kind \in Kinds : Said(x, kind)' <=> Said(x, kind) \/ kind \in Announced(x)
    PROVE  Matched(x)'
<1>0. /\ db.ex[x] \in ExStatus /\ db'.ex[x] \in ExStatus
      /\ CommitNeverFailed' => CommitNeverFailed
  BY DEF Step, IndInv, TypeOK, Rows
<1>1. /\ Said(x, "queued")' <=> Said(x, "queued") \/ "queued" \in Announced(x)
      /\ Said(x, "started")' <=> Said(x, "started") \/ "started" \in Announced(x)
      /\ Said(x, "finished")' <=> Said(x, "finished") \/ "finished" \in Announced(x)
  BY DEF Kinds
<1>2. pc'[x] \in ExecStages \/ Said(x, "queued")' => Rooted(x)
  <2>1. HasWs(Target[x]) => Rooted(x)
    BY MetaAssumption DEF HasWs, Rooted, Step, IndInv, Unborn
  <2>2. pc[x] \in ExecStages \/ Said(x, "queued") => Rooted(x)
    BY DEF Matched, Told
  <2>. QED  BY <1>1, <2>1, <2>2 DEF Course, ExecStages
<1>3. pc'[x] \in ExecStages \/ Said(x, "queued")' => Rooted(x)'
  BY <1>2, RowsCarry
<1>4. Said(x, "queued")' /\ disk'.ws[Target[x]] = "absent" => db'.ws[Target[x]] = "absent"
  BY <1>1, <1>2, RowsCarry DEF Matched, Told, Course, Save
<1>5. Told(x)'
  <2>1. pc'[x] \in AfterQueued => Said(x, "queued")'
    BY <1>1 DEF Matched, Told, Course
  <2>2. pc'[x] \in AfterStarted => Said(x, "started")'
    BY <1>1 DEF Matched, Told, Course
  <2>3. pc'[x] \in Early => ~Said(x, "started")'
    BY <1>1 DEF Matched, Told, Course
  <2>4. /\ Said(x, "started")' => Said(x, "queued")'
        /\ Said(x, "finished")' => Said(x, "started")'
    BY <1>1 DEF Matched, Told, Course, AfterQueued, AfterStarted
  <2>5. pc'[x] = "done" /\ answer'[x].of = x => Said(x, "finished")'
    BY <1>1 DEF Course
  <2>. QED  BY <1>3, <1>4, <2>1, <2>2, <2>3, <2>4, <2>5 DEF Told
<1>6. ASSUME CommitNeverFailed', db'.ws[Target[x]] # "absent"
      PROVE  pc'[x] # "commitMissing" /\ Rank(db'.ex[x]) >= Due(pc'[x])
  <2>1. CASE pc'[x] \in ExecStages
    <3>1. db.ws[Target[x]] # "absent" /\ Ahead(db'.ex[x], db.ex[x])
      BY <1>2, <1>6, <2>1, RowsCarry
    <3>2. Rank(db.ex[x]) >= Due(pc[x])
      BY <1>0, <1>6, <3>1 DEF Matched, Reached
    <3>3. pc'[x] # "commitMissing"
      <4>. SUFFICES ASSUME pc'[x] = "commitMissing"  PROVE FALSE
        OBVIOUS
      <4>1. pc[x] \in {"start", "finish", "fail"} /\ db.ex[x] = "none"
        BY DEF Course, HasEx
      <4>. QED  BY <3>2, <4>1 DEF Due, Rank
    <3>4. Due(pc'[x]) <= Due(pc[x]) => Rank(db'.ex[x]) >= Due(pc'[x])
      BY <1>0, <3>1, <3>2, RankKept, DueRank
    <3>5. Due(pc'[x]) > Due(pc[x]) => Rank(db'.ex[x]) >= Due(pc'[x])
      BY DEF Course
    <3>. QED  BY <3>3, <3>4, <3>5, DueRank, <1>0
  <2>2. CASE pc'[x] \notin ExecStages
    BY <1>0, <2>2, DueRank DEF ExecStages
  <2>. QED  BY <2>1, <2>2
<1>7. ASSUME CommitNeverFailed', disk'.ws[Target[x]] # "absent"  PROVE RowsFollow(x)'
  <2>1. /\ Due("commitInsert") >= 1 /\ Due("commitStart") >= 2
        /\ Due("commitFinish") >= 3 /\ Due("commitFail") >= 3
    BY DEF Due
  <2>. QED  BY <1>1, <1>5, <1>7, <2>1, RowsFollowOn DEF Told, Course
<1>8. ASSUME disk'.ws[Target[x]] # "absent"  PROVE EventsFollow(x)'
  BY <1>1, <1>5 DEF Matched, Told, Course, EventsFollow
<1>. QED  BY <1>5, <1>6, <1>7, <1>8 DEF Matched, Reached

\* Seen from the executions, a step of the composition is one of their own, or nothing.
LEMMA StepOfExecs == [EventsNext]_eventVars => [Next]_vars
BY DEF EventsNext, eventVars, Next, execVars

\* Every step keeps the story of every exec.
LEMMA NextMatched == ExecInv /\ Types /\ MatchInv /\ [EventsNext]_eventVars => MatchInv'
<1>. SUFFICES ASSUME ExecInv, Types, MatchInv, [EventsNext]_eventVars, NEW x \in Execs
              PROVE  Matched(x)'
  BY DEF MatchInv
<1>0. /\ Step /\ faults \subseteq faults' /\ Matched(x) /\ [Next]_vars
      /\ pc \in [Tasks -> {"new"} \cup Calling \cup Ended] /\ x \in Tasks
      /\ answer \in [Execs -> Answers \cup {NoAnswer}] /\ TypeOK /\ StatusInv
  BY StepOfExecs, StepKnown, FaultsKept DEF ExecInv, MatchInv, IndInv, TypeOK, Tasks, StoryInv
<1>s. ASSUME UNCHANGED published  PROVE \A kind \in Kinds : Said(x, kind)' <=> Said(x, kind)
  BY <1>s, SaidNow
<1>1. ASSUME NEW y \in Execs, ExecStep(y), Announce(y)  PROVE Matched(x)'
  <2>1. ~Crash /\ (y # x => pc'[x] = pc[x] /\ answer'[x] = answer[x])
    <3>1. \A t \in Tasks : t # y => pc'[t] = pc[t]
      BY <1>0, <1>1 DEF ExecStep, FindWs, Lookup, InsertEx, CommitInsert, Start, CommitStart, Session,
         Executed, Finish, CommitFinish, Fail, CommitFail, CommitThen, UpdateThen, Goto
    <3>2. \A z \in Execs : z # y => answer'[z] = answer[z]
      BY <1>0, <1>1 DEF ExecStep, FindWs, Lookup, InsertEx, CommitInsert, Start, CommitStart, Session,
         Executed, Finish, CommitFinish, Fail, CommitFail, execVars
    <3>3. Course(y)
      BY <1>0, <1>1, ExecCourse
    <3>4. ~Crash
      <4>. SUFFICES ASSUME Crash  PROVE FALSE
        OBVIOUS
      <4>1. pc[y] \in {"new"} \cup Calling /\ y \in Tasks
        BY <3>3 DEF Course, Calling, Tasks
      <4>2. pc'[y] = (IF pc[y] \in Calling THEN "lost" ELSE pc[y])
        BY <4>1 DEF Crash
      <4>3. pc'[y] \notin {"new", "lost"}
        BY <1>0, <1>1, <4>1 DEF ExecStep, FindWs, Lookup, InsertEx, CommitInsert, Start, CommitStart,
           Session, Executed, Finish, CommitFinish, Fail, CommitFail, CommitThen, UpdateThen, Goto
      <4>. QED  BY <4>1, <4>2, <4>3
    <3>. QED  BY <1>0, <3>1, <3>2, <3>4
  <2>2. \A kind \in Kinds : Said(x, kind)' <=> Said(x, kind) \/ (x = y /\ kind \in Announced(y))
    BY <1>0, <1>1, SaidNow
  <2>. QED  BY <1>0, <1>1, <2>1, <2>2, ExecCourse, MovingMatched, RestingMatched
<1>2. ASSUME NEW t \in Tasks, WorkspaceStep(t), UNCHANGED <<execVars, busVars>>  PROVE Matched(x)'
  <2>1. /\ \A kind \in Kinds : Said(x, kind)' <=> Said(x, kind)
        /\ answer'[x] = answer[x]
    BY <1>2, <1>s DEF execVars, busVars
  <2>2. \/ pc'[x] = pc[x] /\ ~Crash
        \/ CommitMissing(x)
    <3>1. \A u \in Tasks : u # t => pc'[u] = pc[u]
      BY <1>0, <1>2, WorkspaceMoves DEF Moves
    <3>2. t \in Execs => CommitMissing(t)
      BY <1>0, <1>2, StageKinds, MetaAssumption DEF TypeOK, Tasks, Ended, ExecStages, WorkspaceStep, MakeDir,
         MakeDirFails, InsertWs, CommitWs, FindDoomed, MarkWs, CommitMark, DeleteWs, CommitDelete
    <3>3. ~Crash
      <4>1. pc[t] \in {"new"} \cup Calling /\ pc'[t] \notin {"new", "lost"}
        BY <1>0, <1>2 DEF WorkspaceStep, MakeDir, MakeDirFails, InsertWs, CommitWs, FindDoomed, MarkWs,
           CommitMark, DeleteWs, CommitDelete, CommitMissing, CreateRolledBack, Goto, Calling,
           CreateStages, DeleteStages, ExecStages
      <4>2. Crash => pc'[t] = (IF pc[t] \in Calling THEN "lost" ELSE pc[t])
        BY DEF Crash
      <4>. QED  BY <4>1, <4>2
    <3>. QED  BY <1>0, <3>1, <3>2, <3>3
  <2>. QED  BY <1>0, <2>1, <2>2, MissingMatched, RestingMatched
<1>3. ASSUME NEW t \in Tasks, Cancel(t), UNCHANGED busVars  PROVE Matched(x)'
  <2>1. /\ \A kind \in Kinds : Said(x, kind)' <=> Said(x, kind)
        /\ answer'[x] = answer[x]
    BY <1>3, <1>s DEF Cancel, execVars, busVars
  <2>2. pc'[x] = (IF x = t THEN "cancelled" ELSE pc[x])
    BY <1>0, <1>3 DEF Cancel, Goto
  <2>3. ~Crash
    BY <1>0, <1>3 DEF Cancel, Goto, Crash
  <2>. QED  BY <1>0, <2>1, <2>2, <2>3, RestingMatched
<1>4. CASE Crash /\ SubscribersLost
  <2>1. /\ \A kind \in Kinds : Said(x, kind)' <=> Said(x, kind)
        /\ answer'[x] = answer[x]
    BY <1>4, <1>s DEF Crash, SubscribersLost, execVars
  <2>2. pc'[x] = (IF pc[x] \in Calling THEN "lost" ELSE pc[x])
    BY <1>0, <1>4 DEF Crash
  <2>. QED  BY <1>0, <2>1, <2>2, RestingMatched DEF Calling
<1>5. CASE UNCHANGED vars /\ (UNCHANGED busVars \/ \E u \in Subscribers : SubscriberStep(u))
  <2>1. UNCHANGED published
    BY <1>5 DEF busVars, SubscriberStep, Subscribe, Register, Take, Receive, Leave, FallSilent, Unsubscribe
  <2>2. ~Crash
    BY <1>5 DEF vars, Crash, Reopened, Fault
  <2>. QED  BY <1>0, <1>5, <1>s, <2>1, <2>2, RestingMatched DEF vars
<1>. QED  BY <1>1, <1>2, <1>3, <1>4, <1>5 DEF EventsNext, eventVars

\* Events and committed rows tell the same story: who reads the row after an event finds it
\* at least as far, and an exec that has ended for its caller has said so.
THEOREM StoriesAgree == EventsSpec => []EventsMatchRows
<1>1. EventsInit => ExecInv /\ Types /\ MatchInv
  <2>. SUFFICES ASSUME EventsInit  PROVE ExecInv /\ Types /\ MatchInv
    OBVIOUS
  <2>1. ExecInv /\ Types
    BY InitInd, InitOutcome, InitStory, InitFeed DEF EventsInit, ExecInv, FeedInv
  <2>2. \A x \in Execs : \A kind : ~Said(x, kind)
    BY DEF EventsInit, BusInit, Said
  <2>3. \A x \in Execs : /\ pc[x] = "new" /\ Rank(db.ex[x]) = 0 /\ answer[x] = NoAnswer
    BY MetaAssumption DEF EventsInit, Init, Tasks, Rank
  <2>4. "new" \notin ExecStages /\ "new" \notin AfterQueued /\ "new" \notin AfterStarted /\ Due("new") = 0
    BY DEF ExecStages, AfterQueued, AfterStarted, Due
  <2>. QED
    BY <2>1, <2>2, <2>3, <2>4 DEF MatchInv, Matched, Told, Reached, RowsFollow, EventsFollow
<1>2. ExecInv /\ Types /\ MatchInv /\ [EventsNext]_eventVars => (ExecInv /\ Types /\ MatchInv)'
  BY StepOfExecs, NextStory, NextMatched, StepOfBus, BusTypes DEF ExecInv
<1>3. MatchInv => EventsMatchRows
  BY DEF MatchInv, Matched, Reached, EventsMatchRows
<1>. QED  BY <1>1, <1>2, <1>3, PTL DEF EventsSpec
==============================================================================

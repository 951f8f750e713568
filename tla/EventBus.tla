------------------------------- MODULE EventBus -------------------------------
(***************************************************************************)
(* forge.events.bus, with the way of an event from there to a subscriber:   *)
(* an iterator in the same process (LocalClient), or the SSE stream of      *)
(* routes.executions and the HTTP client that reads it.  An event is the    *)
(* number it has in the order of publication.                               *)
(***************************************************************************)
EXTENDS Integers, SequencesExt

CONSTANTS
    Subscribers,
    Remote,       \* those that come over HTTP
    Events,
    Asked,        \* the events the filter of a subscriber lets through
    QueueSize,    \* _queue_size
    WireSize      \* the events a connection holds before its sender has to wait

ASSUME BusAssumption ==
    /\ Remote \subseteq Subscribers /\ Asked \in [Subscribers -> SUBSET Events]
    /\ QueueSize \in Nat \ {0} /\ WireSize \in Nat \ {0}

VARIABLES
    published,    \* history: the events, in their order
    stage,        \* "off", "asked", "on"; "left" or "silent" (the client has, the bus does not know); "gone"
    queue,        \* _Subscription.queue
    lost,         \* _Subscription.lost
    wire,         \* what is on its way to a remote subscriber
    since,        \* history: how many events there were when the subscription began, or -1
    got           \* history: what the subscriber has received

subVars == <<stage, queue, lost, wire, since, got>>
busVars == <<published, stage, queue, lost, wire, since, got>>

StageTo(s, x) == stage' = [stage EXCEPT ![s] = x]

\* publish: every queue that wants the event takes it, or counts it as lost; the queue
\* of a subscriber that has left is in the list until its iterator is closed.
Listed == {s \in Subscribers : since[s] # -1 /\ stage[s] \in {"on", "left", "silent"}}
Fits(s) == Len(queue[s]) < QueueSize

PublishEvictingOldest(ev) ==
    LET n == Len(published) + 1
        takers == {s \in Listed : ev \in Asked[s]}
    IN  /\ published' = Append(published, ev)
        /\ queue' = [s \in Subscribers |->
                        IF s \notin takers THEN queue[s]
                        ELSE IF Fits(s) THEN Append(queue[s], n) ELSE Append(Tail(queue[s]), n)]
        /\ UNCHANGED <<stage, lost, wire, since, got>>
Publish(ev) ==
    LET n == Len(published) + 1
        takers == {s \in Listed : ev \in Asked[s]}
    IN  /\ published' = Append(published, ev)
        /\ queue' = [s \in Subscribers |->
                        IF s \in takers /\ Fits(s) THEN Append(queue[s], n) ELSE queue[s]]
        /\ lost' = [s \in Subscribers |->
                        IF s \in takers /\ ~Fits(s) THEN lost[s] + 1 ELSE lost[s]]
        /\ UNCHANGED <<stage, wire, since, got>>

\* The caller gets an iterator, or the head of the response; the queue is made and listed
\* when the iterator is asked for its first event.
Subscribe(s) ==
    /\ stage[s] = "off" /\ StageTo(s, "asked")
    /\ UNCHANGED <<published, queue, lost, wire, since, got>>

Register(s) ==
    /\ stage[s] = "asked" /\ StageTo(s, "on")
    /\ since' = [since EXCEPT ![s] = Len(published)]
    /\ UNCHANGED <<published, queue, lost, wire, got>>

\* The iterator yields the next event: to the caller, or into the response.
TakeNewest(s) ==
    /\ stage[s] = "on" /\ queue[s] # <<>> /\ s \notin Remote
    /\ got' = [got EXCEPT ![s] = Append(@, Last(queue[s]))]
    /\ queue' = [queue EXCEPT ![s] = Front(@)]
    /\ UNCHANGED <<published, stage, lost, wire, since>>
Take(s) ==
    /\ s \in Listed /\ queue[s] # <<>> /\ (stage[s] = "on" \/ s \in Remote)
    /\ queue' = [queue EXCEPT ![s] = Tail(@)]
    /\ IF s \in Remote
       THEN /\ Len(wire[s]) < WireSize /\ UNCHANGED got
            /\ wire' = [wire EXCEPT ![s] = Append(@, Head(queue[s]))]
       ELSE got' = [got EXCEPT ![s] = Append(@, Head(queue[s]))] /\ UNCHANGED wire
    /\ UNCHANGED <<published, stage, lost, since>>

\* The HTTP client cuts the stream into events and yields them.
Receive(s) ==
    /\ stage[s] = "on" /\ wire[s] # <<>>
    /\ got' = [got EXCEPT ![s] = Append(@, Head(wire[s]))]
    /\ wire' = [wire EXCEPT ![s] = Tail(@)]
    /\ UNCHANGED <<published, stage, queue, lost, since>>

\* The caller stops.  A generator left by `break' is closed later, by a task of its own.
Leave(s) ==
    /\ stage[s] \in {"asked", "on"} /\ StageTo(s, "left")
    /\ UNCHANGED <<published, queue, lost, wire, since, got>>

\* httpx raises ReadTimeout when nothing has come for 60 seconds.
FallSilent(s) ==
    /\ s \in Remote /\ stage[s] = "on" /\ wire[s] = <<>> /\ queue[s] = <<>>
    /\ StageTo(s, "silent")
    /\ UNCHANGED <<published, queue, lost, wire, since, got>>

\* The loop closes the generator; over HTTP once the server has seen the connection closed.
Unsubscribe(s) ==
    /\ stage[s] \in {"left", "silent"} /\ StageTo(s, "gone")
    /\ queue' = [queue EXCEPT ![s] = <<>>] /\ wire' = [wire EXCEPT ![s] = <<>>]
    /\ UNCHANGED <<published, lost, since, got>>

SubscriberStep(s) ==
    Subscribe(s) \/ Register(s) \/ Take(s) \/ Receive(s) \/ Leave(s) \/ FallSilent(s) \/ Unsubscribe(s)

BusInit ==
    /\ published = <<>> /\ stage = [s \in Subscribers |-> "off"]
    /\ queue = [s \in Subscribers |-> <<>>] /\ wire = queue /\ got = queue
    /\ lost = [s \in Subscribers |-> 0] /\ since = [s \in Subscribers |-> -1]

BusTypeOK ==
    /\ published \in Seq(Events)
    /\ stage \in [Subscribers -> {"off", "asked", "on", "left", "silent", "gone"}]
    /\ lost \in [Subscribers -> Nat] /\ since \in [Subscribers -> Int]
    /\ \A f \in {queue, wire, got} : f \in [Subscribers -> Seq(1..Len(published))]
    /\ \A s \in Subscribers : Len(queue[s]) <= QueueSize

------------------------------------------------------------------------------
\* The bus implements EventFeed: nothing twice, nothing out of order, nothing unasked for,
\* nothing from before, however events, slow readers and disconnections interleave.
upTo == [s \in Subscribers |-> IF got[s] = <<>> THEN since[s] ELSE Last(got[s])]
Feed == INSTANCE EventFeed WITH published <- published, upTo <- upTo
KeepsOrder == Feed!Spec

\* Every event a live subscription asked for since it began is received, on the way, or
\* counted as lost: the counter tells exactly what a slow subscriber has missed.
Missed(s) == {i \in (since[s] + 1)..Len(published) : published[i] \in Asked[s]}
LossCounted ==
    \A s \in Listed :
        Cardinality(Missed(s)) = Len(got[s]) + Len(wire[s]) + Len(queue[s]) + lost[s]

------------------------------------------------------------------------------
(* What a comment says, and the code does not do.                                *)

\* http_client.py:269: "Yields until the caller stops".  A quiet minute, such as a command
\* of two minutes makes, ends the stream with a ReadTimeout.
YieldsUntilStopped == \A s \in Subscribers : stage[s] # "silent"
==============================================================================

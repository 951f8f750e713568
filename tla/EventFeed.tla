------------------------------ MODULE EventFeed ------------------------------
(***************************************************************************)
(* What a subscription to the events of Forge promises: after it has begun  *)
(* it hands out events that were published since, those it asks for, each   *)
(* once and in their order.  Any of them may be missing.                    *)
(***************************************************************************)
EXTENDS Integers, Sequences

CONSTANTS
    Subscribers,
    Events,
    Asked         \* the events each subscriber asks for

VARIABLES
    published,    \* the events, in their order
    upTo          \* how far a subscriber is, -1 before its subscription begins

feedVars == <<published, upTo>>

Publish(ev) == published' = Append(published, ev) /\ UNCHANGED upTo

Begin(s) ==
    /\ upTo[s] = -1
    /\ upTo' = [upTo EXCEPT ![s] = Len(published)] /\ UNCHANGED published

Deliver(s, i) ==
    /\ upTo[s] # -1 /\ i > upTo[s] /\ published[i] \in Asked[s]
    /\ upTo' = [upTo EXCEPT ![s] = i] /\ UNCHANGED published

Init == published = <<>> /\ upTo = [s \in Subscribers |-> -1]

Next ==
    \/ \E ev \in Events : Publish(ev)
    \/ \E s \in Subscribers : Begin(s) \/ \E i \in 1..Len(published) : Deliver(s, i)

Spec == Init /\ [][Next]_feedVars
==============================================================================

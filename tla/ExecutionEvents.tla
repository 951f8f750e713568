---------------------------- MODULE ExecutionEvents ----------------------------
(***************************************************************************)
(* ExecutionService composed with the EventBus it publishes to: each of its *)
(* three commits is followed, without an await in between, by an event.     *)
(***************************************************************************)
EXTENDS ExecutionService, EventBus

eventVars == <<vars, busVars>>

Kinds == {"queued", "started", "finished"}
Event(x, kind) == [of |-> x, kind |-> kind]

ASSUME EventsAssumption == \A x \in Execs, kind \in Kinds : Event(x, kind) \in Events

\* What the step of an exec publishes: nothing if the commit failed or found no row.
AnnouncedEarly(x) ==
    CASE pc[x] = "commitInsert" /\ faults' = faults -> {"queued"}
      [] pc[x] = "commitStart" /\ faults' = faults -> {"started"}
      [] pc[x] \in {"finish", "fail"} /\ faults' = faults -> {"finished"}
      [] OTHER -> {}
Announced(x) ==
    CASE pc[x] = "commitInsert" /\ faults' = faults -> {"queued"}
      [] pc[x] = "commitStart" /\ faults' = faults -> {"started"}
      [] pc[x] \in {"commitFinish", "commitFail"} /\ faults' = faults -> {"finished"}
      [] OTHER -> {}

Announce(x) == IF Announced(x) = {} THEN UNCHANGED busVars
               ELSE \E kind \in Announced(x) : Publish(Event(x, kind))

\* The subscriptions are lost with the daemon.
SubscribersLost ==
    /\ stage' = [s \in Subscribers |-> IF stage[s] = "off" THEN "off" ELSE "gone"]
    /\ queue' = [s \in Subscribers |-> <<>>] /\ wire' = queue'
    /\ UNCHANGED <<published, lost, since, got>>

EventsInit == Init /\ BusInit

EventsNext ==
    \/ \E x \in Execs : ExecStep(x) /\ Announce(x)
    \/ \E t \in Tasks : (WorkspaceStep(t) /\ UNCHANGED <<execVars, busVars>>)
                        \/ (Cancel(t) /\ UNCHANGED busVars)
    \/ \E s \in Subscribers : SubscriberStep(s) /\ UNCHANGED vars
    \/ Crash /\ SubscribersLost

EventsSpec == EventsInit /\ [][EventsNext]_eventVars

------------------------------------------------------------------------------
Said(x, kind) == \E i \in DOMAIN published : published[i] = Event(x, kind)

\* Events and committed rows tell the same story.  Who reads the row after an event finds
\* it at least as far, unless somebody's commit failed; and an exec that has ended for its
\* caller has said so, with these exceptions: it was answered from a cached row, its row
\* or its log could not be written, its command was empty, or its workspace was deleted.
RowsFollow(x) ==
    /\ Said(x, "queued") => Rank(disk.ex[x]) >= 1
    /\ Said(x, "started") => Rank(disk.ex[x]) >= 2 /\ Said(x, "queued")
    /\ Said(x, "finished") => Rank(disk.ex[x]) = 3 /\ Said(x, "started")
EventsFollow(x) ==
    /\ pc[x] = "done" /\ answer[x].of = x => Said(x, "finished")
    /\ pc[x] = "error" /\ Said(x, "started") =>
          Said(x, "finished") \/ x \in EmptyCommands \/ faults \cap {"write", "commit", "fs"} # {}
EventsMatchRows ==
    \A x \in Execs : disk.ws[Target[x]] # "absent" =>
        (CommitNeverFailed => RowsFollow(x)) /\ EventsFollow(x)
==============================================================================

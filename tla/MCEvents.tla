------------------------------- MODULE MCEvents -------------------------------
\* An instance of ExecutionEvents for TLC: a subscriber in the process that asks for all
\* events, and one over HTTP that asks for the ends of executions.
EXTENDS ExecutionEvents

OneTarget == [t \in Tasks |-> CHOOSE w \in Workspaces : TRUE]
NoKeys == [x \in Execs |-> NoKey]
MCEvents == {Event(x, kind) : x \in Execs, kind \in Kinds}
MCAsked == [s \in Subscribers |-> IF s \in Remote THEN {Event(x, "finished") : x \in Execs} ELSE MCEvents]
==============================================================================

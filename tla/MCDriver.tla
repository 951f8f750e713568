------------------------------- MODULE MCDriver -------------------------------
\* An instance of DockerDriver for TLC: two clients with a workspace each, one that
\* streams a command and one that awaits one, and one container that goes from one to
\* the other.
EXTENDS DockerDriver

MCBy == [x \in Execs |-> IF x = "x1" THEN "c2" ELSE "c1"]
MCHome == [c \in Clients |-> IF c = "c1" THEN "wsA" ELSE "wsB"]
MCTimeout == [x \in Execs |-> IF x \in Streams THEN "positive" ELSE "none"]

\* A character of one byte and one of two, which the limit cuts; a byte that is no
\* UTF-8.
MCKind == [x \in Execs |-> IF x \in Streams THEN <<"other">>
                           ELSE <<"single", "lead", "tail">>]
==============================================================================

----------------------------- MODULE KeyedCommands -----------------------------
(***************************************************************************)
(* What ExecutionService.exec promises to callers who retry: of the requests *)
(* with one idempotency key in one workspace at most one runs its command,  *)
(* none does after the key has been answered, and all the answers are the   *)
(* same.  An answer is about a command that was started, unless it says     *)
(* "failed".  Nothing is promised about when, and a request may be refused  *)
(* or get lost.                                                             *)
(***************************************************************************)
CONSTANTS
    Execs,     \* requests
    Target,    \* the workspace of each
    Key,       \* its idempotency key
    NoKey,     \* no key
    Terminal,  \* what an answer may say
    NoAnswer

VARIABLES
    started,   \* the requests whose command was started
    answer     \* the answer to each request: about which one, and what

keyedVars == <<started, answer>>

Same(x, y) == x = y \/ (Key[x] # NoKey /\ Key[x] = Key[y] /\ Target[x] = Target[y])

Run(x) ==
    /\ x \notin started
    /\ \A y \in Execs : Same(x, y) => y \notin started /\ answer[y] = NoAnswer
    /\ started' = started \cup {x} /\ UNCHANGED answer

Answer(x, y, status) ==
    /\ answer[x] = NoAnswer /\ Same(x, y)
    /\ y \in started \/ status = "failed"
    /\ \A z \in Execs : Same(x, z) /\ answer[z] # NoAnswer => answer[z] = [of |-> y, status |-> status]
    /\ answer' = [answer EXCEPT ![x] = [of |-> y, status |-> status]] /\ UNCHANGED started

Init == started = {} /\ answer = [x \in Execs |-> NoAnswer]

Next == \E x \in Execs : Run(x) \/ \E y \in Execs, status \in Terminal : Answer(x, y, status)

Spec == Init /\ [][Next]_keyedVars
==============================================================================

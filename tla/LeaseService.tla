----------------------------- MODULE LeaseService -----------------------------
(***************************************************************************)
(* What ContainerPool.session promises: a caller of an open pool asks for a *)
(* container and is granted one that nobody else holds, or is refused;      *)
(* nothing is promised about which, but every request is answered.  A       *)
(* request made before the pool closes may still be granted afterwards.     *)
(***************************************************************************)
CONSTANTS Clients, Envs, NoEnv

VARIABLES
    phase,   \* "idle", "asking" or "holding", for each client
    lease,   \* the container a client holds
    open     \* the pool takes requests

serviceVars == <<phase, lease, open>>

Free(e) == \A c \in Clients : lease[c] # e

Request(c) ==
    /\ open /\ phase[c] = "idle"
    /\ phase' = [phase EXCEPT ![c] = "asking"]
    /\ UNCHANGED <<lease, open>>

Grant(c, e) ==
    /\ phase[c] = "asking" /\ Free(e)
    /\ phase' = [phase EXCEPT ![c] = "holding"]
    /\ lease' = [lease EXCEPT ![c] = e]
    /\ UNCHANGED open

\* PoolExhaustedError, an error of the driver, or the caller gives up.
Refuse(c) ==
    /\ phase[c] = "asking"
    /\ phase' = [phase EXCEPT ![c] = "idle"]
    /\ UNCHANGED <<lease, open>>

End(c) ==
    /\ phase[c] = "holding"
    /\ phase' = [phase EXCEPT ![c] = "idle"]
    /\ lease' = [lease EXCEPT ![c] = NoEnv]
    /\ UNCHANGED open

Close == open /\ open' = FALSE /\ UNCHANGED <<phase, lease>>

Init ==
    /\ phase = [c \in Clients |-> "idle"]
    /\ lease = [c \in Clients |-> NoEnv]
    /\ open = TRUE

Next ==
    \/ Close
    \/ \E c \in Clients : Request(c) \/ Refuse(c) \/ End(c) \/ \E e \in Envs : Grant(c, e)

Spec == Init /\ [][Next]_serviceVars

\* Every request is granted or refused, and every lease comes back.
Answers == \A c \in Clients : /\ phase[c] = "asking" ~> phase[c] # "asking"
                              /\ phase[c] = "holding" ~> phase[c] # "holding"
==============================================================================

----------------------------- MODULE MCExecution ------------------------------
(* ExecutionService on small instances: every call works on one workspace, and *)
(* all execs but those of Unkeyed share one idempotency key.                   *)
EXTENDS ExecutionService, TLC

CONSTANT Unkeyed

OneTarget == [t \in Tasks |-> CHOOSE w \in Workspaces : TRUE]
OneKey == [x \in Execs |-> IF x \in Unkeyed THEN NoKey ELSE "k"]

\* The keyed execs are interchangeable.
Symmetry == Permutations(Execs \ Unkeyed)
==============================================================================

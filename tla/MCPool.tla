------------------------------- MODULE MCPool --------------------------------
(* ContainerPool on small instances.  Containers are interchangeable, and so  *)
(* are the clients that are never cancelled.                                   *)
EXTENDS ContainerPool, TLC

Symmetry == Permutations(Envs) \cup Permutations(Clients \ Cancellable)
==============================================================================

-------------------------- MODULE MCRoundLifecycle --------------------------
(* RoundLifecycle on small instances: all rounds belong to one mission. *)
EXTENDS RoundRefinement, TLC

OneMission == [r \in Rounds |-> CHOOSE m \in Missions : TRUE]

LifecycleOps == RoundOps

Symmetry == Permutations(Requests)
=============================================================================

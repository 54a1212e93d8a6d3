--------------------------- MODULE MCReplication ---------------------------
(***************************************************************************)
(* Replication with lifecycle changes as the agent's changes.              *)
(***************************************************************************)
EXTENDS Replication, AgentState, TLC

CONSTANT Lifecycles

MCBody == {[InitialAgentBody EXCEPT !.lifecycle = l] : l \in Lifecycles \cup {"starting", "interrupted"}}

MCSpawnBody == {InitialAgentBody}

\* After recover_interrupted.
MCRestoreBody == {[InitialAgentBody EXCEPT !.lifecycle = "interrupted"]}

MCChange == {[kind |-> "lifecycle_changed", lifecycle |-> l] : l \in Lifecycles}

MCSymmetry == Permutations(Sub)
===========================================================================

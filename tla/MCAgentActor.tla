--------------------------- MODULE MCAgentActor ---------------------------
(***************************************************************************)
(* AgentRuns with a few runs.                                              *)
(***************************************************************************)
EXTENDS AgentRuns, TLC

CONSTANT RunIds

MCRuns == [run_id : RunIds, lifecycle : {"running", "completed"}]

\* Sequences of runs with distinct ids.
MCRunLists ==
    UNION {{q \in [1..n -> {r \in MCRuns : is_terminal(r)}] :
               \A i, j \in 1..n : q[i].run_id = q[j].run_id => i = j} : n \in 0..2}

MCBody ==
    [lifecycle : {"starting"}, session : {{}}, available_commands : {{}},
     active_run : {{}} \cup {{r} : r \in MCRuns},
     recent_runs : MCRunLists, interaction : {Unclaimed}]

MCSpawnBody == {InitialAgentBody}

MCChange ==
    {[kind |-> "run_upserted", run |-> r] : r \in MCRuns}
    \cup {[kind |-> "run_removed", run_id |-> r] : r \in RunIds}

MCSymmetry == Permutations(RunIds)
===========================================================================

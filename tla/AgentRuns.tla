----------------------------- MODULE AgentRuns -----------------------------
(***************************************************************************)
(* The actor with the program's snapshots and changes (AgentState), and    *)
(* what the actor keeps true of the runs in a snapshot.                    *)
(***************************************************************************)
EXTENDS AgentActor, AgentState

CONSTANT Run  \* the runs that callers upsert

\* The parameters of the actor are those of the program; a new actor has no runs
\* (AgentSnapshot::initial, DaemonController::new).
ASSUME ProgramAssumption ==
    /\ \A b \in Body : /\ DOMAIN b = DOMAIN InitialAgentBody
                       /\ b.recent_runs \in Seq(Run)
    /\ \A b \in SpawnBody : b.active_run = {} /\ b.recent_runs = << >>
    /\ \A c \in Change : c.kind = "run_upserted" => c.run \in Run
    /\ \A c \in Change : c.kind \in {"lifecycle_changed", "session_changed", "session_cleared",
                                    "run_upserted", "run_removed", "interaction_changed",
                                    "available_commands_changed"}
    /\ \A b \in Body, c \in Change : ApplyChange(b, c) = apply_change(b, c)

\* The run bookkeeping of apply_change: at most one run is active and it has
\* not ended; the recent runs have ended, each is listed once, and none of them
\* is the active one.
WellFormed(body) ==
    LET recent == body.recent_runs
    IN /\ \A q, r \in body.active_run : q = r
       /\ \A r \in body.active_run :
             ~is_terminal(r) /\ \A i \in DOMAIN recent : recent[i].run_id # r.run_id
       /\ \A i \in DOMAIN recent : is_terminal(recent[i])
       /\ \A i, j \in DOMAIN recent : recent[i].run_id = recent[j].run_id => i = j

\* The snapshot of an actor has its runs in order, whatever changes were made,
\* failed, or came in which order (state.rs: apply_change).
RunsWellFormed == WellFormed(snapshot.body)
============================================================================

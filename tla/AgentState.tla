---------------------------- MODULE AgentState ----------------------------
(***************************************************************************)
(* The replicated body of an agent snapshot and the changes a state delta  *)
(* can carry (crates/omp-control-protocol/src/state.rs).  Pure operators:  *)
(* the daemon's actor and the client's reducer apply the same function.    *)
(*                                                                         *)
(* An Option is a set with at most one element.  A run keeps its id and    *)
(* lifecycle; its timestamps, and the fields of a session or a command,    *)
(* are opaque.                                                             *)
(***************************************************************************)
EXTENDS Naturals, Sequences

\* RunLifecycle::is_terminal.
is_terminal(run) ==
    run.lifecycle \in {"completed", "aborted", "interrupted", "failed"}

\* recent_runs.retain(|candidate| candidate.run_id != run_id): what is kept of
\* the first n runs, and of all.
Kept(runs, run_id) ==
    LET kept[n \in 0 .. Len(runs)] ==
          IF n = 0 THEN << >>
          ELSE IF runs[n].run_id # run_id THEN Append(kept[n - 1], runs[n])
          ELSE kept[n - 1]
    IN kept

Retain(runs, run_id) == Kept(runs, run_id)[Len(runs)]

\* InteractionState::Unclaimed, with the fields of a lease so that all
\* interaction states are comparable.
Unclaimed == [holder |-> "nobody", expires_at_ms |-> 0]

\* AgentSnapshot::initial, without the cursor (AgentActor holds that).
InitialAgentBody ==
    [lifecycle          |-> "starting",
     session            |-> {},
     active_run         |-> {},
     recent_runs        |-> << >>,
     interaction        |-> Unclaimed,
     available_commands |-> {}]

\* A mutant of RunUpserted: the finished run is listed but stays active.
RunUpsertedKeepsActive(body, run) ==
    LET kept == Retain(body.recent_runs, run.run_id)
    IN IF is_terminal(run)
       THEN [body EXCEPT !.recent_runs = Append(kept, run)]
       ELSE [body EXCEPT !.recent_runs = kept,
                         !.active_run  = {run}]

RunUpserted(body, run) ==
    LET kept == Retain(body.recent_runs, run.run_id)
    IN IF is_terminal(run)
       THEN [body EXCEPT !.recent_runs = Append(kept, run),
                         !.active_run  = {r \in @ : r.run_id # run.run_id}]
       ELSE [body EXCEPT !.recent_runs = kept,
                         !.active_run  = {run}]

RunRemoved(body, run_id) ==
    [body EXCEPT !.recent_runs = Retain(@, run_id),
                 !.active_run  = {r \in @ : r.run_id # run_id}]

\* fn apply_change(snapshot, change)
apply_change(body, change) ==
    CASE change.kind = "lifecycle_changed"   -> [body EXCEPT !.lifecycle = change.lifecycle]
      [] change.kind = "session_changed"     -> [body EXCEPT !.session = {change.session}]
      [] change.kind = "session_cleared"     -> [body EXCEPT !.session = {}]
      [] change.kind = "run_upserted"        -> RunUpserted(body, change.run)
      [] change.kind = "run_removed"         -> RunRemoved(body, change.run_id)
      [] change.kind = "interaction_changed" -> [body EXCEPT !.interaction = change.interaction]
      [] change.kind = "available_commands_changed" ->
             [body EXCEPT !.available_commands = change.commands]
===========================================================================

---------------------------- MODULE Controller ----------------------------
(***************************************************************************)
(* The daemon's controller (crates/ompd/src/controller.rs) for one agent   *)
(* id: requests of several connections, the bridge task of each runtime,   *)
(* the shutdown of the daemon, and the agent's row in the store, with      *)
(* crashes and restarts (crates/ompd/src/persistence/store.rs).            *)
(*                                                                         *)
(* A connection executes one request at a time and finishes it even if its *)
(* socket is lost (server.rs, run_connection).  Every await of the code is *)
(* the end of a step here; `work` holds where each task is and its locals. *)
(* Removing an agent from the registry and the end of its actor are one    *)
(* step, so a handle works exactly while its actor is the registered one.  *)
(* The runtime is the interface of module Runtime: a request is answered,  *)
(* refused or fails, shutdown returns when the process has ended.          *)
(* Publishing a frame to subscribers, the runs that have ended and the     *)
(* session are left out (AgentActor has them), and so are store I/O errors *)
(* and exhausted counters.                                                 *)
(***************************************************************************)
EXTENDS Naturals, Sequences, FiniteSets

CONSTANTS
    Connection,    \* connections that send requests
    Scopes,        \* the operations each connection's device may ask for
    EventCapacity, \* capacity of the runtime's broadcast channel
    MaxProcess,    \* bound: processes spawned
    MaxInputs      \* bound: requests, frames of processes, ends of the daemon

Operation == {"launch", "stop", "switch", "prompt", "steer", "abort"}

ASSUME ControllerAssumption ==
    /\ Scopes \in [Connection -> SUBSET Operation]
    /\ EventCapacity \in Nat \ {0}
    /\ MaxProcess \in Nat /\ MaxInputs \in Nat
    /\ Connection \cap (0 .. MaxProcess) = {}

Process == 1 .. MaxProcess
Main == 0                                      \* the task of main
Worker == Connection \cup Process \cup {Main}  \* a process stands for its bridge

VARIABLES
    registered, \* the actor instance the registry has for the id, 0 for none
    instances,  \* actor instances made so far
    snapshot,   \* the registered actor's lifecycle and active run, an Option
    lock,       \* who holds the runtimes mutex across an await
    runtimes,   \* the runtimes map at the id, an Option
    process,    \* the status of each process
    feed,       \* per process: events its bridge has not received, and whether some were lost
    work,       \* per task: where it is, and its locals
    record,     \* the row of the agents table, an Option
    inputs,     \* how many inputs there were
    since,      \* history: the first process this daemon could spawn
    let_go      \* history: the processes a stop took or a failed launch gave up

daemonVars == <<registered, instances, snapshot, lock, runtimes>>
childVars == <<process, feed>>
history == <<inputs, since, let_go>>
vars == <<daemonVars, childVars, work, record, history>>

Lifecycle == {"starting", "idle", "running", "stopping", "stopped", "interrupted", "failed"}
Event == {"agent_start", "agent_end", "exited", "failed"}
NoWork == [op |-> "none", at |-> "idle", proc |-> 0, inst |-> 0,
           pid |-> {}, run |-> {}, seen |-> "none"]
NoFeed == [queue |-> << >>, lagged |-> FALSE]
Initial == [lifecycle |-> "starting", active_run |-> {}]

\* Only the registered actor answers its handle.
Open(w) == work[w].inst # 0 /\ work[w].inst = registered

Go(w, label) == work' = [work EXCEPT ![w].at = label]

\* The request returns, with success or an error: its runtime handle is
\* dropped, and the guard of the mutex if it has one.
Return(c) ==
    /\ work' = [work EXCEPT ![c] = NoWork]
    /\ lock' = lock \ {c}

\* What a launch that returns with an error has spawned: the only handle of the
\* runtime is dropped, and its process ends.
GiveUp(w) == let_go' = IF work[w].op = "launch" THEN let_go \cup {work[w].proc} ELSE let_go

Input == inputs < MaxInputs /\ inputs' = inputs + 1

SetLifecycle(lifecycle) == snapshot' = [snapshot EXCEPT !.lifecycle = lifecycle]

Running(p) == process[p] = "running"

\* fn runtime_process_id
runtime_process_id(p) == IF Running(p) THEN {p} ELSE {}

---------------------------------------------------------------------------
\* Requests.

FirstLabel(op) ==
    CASE op = "launch" -> "lock"
      [] op \in {"stop", "switch"} -> "take"
      [] OTHER -> "find"

Begin(c, op) ==
    /\ work[c].at = "idle"
    /\ op \in Scopes[c]
    /\ Input
    /\ work' = [work EXCEPT ![c] = [NoWork EXCEPT !.op = op, !.at = FirstLabel(op)]]
    /\ UNCHANGED <<daemonVars, childVars, record, since, let_go>>

\* self.runtime(..), then for a prompt self.agent(..): NotRunning or NotFound.
FindRuntime(c) ==
    /\ work[c].at = "find"
    /\ lock = {}
    /\ IF runtimes = {} \/ (work[c].op = "prompt" /\ registered = 0)
       THEN Return(c)
       ELSE /\ work' = [work EXCEPT
                  ![c].proc = CHOOSE p \in runtimes : TRUE,
                  ![c].inst = IF work[c].op = "prompt" THEN registered ELSE 0,
                  ![c].run  = IF work[c].op = "prompt"
                              THEN {inputs} ELSE {},
                  ![c].at   = IF work[c].op = "prompt" THEN "upsert" ELSE "request"]
            /\ UNCHANGED lock
    /\ UNCHANGED <<registered, instances, snapshot, runtimes, childVars, record, history>>

\* Prompt: the run becomes active before the process is asked.
PromptUpsert(c) ==
    /\ work[c].at = "upsert"
    /\ IF Open(c)
       THEN /\ snapshot' = [snapshot EXCEPT !.active_run = work[c].run]
            /\ Go(c, "set_running")
            /\ UNCHANGED lock
       ELSE Return(c) /\ UNCHANGED snapshot
    /\ UNCHANGED <<registered, instances, runtimes, childVars, record, history>>

PromptRunning(c) ==
    /\ work[c].at = "set_running"
    /\ IF Open(c)
       THEN /\ SetLifecycle("running")
            /\ work' = [work EXCEPT ![c].pid = runtime_process_id(work[c].proc),
                                    ![c].at = "snapshot"]
            /\ UNCHANGED lock
       ELSE Return(c) /\ UNCHANGED snapshot
    /\ UNCHANGED <<registered, instances, runtimes, childVars, record, history>>

\* The process accepts the command.  An abort goes on to end the run.
RequestOk(c) ==
    /\ work[c].at = "request"
    /\ Running(work[c].proc)
    /\ IF work[c].op = "abort" THEN Go(c, "read_run") /\ UNCHANGED lock ELSE Return(c)
    /\ UNCHANGED <<registered, instances, snapshot, runtimes, childVars, record, history>>

\* It answers with an error (ensure_rpc_success), or the runtime fails or
\* times out: only then a prompt ends its run (fail_active_run).
RequestRefused(c) ==
    /\ work[c].at = "request"
    /\ Running(work[c].proc)
    /\ Return(c)
    /\ UNCHANGED <<registered, instances, snapshot, runtimes, childVars, record, history>>

RequestFails(c) ==
    /\ work[c].at = "request"
    /\ IF work[c].op = "prompt"
       THEN /\ work' = [work EXCEPT ![c].op = "fail", ![c].at = "read_run"]
            /\ UNCHANGED lock
       ELSE Return(c)
    /\ UNCHANGED <<registered, instances, snapshot, runtimes, childVars, record, history>>

---------------------------------------------------------------------------
\* fail_active_run, complete_active_run and the end of Abort: the active run
\* is read in one step and written back, ended, in another.

\* An abort looks the agent up again; the others have a handle.
Reaches(w) == IF work[w].op = "abort" THEN registered # 0 ELSE Open(w)
Skip(w) == IF work[w].op = "abort" THEN Return(w) ELSE Go(w, "set_idle") /\ UNCHANGED lock

ReadRun(w) ==
    /\ work[w].at = "read_run"
    /\ IF Reaches(w) /\ snapshot.active_run # {}
       THEN /\ work' = [work EXCEPT ![w].run = snapshot.active_run, ![w].at = "finish_run"]
            /\ UNCHANGED lock
       ELSE Skip(w)
    /\ UNCHANGED <<registered, instances, snapshot, runtimes, childVars, record, history>>

FinishRun(w) ==
    /\ work[w].at = "finish_run"
    /\ IF Reaches(w)
       THEN snapshot' = [snapshot EXCEPT !.active_run = @ \ work[w].run]
       ELSE UNCHANGED snapshot
    /\ Skip(w)
    /\ UNCHANGED <<registered, instances, runtimes, childVars, record, history>>

SetIdle(w) ==
    /\ work[w].at = "set_idle"
    /\ IF Open(w) THEN SetLifecycle("idle") ELSE UNCHANGED snapshot
    /\ work' = [work EXCEPT ![w].pid = IF w \in Process THEN @ ELSE {},
                            ![w].run = {},
                            ![w].at  = "snapshot"]
    /\ UNCHANGED <<registered, instances, lock, runtimes, childVars, record, history>>

---------------------------------------------------------------------------
\* persist_snapshot: the actor answers, then the row is written.

\* What follows the write; fail_active_run and an exit end with it.
AfterPersist(op) ==
    CASE op = "launch" -> "install"
      [] op \in {"stop", "switch"} -> "remove"
      [] op = "prompt" -> "request"
      [] op = "agent_end" -> "recv"
      [] op = "shutdown" -> "down"

\* The actor is gone: the error of persist_agent ends a request, and is
\* ignored by the bridge and by shutdown.
PersistFails(w) ==
    IF w \in Connection \/ work[w].op = "exit" THEN Return(w)
    ELSE Go(w, AfterPersist(work[w].op)) /\ UNCHANGED lock

PersistRead(w) ==
    /\ work[w].at = "snapshot"
    /\ IF Open(w)
       THEN /\ work' = [work EXCEPT ![w].seen = snapshot.lifecycle, ![w].at = "write"]
            /\ UNCHANGED <<lock, let_go>>
       ELSE PersistFails(w) /\ GiveUp(w)
    /\ UNCHANGED <<registered, instances, snapshot, runtimes, childVars, record, inputs, since>>

\* Store::upsert_agent
PersistWrite(w) ==
    /\ work[w].at = "write"
    /\ record' = {[lifecycle |-> work[w].seen, process_id |-> work[w].pid,
                   active_run_id |-> work[w].run]}
    /\ IF work[w].op \in {"fail", "exit"} THEN Return(w)
       ELSE /\ work' = [work EXCEPT ![w].seen = "none", ![w].run = {},
                                    ![w].at = AfterPersist(work[w].op)]
            /\ UNCHANGED lock
    /\ UNCHANGED <<registered, instances, snapshot, runtimes, childVars, history>>

---------------------------------------------------------------------------
\* launch: the mutex is held from the check to the insertion.

\* Mutant of LaunchLock: a runtime in the map is replaced without a look at it.
LaunchReplaces(c) ==
    /\ work[c].at = "lock"
    /\ lock = {}
    /\ runtimes' = {} /\ lock' = {c} /\ Go(c, "spawn")
    /\ UNCHANGED <<registered, instances, snapshot, childVars, record, history>>

LaunchLock(c) ==
    /\ work[c].at = "lock"
    /\ lock = {}
    /\ IF \E p \in runtimes : Running(p)      \* AlreadyRunning
       THEN Return(c) /\ UNCHANGED runtimes
       ELSE runtimes' = {} /\ lock' = {c} /\ Go(c, "spawn")
    /\ UNCHANGED <<registered, instances, snapshot, childVars, record, history>>

Unborn == {p \in Process : process[p] = "unborn"}

Spawn(c) ==
    /\ work[c].at = "spawn"
    /\ Unborn # {}
    /\ LET p == CHOOSE q \in Unborn : \A r \in Unborn : q <= r
       IN /\ process' = [process EXCEPT ![p] = "running"]
          /\ work' = [work EXCEPT ![c].proc = p, ![c].at = "agent"]
    /\ UNCHANGED <<daemonVars, feed, record, history>>

SpawnFails(c) ==
    /\ work[c].at = "spawn"
    /\ Return(c)
    /\ UNCHANGED <<registered, instances, snapshot, runtimes, childVars, record, history>>

\* registry.get, or registry.create
LaunchAgent(c) ==
    /\ work[c].at = "agent"
    /\ IF registered = 0
       THEN /\ instances' = instances + 1
            /\ registered' = instances + 1
            /\ snapshot' = Initial
       ELSE UNCHANGED <<instances, registered, snapshot>>
    /\ work' = [work EXCEPT ![c].inst = registered', ![c].at = "launch_idle"]
    /\ UNCHANGED <<lock, runtimes, childVars, record, history>>

LaunchIdle(c) ==
    /\ work[c].at = "launch_idle"
    /\ IF Open(c)
       THEN SetLifecycle("idle") /\ Go(c, "get_state") /\ UNCHANGED <<lock, let_go>>
       ELSE Return(c) /\ GiveUp(c) /\ UNCHANGED snapshot
    /\ UNCHANGED <<registered, instances, runtimes, childVars, record, inputs, since>>

\* GetState: an answer is given to the actor, anything else is ignored.
LaunchState(c) ==
    /\ work[c].at = "get_state"
    /\ \E answered \in IF Running(work[c].proc) THEN BOOLEAN ELSE {FALSE} :
         IF answered /\ ~Open(c)
         THEN Return(c) /\ GiveUp(c)
         ELSE /\ work' = [work EXCEPT ![c].pid = runtime_process_id(work[c].proc),
                                      ![c].at = "snapshot"]
              /\ UNCHANGED <<lock, let_go>>
    /\ UNCHANGED <<registered, instances, snapshot, runtimes, childVars, record, inputs, since>>

\* Mutant of FirstEvents: the bridge subscribes to what comes from now on.
EventsFromNow(p) == NoFeed

\* OmpRuntime::events gives the first caller the receiver made at the start.
FirstEvents(p) == feed[p]

\* spawn_event_bridge
Install(c) ==
    /\ work[c].at = "install"
    /\ LET p == work[c].proc
       IN /\ runtimes' = {p}
          /\ feed' = [feed EXCEPT ![p] = FirstEvents(p)]
          /\ work' = [work EXCEPT ![p] = [work[c] EXCEPT !.op = "none", !.at = "recv"],
                                  ![c] = NoWork]
    /\ lock' = {}
    /\ UNCHANGED <<registered, instances, snapshot, process, record, history>>

---------------------------------------------------------------------------
\* stop, the stop of SwitchSession, and the shutdown of the daemon.

Terminate ==
    /\ work[Main].at = "idle"
    /\ Input
    /\ work' = [work EXCEPT ![Main].op = "shutdown", ![Main].at = "take"]
    /\ UNCHANGED <<daemonVars, childVars, record, since, let_go>>

Take(w) ==
    /\ work[w].at = "take"
    /\ lock = {}
    /\ runtimes' = {} /\ let_go' = let_go \cup runtimes
    /\ IF runtimes = {} \/ registered = 0
       THEN IF w = Main THEN Go(w, "down") /\ UNCHANGED lock ELSE Return(w)
       ELSE /\ work' = [work EXCEPT ![w].proc = CHOOSE p \in runtimes : TRUE,
                                    ![w].inst = registered, ![w].at = "set_stopping"]
            /\ UNCHANGED lock
    /\ UNCHANGED <<registered, instances, snapshot, childVars, record, inputs, since>>

\* shutdown goes on after errors of the actor, stop does not.
TellActor(w, lifecycle, label) ==
    /\ IF Open(w) THEN SetLifecycle(lifecycle) ELSE UNCHANGED snapshot
    /\ IF Open(w) \/ w = Main
       THEN Go(w, label) /\ UNCHANGED lock
       ELSE Return(w)
    /\ UNCHANGED <<registered, instances, runtimes, childVars, record, history>>

SetStopping(w) ==
    /\ work[w].at = "set_stopping"
    /\ TellActor(w, "stopping", "shutdown")

\* runtime.shutdown returns; stop leaves with its error.
ShutdownReturns(w) ==
    /\ work[w].at = "shutdown"
    /\ ~Running(work[w].proc)
    /\ IF process[work[w].proc] = "exited"
       THEN Go(w, "set_stopped") /\ UNCHANGED lock
       ELSE IF w = Main THEN Go(w, "set_failed") /\ UNCHANGED lock ELSE Return(w)
    /\ UNCHANGED <<registered, instances, snapshot, runtimes, childVars, record, history>>

SetStopped(w) ==
    /\ work[w].at = "set_stopped"
    /\ TellActor(w, "stopped", "snapshot")

SetFailed ==
    /\ work[Main].at = "set_failed"
    /\ TellActor(Main, "failed", "snapshot")

\* SwitchSession goes on to launch, unless the agent was removed already.
AfterRemove(c) ==
    IF registered # 0 /\ work[c].op = "switch"
    THEN /\ work' = [work EXCEPT ![c] = [NoWork EXCEPT !.op = "launch", !.at = "lock"]]
         /\ UNCHANGED lock
    ELSE Return(c)

\* registry.remove takes the agent by its id.
Remove(c) ==
    /\ work[c].at = "remove"
    /\ registered' = 0
    /\ snapshot' = Initial
    /\ AfterRemove(c)
    /\ UNCHANGED <<instances, runtimes, childVars, record, history>>

---------------------------------------------------------------------------
\* The bridge of process p, from its events to the agent.

Lagged(p) ==
    /\ work[p].at = "recv"
    /\ feed[p].lagged
    /\ feed' = [feed EXCEPT ![p].lagged = FALSE]
    /\ IF Open(p) THEN SetLifecycle("failed") ELSE UNCHANGED snapshot
    /\ UNCHANGED <<registered, instances, lock, runtimes, process, work, record, history>>

Recv(p, event) ==
    /\ work[p].at = "recv"
    /\ ~feed[p].lagged
    /\ feed[p].queue # << >>
    /\ event = Head(feed[p].queue)
    /\ feed' = [feed EXCEPT ![p].queue = Tail(@)]
    /\ UNCHANGED <<registered, instances, lock, runtimes, process, record, history>>

RecvStart(p) ==
    /\ Recv(p, "agent_start")
    /\ IF Open(p) THEN SetLifecycle("running") ELSE UNCHANGED snapshot
    /\ UNCHANGED work

RecvEnd(p) ==
    /\ Recv(p, "agent_end")
    /\ work' = [work EXCEPT ![p].op = "agent_end", ![p].at = "read_run"]
    /\ UNCHANGED snapshot

RecvExit(p) ==
    /\ \E event \in {"exited", "failed"} :
         /\ Recv(p, event)
         /\ IF Open(p)
            THEN \E success \in IF event = "exited" THEN BOOLEAN ELSE {FALSE} :
                    SetLifecycle(IF success THEN "stopped" ELSE "failed")
            ELSE UNCHANGED snapshot
    /\ work' = [work EXCEPT ![p].op = "exit", ![p].pid = {}, ![p].run = {},
                            ![p].at = "snapshot"]

---------------------------------------------------------------------------
\* The process and its runtime, seen from outside; the daemon's restart.

\* Mutant of Publish: a channel without a bound.
PublishUnbounded(p, event) == feed' = [feed EXCEPT ![p].queue = Append(@, event)]

Publish(p, event) ==
    feed' = IF Len(feed[p].queue) = EventCapacity
            THEN [feed EXCEPT ![p] = [queue |-> Append(Tail(@.queue), event), lagged |-> TRUE]]
            ELSE [feed EXCEPT ![p].queue = Append(@, event)]

Emit(p) ==
    /\ Running(p)
    /\ Input
    /\ \E event \in {"agent_start", "agent_end"} : Publish(p, event)
    /\ UNCHANGED <<daemonVars, process, work, record, since, let_go>>

\* It ends by itself, because it is asked to, or because every handle of its
\* runtime has been dropped.
Exit(p) ==
    /\ Running(p)
    /\ \E event \in {"exited", "failed"} :
         /\ process' = [process EXCEPT ![p] = event]
         /\ Publish(p, event)
    /\ UNCHANGED <<daemonVars, work, record, history>>

\* Mutant of Recovered: an agent that was being stopped is kept as it was.
RecoveredRunning(row) ==
    IF row.lifecycle \in {"starting", "running"}
    THEN [lifecycle |-> "interrupted", process_id |-> {}, active_run_id |-> {}] ELSE row

\* fn recover_interrupted
Recovered(row) ==
    IF row.lifecycle \in {"starting", "running", "stopping"}
    THEN [lifecycle |-> "interrupted", process_id |-> {}, active_run_id |-> {}] ELSE row

\* Store::agents: of a decoded row the controller takes the lifecycle, not the
\* process id and the run.
Decoded(rows) == (CHOOSE row \in rows : TRUE).lifecycle

\* DaemonController::new restores the agent of the row; nothing writes the
\* sessions table, so it has no session.
Restored(rows) ==
    IF rows = {} THEN Initial
    ELSE [Initial EXCEPT !.lifecycle = Decoded(rows)]

\* The daemon ends, after its shutdown or without one, and starts again.  A daemon
\* that is killed does not end its processes (kill_on_drop acts in the daemon):
\* they may go on, and no daemon knows of them again.
Restart ==
    /\ Input
    /\ record' = {Recovered(row) : row \in record}
    /\ snapshot' = Restored(record')
    /\ instances' = IF record = {} THEN instances ELSE instances + 1
    /\ registered' = IF record = {} THEN 0 ELSE instances + 1
    /\ lock' = {} /\ runtimes' = {}
    /\ process' = [p \in Process |-> IF Running(p) THEN "orphaned" ELSE process[p]]
    /\ feed' = [p \in Process |-> NoFeed]
    /\ work' = [w \in Worker |-> NoWork]
    /\ let_go' = {}
    /\ since' = Cardinality(Process \ Unborn) + 1

---------------------------------------------------------------------------
ControllerInit ==
    /\ registered = 0 /\ instances = 0
    /\ snapshot = Initial
    /\ lock = {} /\ runtimes = {}
    /\ process = [p \in Process |-> "unborn"]
    /\ feed = [p \in Process |-> NoFeed]
    /\ work = [w \in Worker |-> NoWork]
    /\ record = {}
    /\ inputs = 0 /\ since = 1 /\ let_go = {}

\* Steps of one request after it has begun, of the bridge, of the shutdown.
RequestStep(c) ==
    \/ FindRuntime(c) \/ PromptUpsert(c) \/ PromptRunning(c)
    \/ RequestOk(c) \/ RequestRefused(c) \/ RequestFails(c)
    \/ ReadRun(c) \/ FinishRun(c) \/ SetIdle(c) \/ PersistRead(c) \/ PersistWrite(c)
    \/ LaunchLock(c) \/ Spawn(c) \/ SpawnFails(c) \/ LaunchAgent(c) \/ LaunchIdle(c)
    \/ LaunchState(c) \/ Install(c)
    \/ Take(c) \/ SetStopping(c) \/ ShutdownReturns(c) \/ SetStopped(c) \/ Remove(c)

BridgeStep(p) ==
    \/ Lagged(p) \/ RecvStart(p) \/ RecvEnd(p) \/ RecvExit(p)
    \/ ReadRun(p) \/ FinishRun(p) \/ SetIdle(p) \/ PersistRead(p) \/ PersistWrite(p)

MainStep ==
    \/ Take(Main) \/ SetStopping(Main) \/ ShutdownReturns(Main)
    \/ SetStopped(Main) \/ SetFailed \/ PersistRead(Main) \/ PersistWrite(Main)

Next ==
    \/ \E c \in Connection : (\E op \in Operation : Begin(c, op)) \/ RequestStep(c)
    \/ \E p \in Process : BridgeStep(p) \/ Emit(p) \/ Exit(p)
    \/ Terminate \/ MainStep
    \/ Restart

Spec == ControllerInit /\ [][Next]_vars

\* The bridge is a task of its own that waits for nothing but its events, the
\* actor and the store.
FairSpec == Spec /\ \A p \in Process : WF_vars(BridgeStep(p))

---------------------------------------------------------------------------
\* Properties.

TypeOK ==
    /\ registered \in 0 .. instances /\ instances \in Nat
    /\ snapshot.lifecycle \in Lifecycle
    /\ lock \in SUBSET Connection /\ Cardinality(lock) <= 1
    /\ runtimes \in SUBSET Process /\ Cardinality(runtimes) <= 1
    /\ \A p \in Process :
         /\ process[p] \in {"unborn", "running", "exited", "failed", "orphaned"}
         /\ Len(feed[p].queue) <= EventCapacity
         /\ \A i \in DOMAIN feed[p].queue : feed[p].queue[i] \in Event
    /\ \A row \in record : row.lifecycle \in Lifecycle /\ row.process_id \subseteq Process
    /\ \A w \in Worker : work[w].proc \in 0 .. MaxProcess

\* A launch never makes a duplicate of a served process, and none is lost: of the
\* running processes that no stop took and no failed launch gave up there is at
\* most one, in the map where every request finds it or in the hands of the launch
\* that holds the mutex (launch holds runtimes from the check to the insertion;
\* stop and shutdown take out what they end).
OneServed ==
    LET served == {p \in Process : Running(p) /\ p \notin let_go}
    IN /\ Cardinality(served) <= 1
       /\ served \subseteq runtimes \cup {work[c].proc : c \in lock}

\* docs/user.md:52, "Launching an ID whose OMP process is already running is
\* rejected rather than creating a duplicate": while the daemon serves, one id never
\* has two running processes.  The code does not keep it: stop takes the runtime
\* out of the map and then waits for the process to end.
OneProcess ==
    work[Main].at = "idle" => Cardinality({p \in Process : Running(p)}) <= 1

\* No ghost of the previous daemon: an agent shown as starting, running or
\* stopping, an active run, or a row that names a process together with such a
\* lifecycle, is work of this daemon, wherever the last one ended
\* (recover_interrupted, DaemonController::new).
NoGhostWork ==
    LET launched == \E p \in Process : p >= since /\ process[p] # "unborn"
        busy(lifecycle) == lifecycle \in {"starting", "running", "stopping"}
    IN ~launched =>
         /\ registered # 0 => ~busy(snapshot.lifecycle) /\ snapshot.active_run = {}
         /\ since > 1 => \A row \in record : ~busy(row.lifecycle)

\* The end of a process in the map is shown as stopped or failed, also when it
\* came before the bridge was started or behind lost events (OmpRuntime::events,
\* spawn_event_bridge), unless the process is replaced first, or its agent removed
\* by a stop that began before it was launched.
ExitReported ==
    \A p \in Process :
        (p \in runtimes /\ ~Running(p) /\ work[p].op # "exit" /\ work[p].at # "idle")
            ~> \/ snapshot.lifecycle \in {"stopped", "failed"}
               \/ p \notin runtimes
               \/ registered = 0
===========================================================================

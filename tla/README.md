# omp-remote: TLA+ models and proofs

omp-remote runs coding agents (OMP processes) under a daemon, `ompd`, and lets
clients on other devices watch and control them. This directory models the
parts of it in which the order of events decides correctness:

- how an agent's state is replicated to a client that may be slow, disconnected or
  stale (`AgentActor`, `Replication`);
- how a request that may be sent several times takes effect once (`Operations`);
- how the daemon launches, prompts, stops and recovers an agent (`Controller`);
- how the process behind an agent is started, read, spoken to and stopped
  (`RpcFrames`, `Runtime`);
- how a device is paired, authenticated, revoked and kept connected (`Devices`,
  `Session`);
- how one of several clients answers an agent's question (`Leases`).

TLC checks the models on small instances; TLAPS proves the central invariants for
every value of the constants.

`PROJECT.json` holds the machine-readable part: components, runs, the source
lines behind every definition, hazards, findings and theorems.

## 1. The system

### Components

| Component | Source | State it keeps | Operations |
|---|---|---|---|
| Replicated state | `omp-control-protocol/src/state.rs` | `AgentSnapshot`: revision, event sequence, lifecycle, session, active and recent runs, commands, interaction lease | `apply_change`, `apply_delta`, `apply_update`, `would_change` |
| Agent actor | `omp-control-plane/src/actor.rs` | the snapshot, a bounded replay window, the subscribers' bounded channels, the lease timer | change, publish event, subscribe (with a cursor), acquire and release lease, shutdown |
| Registry | `omp-control-plane/src/registry.rs` | map from agent id to actor handle | create, restore, get, remove |
| Daemon connection | `ompd/src/server.rs` | three outbound lanes, the forwarding task of each subscription, the authenticated device | handshake, heartbeat, subscribe, unsubscribe, execute a request |
| Store | `ompd/src/persistence/store.rs` | SQLite: operations, agents, sessions, devices, pairings | claim and complete operation, recovery at start, pairing exchange, authentication |
| Controller | `ompd/src/controller.rs` | the runtime of each agent | launch, prompt, abort, stop, lease, UI response, the event bridge from runtime to actor |
| Runtime actor | `omp-runtime/src/runtime.rs` | the child process, pending RPC requests, prompt status | request with a timeout, events, exit, shutdown |
| RPC framing | `omp-rpc/src/frame.rs` | the chunk sequence being put together, the limits | push a line |
| Client runner | `omp-control-client/src/client.rs` | desired subscriptions, pending requests, the credential | connect with backoff, handshake, subscribe, request, resynchronise |
| Client reducer | `omp-control-client/src/reducer.rs` | the replicas and which of them need a resynchronisation | apply a snapshot, an update, a gap |
| Credential storage | `omp-control-client/src/storage.rs` | the device credential | load, save |
| Pairing | `ompd/src/pairing.rs`, `omp-control-client/src/pairing.rs` | the pairing code and its expiry | create, exchange |
| Application | `omp-app` | saved servers, dialogs, transcripts | pair, connect, disconnect, requests, answering a question |

### How they interact

An OMP process writes RPC frames; its runtime actor turns them into responses
and events; the controller's event bridge turns events into changes of the
agent's actor. The actor serialises all changes, numbers them, keeps the newest
ones for replay and offers each to every subscriber's channel without waiting.
A forwarding task per subscription moves updates from that channel to the
*state* lane of a connection; gaps and errors travel on the *control* lane, which
the writer prefers; answers to requests on the *response* lane. The client's
reducer applies an update only if it continues the replica exactly; otherwise,
and on every gap, the client subscribes again.

Requests go the other way: the client keeps each one pending until it is
answered and sends all pending requests again on a new connection. The daemon
claims the operation id of a mutating request in the store, executes it and
stores the outcome before it replies.

### What is hard about it

- **Slow consumers.** Three bounded buffers in a row (channel, lane, socket), none
  of which the producer waits for. Each overflow must reach the client as a gap.
- **Overtaking.** The control lane overtakes the state lane; a replaced forwarding
  task may still emit; overlapping resubscriptions deliver snapshots out of order.
- **Stale cursors.** A cursor may be older than the window, of another
  incarnation of the actor, or right in one counter and wrong in the other.
- **Retries.** A request is sent again while the old connection may still be
  executing it; the daemon may end between claim, effect and stored outcome.
- **Limits.** u64 counters, replay capacity, channel and lane capacities.
- **A child process** that may stop reading, answer late or twice, or exit at any
  moment, with requests pending, queued and half written.
- **Several writers of one agent.** Requests of several connections, the event bridge
  and the daemon's shutdown change the agent, its row and the map of runtimes, each
  in several steps. `stop` gives up the lock of the map before it waits for the process.
- **Leases.** Two clocks, a timer, renewal by the same holder, and an answer that is
  checked before it waits for the runtime, on a connection that may be lost while the
  client goes on with the next.
- **A heartbeat of 15 s** on a connection whose task reads nothing while it executes a
  request of up to 60 s.
- **Pairing.** The daemon uses the link up before the client has stored what it got.
- **Chunked frames** from a process that may end anywhere, read first by the startup
  and then by another task with the same buffer and decoder.

Every one of these is listed at its line under `hazards`, with the properties
that cover it, or why none does.

### What makes each component correct

- *Actor*: the replay window has no hole; a subscriber never misses an update
  unknowingly; a cursor is answered with a replay exactly when a replay leads to
  the present.
- *State*: a run is active or recent, never both, and listed once.
- *Connection and client*: the client shows only states the agent was in; when
  nothing is under way it shows the current one; resynchronisation ends.
- *Requests*: an operation has its effect at most once; an outcome that was told is
  durable; every request is answered.
- *Controller*: an agent has at most one process that serves it, and none gets lost out of
  reach of requests; after a restart nothing looks like work of the new daemon that is not;
  every exit is shown.
- *Leases*: the lease is exclusive; a checked answer is the holder's unless the lease
  expired or the holder gave it back; a dialog is closed only by the answer to its own
  question; a lease that its holder abandons ends.
- *Runtime*: every frame of the child reaches the command it answers or the
  subscribers, in order and before the end is announced; every call returns.
- *Framing*: a frame handed on is one whole message; none is lost; a truncated one is
  an error.
- *Pairing and sessions*: a link makes one device; a connected client has stored its
  credential; a revoked device does not come back; scopes are those of the link; the
  heartbeat ends no connection of a client that answers, but one whose request is being
  executed; a client with a credential reconnects.

## 2. Modules

| Module | Models | Built on |
|---|---|---|
| `AgentState` | contents of a snapshot, `apply_change` | |
| `AgentRuns` | the actor with the program's snapshots: what it keeps true of the runs | EXTENDS `AgentActor`, `AgentState` |
| `AgentActor` | the actor, its subscriptions, the registry's spawn and shutdown | parameters `Body`, `Change`, `ApplyChange` |
| `Replication` | one agent, one client: daemon connection, lanes, forwarding tasks, client loop, reducer, restarts | EXTENDS `AgentActor` |
| `Operations` | requests of one device, their retries, the operations table, restarts | |
| `Runtime` | the actor of one OMP process, its callers, the pipes, the child | |
| `RpcFrames` | the lines of one OMP process: startup, negotiation, reading task, decoder | |
| `Controller` | one agent: requests of several connections, event bridges, shutdown, the row, restarts | uses the interface of `Runtime` |
| `Devices` | pairings and devices in the store | |
| `Session` | connections of several clients from pairing to reconnection | EXTENDS `Devices` |
| `Leases` | the interaction lease of one agent, its timer, the clients' dialogs | |
| `ExclusiveLease` | what a lease promises; `Leases` implements it | |
| `MCAgentActor`, `MCReplication`, `MCOperations`, `MCController`, `MCSession`, `MCRpcFrames` | instances for TLC | the above; the first with `AgentRuns`, the second with `AgentState` |
| `AgentActorProofs`, `ReplicationProofs`, `OperationsProofs`, `RuntimeProofs`, `RpcFramesProofs`, `ControllerProofs`, `SessionProofs`, `LeasesProofs` | theorems | the above with TLAPS; `ReplicationProofs` uses the lemmas of `AgentActorProofs` |

`AgentActor` takes what a snapshot contains and how a change acts as parameters,
so that its theorems hold for any contents; the MC modules give it the program's
own (`AgentState`). `AgentRuns` states, as `ProgramAssumption`, that the parameters are
the program's; only what is about runs uses it.

### AgentActor

`snapshot`, `replay` and `subscribers` are the fields of `ActorState`. A
subscription has both ends of its channel: `attached` (the actor still holds the
sender), `open` (the receiver exists), `queue`, the flag `resync_required`, and
`checked`, which says that `recv` has made its first test of the flag and is
waiting for the channel. Receiving is therefore two steps (`RecvCheck`, then
`RecvUpdate`, `RecvResyncRequired` or `RecvClosed`) between which the actor may
overflow the channel. `apply_change_command` and `publish_event` are one message
of the actor each, from the exhaustion checks through `record`, which pushes to
the window and delivers to every subscriber. `subscription_start` and
`replay_reaches_snapshot` answer a cursor. `spawn` and `shutdown` are the
registry's create/restore and remove.

`hist`, and the fields `incarnation` and `position`, are history: no action's
guard reads them.

### Replication

One variable per queue: `inbound` (frames the daemon has not handled), `control`
and `state` (lanes), `wire` (written, not yet read). `handler` is where
`run_connection` is within a Subscribe: the actor's answer, the abort of the
previous task, the gap, the frames of the start and the spawn of the new task are
separate steps, because forwarding tasks run in between. `forwarder[s]` is the
task of subscription `s`; an aborted task ends only at an await, so it may still
emit what it holds. `ClientReceive` is one turn of the client's loop with the
reducer (`ClientSnapshot`, `ClientUpdate`, `ClientResync`, `ClientError`).
`Disconnect`, `DaemonRestarts`, `AgentStops` and `AgentLaunches` are the failures.
`lapses` is history of the connection: that a start was dropped, or that the user
unsubscribed; the properties read it, no action does.

### Operations

`pending`, `sent` and `answers` are the client's side: the pending requests, those
indexed under a request id of the current connection, and what callers were told.
Each connection has an `inbox`, a `task` (`execute_request` between claim, execute
and complete) and `responses`. A connection the client has lost lives on in the
daemon until its own task notices, and may still read and execute what it had
received. `operations` is the table, `executed` the history of effects. A crash
ends all tasks and turns pending rows into indeterminate ones, as
`recover_interrupted` does at the next start.

### Runtime

`call` holds where each caller of `request`, `send` and `shutdown` is, and what it was
given; `channel` is the actor's bounded channel; `actor` is where `run_actor` is: in its
loop, in a write (during which it does nothing else), in `shutdown_child`, draining,
killing, ended. `pending` are the commands that wait for a response. `written` is all
the child has written and `handled` how much of it the actor has taken. `Finish` is the
common end: status, last event, the answer to shutdown, `fail_pending`, and the channel
dropped. A caller whose oneshot sender is dropped unused gets `RuntimeStopped`
(`SenderDropped`), one that times out sends a `Cancel` first (`Timeout`, `Cancel`), and
what is sent to a caller that no longer waits is lost. The child is external and does
as it likes.

### RpcFrames

`messages` are what the process has begun to write, each with the way it is cut into
lines (`shape`: whole, or chunks with a declared count and length); `written` are all
lines, `stdout` those not read yet. `phase` is where `OmpRuntime::spawn` stands (waiting
for the ready frame, writing the negotiation, waiting for its answer) and then the
task `read_stdout`. `decoder` is `RpcFrameDecoder`: the pending sequence and the limit
of reassembly. `Accepts` has every condition under which `push_json_line` returns no
error, in the order limits, metadata, lengths, content. `HandOver` is the end of
`spawn`: the initial events go to the first subscriber, the buffer and the decoder to
the reading task. A faulty process may write a message of the wrong kind or shape,
begin one inside another, leave a chunk out, and end inside a line.

### Controller

One agent id. `work[w]` is the program counter and the locals of a task: a request of
a connection, the bridge of a process, or the daemon's shutdown (`Main`). Every await
ends a step: the lock of the runtimes map, each message to the actor, the two halves of
`persist_snapshot`, the request to the process. `launch` holds the lock from its
check to the insertion; `stop` takes the runtime out of the map, then waits for the
process. `registered` is the actor in the registry; a handle works only while its actor
is that one (`Open`). `feed[p]` is the broadcast channel of a runtime with its bound
and the mark that events were lost. `record` is the row of the agents table. `Restart`
is a crash or a termination followed by `recover_interrupted` and
`DaemonController::new`. The processes that run at that moment become `orphaned`: the
`kill_on_drop` of `runtime.rs:58` acts when a daemon drops its runtime, not when it is
killed, and the next daemon neither knows nor looks for them. `let_go` is history: the
processes that a `stop` took out of the map or a failed launch gave up, and whose end is
awaited by nobody or by that stop alone.

### Devices and Session

`Devices` has the tables: a pairing is absent, open, expired or consumed; a device has
the link it came from, its scopes and whether it is revoked. `Session` has per client
the state of its runner, what it authenticates with (`source`, the link; `active`, the
credential in use), its keyring and its saved profile, and per connection a record of
both queues, where the daemon's task is, the device it authenticated, the writer and
the number of heartbeat intervals without a message. A cut connection (`up` false)
loses what is under way, and either side may or may not notice. The writer's heartbeat
ticks whatever the connection's task does. `Prompt` is the one assumption about time: on a
connection that is not cut, a message arrives, is read and is answered within an interval,
except that the daemon's task reads nothing while it executes a request (`Working`, with
`behind` for what arrived meanwhile). `why` is history: whether the heartbeat gave up on
silence or on such a request.

### Leases and ExclusiveLease

`lease` and `deadline` are the actor's lease and timer, each with the time left by its
own clock; `ClockStep` sets the wall clock.

A `Line` is a connection of a client. `requests[c]` are the requests a client has made, in
the order of their keys, each with its row of the operations table; `wire[k]` are the keys of
line `k` that the daemon has not handled, and it handles them one after the other. A client
that loses its line goes on with the next (`Reconnect`): what has no response is sent
again, while the daemon still executes what it had received on the old line. The table
makes the second arrival of a request a repetition (`RepeatOperation`), answered with the
stored outcome or with `operation_in_progress`. `checked` are the lines that are between
the two halves of `send_ui_response`; `lapsed` is history: for which of those the lease has
expired since, or was given back by the holder itself on another line.

`shown`, `loop` and `task` are the application: the dialog, the event loop that waits for
the lease, and the task of every click, which answers, releases and dismisses. The dialog
is a component keyed by agent and question (`interaction_key`, view.rs:870), and its tasks are
spawned in its scope (view.rs:845): another question makes another component and ends the
tasks of the old one (`Remounts`, `EndTasks`), and so does dismissing it. The client goes on
to send what such a task had asked for, and the daemon to execute it, but nobody waits for
the answer (`NobodyWaits`).

`ExclusiveLease` has one variable, who may answer, and says
that it changes hands only through nobody; the mapping takes the holder of a lease that
has not expired by the wall clock. A wall clock that is set back revives a lease of the
same holder, which the abstract specification allows as an acquisition.

### Abstractions

- An `Option` is a set with at most one element.
- A request and its connection stand for a request id: ids are fresh on every send.
- The client's outgoing frames are an unbounded queue; the response lane and the
  socket behind it are one queue.
- Removing an actor from the registry and the end of its task are one step.
  A Subscribe that obtained the handle of an actor that is then relaunched is
  therefore not represented.
- The device has the observe scope in `Replication`; without it each Subscribe is
  answered with an error frame. In `Operations` requests may be unauthorised.
- What the controller does to an agent's state appears in `Replication` as changes
  and events in any order; in `Operations` executing a request is one step with any
  outcome, in `Controller` it is every step of it for one agent.
- `Controller` takes from `Runtime` that a request is answered, refused or fails and that
  shutdown returns when the process has ended.
- Errors of SQLite, exhausted counters and the runs that have ended are left out of
  `Controller`; the session of an agent is opaque.
- In `Session` versions and capabilities agree, and the secret of a link or of a
  credential is known only to who was given it. A request is executed in one step,
  any time after it was read. A runner that leaves closes its socket at once; in
  client.rs:262-271 it is open, but not read, until the sleep before the next attempt ends,
  which lets the daemon write a little longer to nobody.
- Requests pass `envelope.validate()` (server.rs:406): the client sends only valid ones, in
  `Operations` and elsewhere.
- In `RpcFrames` byte counts are small numbers, and ids of chunk sequences differ from
  message to message: two sequences with the same id, count and length could not be
  told apart by the decoder either.
- In `Leases` the row of a request, the work of the actor and the stored outcome are one
  step, except that an answer waits between its check and its forwarding; `Operations` has
  claim, effect and outcome apart. A restart of the daemon is left out.
- In `Leases` the dialogs that may cover this one (another agent's, or a notice that needs no
  answer) are left out. A response and the resumption of its waiter are one step, and so are
  the arrival of a question and the remounting of its dialog: Dioxus renders what is dirty
  before it polls the tasks again.
- Timestamps, sizes of frames and texts are left out. The client's error frames
  are kept because they use the control lane.

## 3. Runs

| Run | Expectation | Shows |
|---|---|---|
| `actor` | pass | `ActorTypeOK`, `ReplayWindow`, `StreamComplete`, `StartIsExact`, `RunsWellFormed` |
| `replication` | pass | `TypeOK`, `ReplicaFaithful` |
| `replication_quiet` | pass | `QuietMeansCurrent`, `Converges` |
| `replication_alias` | violation | a cursor of an old actor is taken for one of the new (finding 1) |
| `operations` | pass | `TypeOK`, `AtMostOnce`, `DurableOutcome`, `EveryRequestAnswered` |
| `runtime` | pass | `TypeOK`, `EveryFrameRouted`, `AcceptedResponsesDrained`, `NoAbandonedCommand`, `EveryCallReturns` |
| `runtime_hang` | violation | a shutdown waits for ever for a child that does not read (finding 2) |
| `rpc_frames` | pass | `TypeOK`, `Untorn`, `NothingLost`, `TruncationReported`, `ReaderEnds` |
| `controller` | pass | `TypeOK`, `OneServed`, `NoGhostWork`, `ExitReported` |
| `controller_duplicate` | violation | a launch during a stop starts a second process, `OneProcess` (finding 3) |
| `session` | pass | `TypeOK`, `PairingSingleUse`, `PairedMeansStored`, `RevokedStaysOut`, `GrantedOnly`, `HeartbeatSpares`, `Reconnects` |
| `leases` | pass | `TypeOK`, `TimerMatchesLease`, `CheckedIsHolder`, `ImplementsExclusiveLease`, `AbandonedLeaseEnds`, `OwnDialogDismissed` |

Bounds, and why they suffice to reach the cases in question:

- `actor`: one subscriber, two runs, two incarnations, counters to 4, window 2,
  channel 1. The window overflows two updates before the counters end, so that a
  cursor can be behind the window, inside it, ahead, and at the last sequence;
  `StartIsExact` quantifies over every cursor there is. Subscribers do not
  influence each other, and `StreamComplete` is proved for any number of them.
- `replication`: lanes, channel and socket of capacity 1 and a window of 1, so that
  every buffer overflows; counters to 2, a lost connection, a restart or relaunch.
- `replication_quiet`: one incarnation, two user commands, one lost connection, counters
  to 2; lanes of 2, so that updates and starts are dropped, and subscriptions overlap.
  `QuietMeansCurrent` and `Converges` exclude by `lapses` a connection on which a start
  was dropped or the user unsubscribed (section 5). `QuietMeansCurrent` is proved
  for all bounds.
- `operations`: any three of a prompt, a conflicting request and one the device may
  not make, which share an operation id, and a read-only request; one lost connection and one
  crash, hence up to three connections, all of which may be alive at once.
- `runtime`: any three of two commands, a message and a shutdown, channel and pipes of
  capacity 1, two frames from the child: enough for answers out of order, a late or
  doubled answer, garbage after an answer, and a channel that is full when a caller
  times out. The capacity of 64 in the code only makes the full channel rarer.
- `rpc_frames`: four messages, one fault, a pipe of two lines: the ready frame, an event
  or a chunked message before the answer, the answer, and one more; limits so small
  (frames of 4 bytes, 6 reassembled) that each check is met from both sides.
- `controller`: two connections that may each ask for every operation, as `ompd pair`
  grants, two processes, three inputs (requests, frames of a process, ends of the daemon), a
  channel of one event. Three inputs are a launch, a second request that interleaves with it
  or with the end of the process, and a third or a restart: a stop and a launch of two
  connections meet at every await of either.
- `controller_duplicate`: the same with the two operations that the finding needs.
- `session`: two clients, two links, two connections at a time, two inputs (cuts, expiry,
  failing keyring, requests, restarts, quitting); pairing, reconnecting and the heartbeat are
  free, and a request may last through any number of heartbeats.
- `leases`: two clients, two questions, two clicks, a time to live of one tick, one of
  lost connection, replay, failure, clock step and quit. Since there is one, it is no matter
  which client it happens to, and `Mobile` says it is the first. That is enough for an answer
  that waits on a lost connection while the release of the other click runs on the next, for
  a new question in the middle of an answer, and for a lease that expires under either. A
  third client would be another one refused.

`Sub` values, and run ids, are symmetric in the runs that say SYMMETRY: no
definition chooses among them. The liveness runs use no symmetry.

Deadlock is not an error in these runs: the counters and the bounds on failures
are finite, and the system may rightly be idle when nobody asks for anything.

### Fairness

`Replication!Fairness` is weak fairness of the connection's handler, of each
forwarding task, of the writer, of the client's loop and of reconnection: tokio
runs tasks that are ready, and `ClientRunner::run` reconnects until stopped.
`Operations!Fairness` is the same for `Connect`, the client's reading and each
connection's task. Nothing is assumed of the agent, the user, the network or
crashes. `EveryRequestAnswered` also rests on the OMP process answering what it
is asked (executing is a step of the fair task) and on every response fitting a
frame. `Runtime!FairSpec` has weak fairness of the callers (their timers included), of
the actor, and of the child reading its input; `HangSpec`, used by `runtime_hang`, is
the same without the last, which is the point of that run. `RpcFrames!FairSpec` has weak
fairness of the reader and of the startup timeout, `Controller!FairSpec` of each event
bridge only: it is a task that waits for nothing but its events, the actor and the
store. `Session!FairSpec` has weak fairness of each runner (its sleep before a
reconnection included) and of each connection's task, and of the heartbeat on a cut
connection; nobody need notice a cut otherwise. `Leases!FairSpec` has weak fairness of
time and of the actor's timer; nothing is assumed of clients and users.

## 4. Proofs

Every type invariant, every safety invariant and the refinement of section 3 are proved
for all values of the constants, that is, for any numbers of clients, requests, subscribers and
connections, any capacities, and any number of failures. The assumptions on the constants
are named and TLC evaluates them in the runs; no theorem has a hypothesis besides them.
Each module proves one inductive invariant, a conjunction of named parts, with one lemma per
action or group of actions; the theorems about the properties follow from it.

### AgentActorProofs

`ActorSpec => []ActorTypeOK`, `[]ReplayWindow`, `[]StreamComplete`, `[]StartIsExact` and
`[]RunsWellFormed`, from `CapacityAssumption` (positive capacities), `BodyAssumption`
(a change of a body is a body) and, for the last, `ProgramAssumption`.

The inductive invariant `ActorInv` adds two facts. `HistoryOK`: the history has one
snapshot per event sequence and ends at the present, without which "authentic"
says nothing. `Attachment`: the actor holds a sender only while it runs, the
receiver is open and the flag is not set; without it, an update could be
delivered to a flagged subscription and continue a stream that has a hole. The
argument is in two lemmas. `RecordKeepsInv`: any update that is the successor of
the snapshot keeps window and streams, because `PushReplay` keeps the newest and
`Deliver` either appends or flags and detaches. `AuthenticStable`: extending the
history does not change what earlier updates did. A change and an event are then
both successors; each remaining action touches one subscription or starts a new
incarnation with nothing attached.

`StartIsExact` is an equivalence, and needs `RevisionsGrow` besides: no snapshot of this
incarnation had a later revision than the present one. `UpdatesAfterIs` says which part of
the window is taken for a cursor. `ChainForward`: from a cursor the incarnation has been
at, the loop of `replay_reaches_snapshot` computes the revisions of the history, so it
accepts. `ChainBackward`: a loop that ends at the present revision began at one the history
has at that sequence, so what it accepts is genuine. Both are inductions over the updates.
`FilterCorrect` shows that what is taken is what the filter in the code takes: the same
updates, in ascending order.

`RunsWellFormed` rests on `RetainOK` (what `retain` keeps is from the list, without the
given id, each once), an induction over the list, and on one lemma for each change of runs.

The library's induction theorems take a predicate as a parameter, which the installed
provers cannot instantiate. `SetInduction` is induction over a set of naturals instead; it
is derived from the theorem that every non-empty set has a minimum in a well-founded
relation. `KeptExists` uses it to show that the recursive function in `Kept` exists.

### ReplicationProofs

`Spec => []TypeOK`, `[]ReplicaFaithful` and `[]QuietMeansCurrent`, from the actor's
assumptions and `ConnectionAssumption`. `ReplicationInv` is `ActorInv` with `LanesOK`, `ServerOK`,
`ClientOK`, `BoundsOK` and `Faithful`: while the agent has not been relaunched, every
snapshot and update in a lane, on the wire, in the handler or held by a forwarding task is
one the running actor really published, and so is the replica. Without the parts about what
is under way, nothing is known of a frame when the client applies it. The actor's own steps
reuse the lemmas of `AgentActorProofs`; `RecordKeepsCurrent` says that what was published
stays published. That an update is applied only to its predecessor is the test of the
reducer, so frames of overlapping subscriptions do no harm in any order.

`QuietMeansCurrent` needs to know what is under way, not only that it is genuine.
`QuietInv` adds three parts to `ReplicationInv`. `RequestInv`: on a connection without
lapses the client asks once to go on from its replica, before anything else, and then only
for fresh snapshots. `TaskInv`: which of the handler, the current subscription and the
replaced ones has a task, and that a task about to emit holds the last update its
subscription gave out. `FollowInv`: while the client is served, it is `Recovering` (a
subscribe or a gap is under way, or its subscription is flagged) or `Following`: the live
subscription has more in its channel or in its task's hands, or what was sent
`Arrives` at the present. `Arrives` is about order: in the order wire, state lane, frames
of the handler, some frame brings the client to the present (or makes it ask again), and
none behind it takes it back (`Clean`, `Ends`). The lemmas `FrameAdded`, `FrameTaken` and
`FrameMoves` say how a queue operation acts on this; `ClientTakes` that the reducer either
follows or asks. When nothing is under way, `Recovering` is impossible and `Arrives` says that
the replica is at the present sequence; `ReplicaFaithful` makes it the snapshot.

An earlier form of the property did not exclude a client that had unsubscribed, and passed
TLC with counters to 2. Its `FollowInv` was not inductive, and one update more
(counters to 3) gave a counterexample, which section 5 describes ("An old snapshot").

### OperationsProofs

`Spec => []AtMostOnce`, `[]DurableOutcome` and `[]TypeOK` for all sets of requests and
operations, any number of lost connections and crashes, from `RequestAssumption` (at most
one operation id per request) and `OutcomeAssumption` (an outcome is not one of the daemon's
own errors).

`OperationInv` adds `Claimed`: a task that works on an operation is the only one,
its row is pending with the payload of its request, and the effect has happened
exactly if the task is past execution. This is what the claim in the store is
for; it holds across a lost connection because the old task keeps its claim, and
across a crash because the row becomes indeterminate and no task is left.
`Rows` says what a row tells of the past, `TaskShape` and `DaemonTypeOK` the rest.
`DurableOutcome` is kept because a completed row is never written again, and
`ClaimAnswer` gives a stored outcome only to a request with the same payload.
`ClientInv` is the client's side, kept on top of it for `TypeOK`: a request is pending
once, so that the removal of an answered one leaves only others indexed (`PendingInv`), and
connections are opened one after the other (`ConnectionInv`).

### RuntimeProofs

`Spec => []TypeOK`, `[]EveryFrameRouted`, `[]AcceptedResponsesDrained` and
`[]NoAbandonedCommand`, for any callers, capacities and behaviour of the child.
`RuntimeInv` says where the oneshot sender of each call is. `PlacesOK`: in the channel, with
the actor or in the pending table, never in two of these. `ChannelOK`: of two messages of
one caller the first is its call and the second its Cancel, which is why a Cancel
finds its command. `WaitOK`: a sender that is held has a caller that waits or a Cancel on
its way, and a caller that waits has its sender held while the actor runs. `ReadOK`: what
was written to the child is out of the actor's hands, and the child answers only what it has
read. `FramesOK`, `RepliesOK` and `StoppedOK` are the history: which frame went where, and
that a command is told the runtime stopped only when no frame answers it.

### RpcFramesProofs

`Spec => []TypeOK`, `[]Untorn`, `[]TruncationReported` and `[]NothingLost`, for any limits,
shapes and faults, from `LimitsAssumption` and `ShapesAssumption`. In `ReaderInv`, `GoodDecoder` says that the
pending sequence is the beginning of one chunked message, part by part and within its
limits, and `AccountInv` that each line written is in the pipe, in that sequence, or of a
message of which every announced line was written. The two meet in `Accepted`: a line that
passes every check of `push_json_line` continues the message the sequence is of, or is
a message by itself while there is none.

`NothingLost` is about order. `OrderInv` states, for each phase of the startup and of the
reading task, that `written` is the concatenation of what was handed on, the pending
sequence and the pipe. `FlattenSeq` is a recursive function; its laws are proved with
`SetInduction` over the lengths. The answer to the negotiation is the one frame that is read and
not handed on; `UnaskedInv` (nothing answers before it was asked) places it between
the initial frames and the later ones.

### ControllerProofs

`Spec => []TypeOK`, `[]NoGhostWork` and `[]OneServed`, for any connections, scopes and
numbers of processes, requests and restarts. `CoreInv` has the places each operation can be
at, that a launch holds the mutex from its check on and nobody else does, that the map is
empty meanwhile, and that processes are numbered in the order they were born.
`GhostInv` says what a daemon that has spawned nothing can show: no runtime, no task past its
beginning, no agent or row that is busy. `ServedInv` says who has each running process that
was not let go: the map, or the launch that spawned it and still holds the mutex. Since the
map is empty during a launch and has one runtime for the id, two such processes cannot be.
`OneProcess`, which counts the processes that a stop still waits for as well, is not an
invariant of the code (section 5).

### SessionProofs

`Spec => []PairingSingleUse`, `[]RevokedStaysOut`, `[]GrantedOnly`, `[]PairedMeansStored`,
`[]HeartbeatSpares` and `[]TypeOK`, for any clients, links, scopes and requests, any number
of connections, cuts, expiries and restarts, from `DevicesAssumption` and
`SessionAssumption`.

`SessionInv` is in three parts. `StoreInv`: the link of every device row is consumed and
the row has its scopes; without it nothing keeps a link from making a second device.
`ConnInv`: every connection is a `GoodConn`, that is, authenticated as a row of the
table, as none that was revoked when it was made, and executing only what that row
allows; it also types the messages in flight, since the link in a hello decides which
row is written. `ClientInv`: a runner is on one connection at most. `Later` is the
other half of the argument: whatever the store does, rows are not lost, revocations not
undone and scopes not changed, so a good connection stays good while other connections
pair and revoke (`LaterGood`).

`LinkInv`, kept on top of it, relates the two ends. `Live`: a connection has a device from
its acceptance on and its welcome names that device. `Keeps`: a credential in use is the one
in the keyring. `On`: a runner asks for, gets and keeps the device whose credential it has;
without it a reconnection could hand a client another device than the one it stored.
`Reached`: when the last interval allowed without a message has begun, a ping or its answer
is under way, or in the daemon's queue behind a request; so a heartbeat that gives up on a
client that can be reached does so while, or just after, its task executed a request.
`TypeOK` needs that there are no more devices than links: the map from a device
to its link is an injection.

### LeasesProofs

`Spec => []TimerMatchesLease`, `[]CheckedIsHolder`, `[]TypeOK`, `OwnDialogDismissed` and the
refinement `Spec => ImplementsExclusiveLease`, for any set of clients, any time to live
and any number of questions, answers, lost connections and failures, from
`LeasesAssumption` (the time to live is positive). `LeaseInv` is `TimerMatchesLease` with
`LeaseShape`: there is one lease and one timer at most; without it a tick could bring two
timers out of order.

For `CheckedIsHolder` the argument is per action: an acquisition by another client is
refused while the lease is held, and so is its release; what the holder itself gives back on
another connection, and whatever ends the lease in time, is noted in `lapsed`. For the
refinement, `NoNewHolder` shows that a step that makes no holder maps to a loss, a renewal or
a stutter, the wall clock set back over an expired lease included, and `ClaimRefines` that a
claim finds nobody or its own client.

`LeasesInv` adds `TimesInv`, `ClientsInv` and `LinesInv` for `TypeOK`. `LinesInv` relates a
client's requests to its connections: the keys on a line and in the responses are of requests
it made (`WireInv`, `ResponsesInv`), a `checked` line has a pending answer first that no
other line executes (`ChecksInv`), and an answer with a good outcome was forwarded
(`RequestsInv`). `DialogInv`, on top of it, is for `OwnDialogDismissed`. `TasksInv`: each answer
and each release names the task that asked for it. `DialogsInv`: a task that has not ended
answers the question that is shown, and one that releases has had its answer forwarded. So
what a task closes is the dialog of a question that its client has answered; the key of the
dialog, which ends the tasks of an earlier question, is what keeps `DialogsInv`.

### Only model-checked

Liveness, since the prover has no fairness: `Converges`, `EveryRequestAnswered`,
`EveryCallReturns`, `ReaderEnds`, `ExitReported`, `Reconnects`, `AbandonedLeaseEnds`.

## 5. Findings

1. **Cursors of an earlier actor** (`replication_alias`). A restored or relaunched
   actor counts from zero again: the daemon never writes the sessions table from
   which it would seed the counters. A client that reconnects with a cursor of the
   old actor may be given an empty replay and keep the old contents. PLAN.md
   promises resynchronisation rather than silent divergence.
2. **Shutdown without an end** (`runtime_hang`). The runtime actor awaits its write to the
   child's stdin inside its loop. If the child no longer reads, no message is taken, the
   grace period never starts, and `shutdown` does not return, although architecture.md
   and notes.md promise the timeout and the kill.
3. **A duplicate process** (`controller_duplicate`). `stop` takes the runtime out of the map,
   gives up the lock and waits for the process to end; a launch of another connection in
   between finds no runtime and starts a second process, although docs/user.md:52 says that
   launching an id whose process is already running is rejected. The stop then removes the
   agent from the registry (controller.rs:414), which by now is the one the launch uses: the
   new process is left in the map without an agent, can be steered and aborted, but neither
   listed nor prompted (`ExitReported` excludes it).

Behaviour of the models that disagrees with a document or may surprise, without a run
of its own. Each can be seen by changing the constant or stating the formula named.

- A subscription start that finds the state lane full is dropped without a gap
  (`QuietMeansCurrent` with `lapses \subseteq {"start_dropped"}` fails in
  `MCReplicationQuiet.cfg`); notes.md:35 promises one.
- An old snapshot may replace a newer replica for good, since `apply_snapshot` takes any
  (`QuietMeansCurrent` with `lapses \subseteq {"unsubscribed"}` instead, counters to 3,
  lanes of 6, no lost connection; 43 steps). Two gaps make the client subscribe twice; the
  start of the second subscription may be behind an update that the aborted task of the
  first still sends. A client that applies that update, unsubscribes and subscribes again
  resumes from it and is given nothing, and then receives the old start. It shows
  the older state, without a mark, until the agent changes again. PLAN.md:610 promises
  resynchronisation rather than silent divergence.
- A `recv` that has passed its test hands out a buffered update after an overflow;
  notes.md:16 rules it out. No state is lost by it (`StreamComplete`).
- Read-only requests are sent again after a lost connection; notes.md:40 says they fail.
- A retry that meets the first attempt still executing is answered
  `operation_in_progress`, and the client takes that as final; architecture.md:148 says
  a retry returns the stored outcome.
- Processes that outlive a killed daemon are not looked for when the next one starts
  (`orphaned`), and a relaunch gives the agent a second process; architecture.md:52 speaks of
  killing the child when its runtime is dropped.
- A request to the process may take 60 s, the connection's task reads nothing meanwhile, and
  the heartbeat ends the connection of a client that is there after two intervals of 15 s.
  `HeartbeatSpares` allows that case and no other; without it (`conn[s].why = "none"` in its
  place) it fails.
- A client that has clicked twice and loses its connection may release its lease on the next
  while its other answer is still waiting for the runtime on the old one. Another client may
  then acquire the lease before that answer is forwarded (`CheckedIsHolder` without `lapsed`
  fails).
- An error answer of the process to a prompt leaves its run active; so does the exit of
  the process. A prompt to a runtime that has ended leaves the agent idle. A stop whose
  shutdown fails leaves it stopping. An agent persisted as idle is idle after a restart.
- An `agent_end` that is handled while a new prompt becomes active may end the new run.
- A client whose pairing is refused, or whose welcome was lost, tries the consumed link
  for ever: a rejected hello is a plain close. The profile is saved before the pairing
  has succeeded (docs/user.md:34 says after).
- A revoked device keeps the connection it has (as docs/user.md:88 says).
- A client does not notice a half-open connection: only the daemon has a heartbeat.
- After the lease is released another client that reads the same question later can
  acquire it and answer again; a double click sends two answers; a client that was
  refused does not try again when the lease ends.

## 6. Not modelled, and what is left

Not modelled: the wire types of `omp-rpc` but for ready and chunk frames, and the codec
(pure data); socket adapters and TLS (libraries behind a trait); the checks of the
configuration; the prompt status of the runtime, which nothing reads, and the copy of
the child's stderr; schema migration (a fixed script); transcripts, forms and layout of
the application; sizes of control frames: a response or snapshot above the frame limit
ends the writer, and after reconnecting is produced again.

Left for proofs: nothing that the prover can state. The liveness properties stay with TLC.

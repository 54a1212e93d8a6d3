---------------------------- MODULE Replication ----------------------------
(***************************************************************************)
(* One agent replicated to one client: the agent's actor (AgentActor), the *)
(* daemon's side of the connection (crates/ompd/src/server.rs), the        *)
(* client's connection loop (crates/omp-control-client/src/client.rs) and  *)
(* its reducer (reducer.rs).                                               *)
(*                                                                         *)
(* Frames on a connection.  To the daemon: subscribe (with an optional     *)
(* cursor) and unsubscribe.  To the client: snapshot, update (a Delta,     *)
(* Event or InteractionRequest frame; the reducer treats the last two      *)
(* alike), gap (ReplayGap; the client reads only its agent id) and error   *)
(* (the client only reports it).  A cursor, the replica and the current    *)
(* subscription task are Options: sets with at most one element.           *)
(*                                                                         *)
(* The device has the observe scope; without it every Subscribe is         *)
(* answered with the error frame.                                          *)
(***************************************************************************)
EXTENDS AgentActor

CONSTANTS
    RestoreBody,      \* the contents an agent may be restored with
    OutboundCapacity, \* ServerSessionConfig::outbound_capacity, of each lane
    WireCapacity,     \* frames the writer can send before the client reads one
    MaxDisconnects,   \* bound: how often the connection is lost
    MaxCommands       \* bound: how often the user subscribes or unsubscribes

ASSUME ConnectionAssumption ==
    /\ RestoreBody \subseteq Body
    /\ OutboundCapacity \in Nat \ {0}
    /\ WireCapacity \in Nat \ {0}
    /\ MaxDisconnects \in Nat
    /\ MaxCommands \in Nat

VARIABLES
    \* The connection.
    connected,    \* a socket is open and authenticated
    inbound,      \* frames from the client not yet handled by the daemon
    control,      \* OutboundQueues::control
    state,        \* OutboundQueues::state
    wire,         \* frames written to the socket and not yet read by the client
    \* The daemon's tasks for it.
    handler,      \* where run_connection is in handling a Subscribe
    current,      \* the task in `subscriptions` for this agent
    forwarder,    \* the forwarding task of each subscription
    \* The client.
    desired,      \* the agent is in desired_subscriptions
    replica,      \* ReplicatedState::agents
    resync,       \* the agent is in ReplicatedState::resync_required
    \* Counters.
    disconnects, commands, relaunches,
    \* History, which no action reads: what has happened on this connection
    \* after which the client may be left behind without being told.
    lapses        \* "start_dropped" and "unsubscribed"

serverVars == <<handler, current, forwarder>>
laneVars == <<inbound, control, state, wire>>
clientVars == <<desired, replica, resync>>
boundVars == <<disconnects, commands, relaunches, lapses>>
vars == <<actorVars, connected, laneVars, serverVars, clientVars, boundVars>>

Only(set) == CHOOSE x \in set : TRUE

SnapshotFrame(s) == [kind |-> "snapshot", snapshot |-> s]
UpdateFrame(u) == [kind |-> "update", update |-> u]
GapFrame == [kind |-> "gap"]
ErrorFrame == [kind |-> "error"]
Subscribe(cursor) == [kind |-> "subscribe", cursor |-> cursor]
Unsubscribe == [kind |-> "unsubscribe"]

StateFrame == [kind : {"snapshot"}, snapshot : Snapshot] \cup [kind : {"update"}, update : Update]
ControlFrame == {GapFrame, ErrorFrame}

\* A handler is idle, or holds a new subscription whose start it must deliver:
\* first aborting the previous task, then (for a resynchronisation) sending
\* the gap, then the frames of the start.
Idle == [at |-> "idle", sub |-> {}, gap |-> FALSE, frames |-> << >>]

\* off, about to receive (recv), holding an update to emit, or sending a gap.
NoForwarder == [at |-> "off", aborted |-> FALSE, held |-> {}]

---------------------------------------------------------------------------
\* The daemon: outbound lanes (Outbound, run_writer).

ControlRoom == Len(control) < OutboundCapacity

\* Mutant of StateRoom: the lane is an unbounded channel.
StateRoomUnbounded == TRUE

StateRoom == Len(state) < OutboundCapacity

\* run_writer: one frame, the control lane before the state lane.
Write ==
    /\ connected
    /\ Len(wire) < WireCapacity
    /\ IF control # << >>
       THEN /\ wire' = Append(wire, Head(control))
            /\ control' = Tail(control)
            /\ UNCHANGED state
       ELSE /\ state # << >>
            /\ wire' = Append(wire, Head(state))
            /\ state' = Tail(state)
            /\ UNCHANGED control
    /\ UNCHANGED <<actorVars, connected, inbound, serverVars, clientVars, boundVars>>

---------------------------------------------------------------------------
\* The daemon: forwarding tasks.

\* JoinHandle::abort on the tasks in `tasks`.  A task that is waiting is
\* dropped, with its receiver.  One that is running between recv and emit goes
\* on to its next wait.
AbortForwarders(tasks) ==
    [s \in Sub |-> IF s \notin tasks THEN forwarder[s]
                   ELSE IF forwarder[s].at = "emit"
                        THEN [forwarder[s] EXCEPT !.aborted = TRUE]
                        ELSE NoForwarder]

AbortSubscriptions(tasks) ==
    [s \in Sub |-> IF s \in tasks /\ forwarder[s].at # "emit"
                   THEN NoSubscription ELSE subscribers[s]]

Abort(tasks) ==
    /\ forwarder' = AbortForwarders(tasks)
    /\ subscribers' = AbortSubscriptions(tasks)
    /\ UNCHANGED <<running, snapshot, replay, hist>>

\* subscription.recv().await, in its two steps.
ForwarderCheck(s) ==
    /\ forwarder[s].at = "recv"
    /\ RecvCheck(s)
    /\ UNCHANGED <<connected, laneVars, serverVars, clientVars, boundVars>>

ForwarderReceive(s) ==
    /\ forwarder[s].at = "recv"
    /\ RecvUpdate(s)
    /\ forwarder' = [forwarder EXCEPT ![s].at = "emit",
                                      ![s].held = {Head(subscribers[s].queue)}]
    /\ UNCHANGED <<connected, laneVars, handler, current, clientVars, boundVars>>

\* emit_update: try_send on the state lane.  Without room the task goes on to
\* report a gap.
ForwarderEmit(s) ==
    /\ forwarder[s].at = "emit"
    /\ IF StateRoom
       THEN /\ state' = Append(state, UpdateFrame(Only(forwarder[s].held)))
            /\ forwarder' = [forwarder EXCEPT ![s].at = "recv", ![s].held = {}]
       ELSE /\ forwarder' = [forwarder EXCEPT ![s].at = "gap", ![s].held = {}]
            /\ UNCHANGED state
    /\ UNCHANGED <<actorVars, connected, inbound, control, wire, handler, current,
                   clientVars, boundVars>>

\* recv() failed with ResyncRequired.
ForwarderResync(s) ==
    /\ forwarder[s].at = "recv"
    /\ RecvResyncRequired(s)
    /\ forwarder' = [forwarder EXCEPT ![s].at = "gap"]
    /\ UNCHANGED <<actorVars, connected, laneVars, handler, current, clientVars, boundVars>>

\* The task ends and drops its subscription.  The handle that `subscriptions`
\* keeps of a finished task has no effect any more.
EndForwarder(s) ==
    /\ forwarder' = [forwarder EXCEPT ![s] = NoForwarder]
    /\ current' = current \ {s}
    /\ DropSubscription(s)

\* send_slow_consumer_gap.  If the actor has stopped, snapshot() fails and no
\* gap is sent.
ForwarderGap(s) ==
    /\ forwarder[s].at = "gap"
    /\ ~forwarder[s].aborted
    /\ IF running /\ subscribers[s].incarnation = snapshot.incarnation
       THEN ControlRoom /\ control' = Append(control, GapFrame)
       ELSE UNCHANGED control
    /\ EndForwarder(s)
    /\ UNCHANGED <<connected, inbound, state, wire, handler, clientVars, boundVars>>

\* recv() failed with Closed: the task ends without a frame.
ForwarderClosed(s) ==
    /\ forwarder[s].at = "recv"
    /\ RecvClosed(s)
    /\ EndForwarder(s)
    /\ UNCHANGED <<connected, laneVars, handler, clientVars, boundVars>>

\* An aborted task reaches its next wait.
ForwarderAborted(s) ==
    /\ forwarder[s].aborted
    /\ forwarder[s].at \in {"recv", "gap"}
    /\ EndForwarder(s)
    /\ UNCHANGED <<connected, laneVars, handler, clientVars, boundVars>>

---------------------------------------------------------------------------
\* The daemon: handling the client's frames (handle_client_frame, subscribe).

\* agent.subscribe(cursor): the actor answers with a start.
HandleSubscribe(s) ==
    LET start == StartFor(Head(inbound).cursor)
    IN /\ connected
       /\ handler = Idle
       /\ inbound # << >>
       /\ Head(inbound).kind = "subscribe"
       /\ subscribe(s)
       /\ handler' = [at     |-> "abort",
                      sub    |-> {s},
                      gap    |-> start.kind = "resync_required",
                      frames |-> IF start.kind = "replay"
                                 THEN [i \in DOMAIN start.updates |-> UpdateFrame(start.updates[i])]
                                 ELSE <<SnapshotFrame(start.snapshot)>>]
       /\ inbound' = Tail(inbound)
       /\ UNCHANGED <<connected, control, state, wire, current, forwarder, clientVars, boundVars>>

\* registry().get(...) finds no agent, or its actor has stopped: an error frame.
HandleSubscribeFails ==
    /\ connected
    /\ handler = Idle
    /\ inbound # << >>
    /\ Head(inbound).kind = "subscribe"
    /\ ~running
    /\ ControlRoom
    /\ control' = Append(control, ErrorFrame)
    /\ inbound' = Tail(inbound)
    /\ UNCHANGED <<actorVars, connected, state, wire, serverVars, clientVars, boundVars>>

\* subscriptions.remove(...).abort()
HandleAbortPrevious ==
    /\ handler.at = "abort"
    /\ Abort(current)
    /\ current' = {}
    /\ handler' = [handler EXCEPT !.at = IF handler.gap THEN "gap" ELSE "emit"]
    /\ UNCHANGED <<connected, laneVars, clientVars, boundVars>>

\* emit_subscription_start.  The gap waits for room in the control lane.
HandleEmitGap ==
    /\ handler.at = "gap"
    /\ ControlRoom
    /\ control' = Append(control, GapFrame)
    /\ handler' = [handler EXCEPT !.at = "emit"]
    /\ UNCHANGED <<actorVars, connected, inbound, state, wire, current, forwarder,
                   clientVars, boundVars>>

\* The frames do not wait: the first one that finds the lane full, and those
\* after it, are dropped.
HandleEmit ==
    /\ handler.at = "emit"
    /\ handler.frames # << >>
    /\ IF StateRoom
       THEN /\ state' = Append(state, Head(handler.frames))
            /\ handler' = [handler EXCEPT !.frames = Tail(@)]
            /\ UNCHANGED lapses
       ELSE /\ handler' = [handler EXCEPT !.frames = << >>]
            /\ lapses' = lapses \cup {"start_dropped"}
            /\ UNCHANGED state
    /\ UNCHANGED <<actorVars, connected, inbound, control, wire, current, forwarder,
                   clientVars, disconnects, commands, relaunches>>

\* Spawning the forwarding task.
HandleSpawnForwarder ==
    /\ handler.at = "emit"
    /\ handler.frames = << >>
    /\ forwarder' = [s \in Sub |-> IF s \in handler.sub
                                   THEN [NoForwarder EXCEPT !.at = "recv"]
                                   ELSE forwarder[s]]
    /\ current' = handler.sub
    /\ handler' = Idle
    /\ UNCHANGED <<actorVars, connected, laneVars, clientVars, boundVars>>

HandleUnsubscribe ==
    /\ connected
    /\ handler = Idle
    /\ inbound # << >>
    /\ Head(inbound).kind = "unsubscribe"
    /\ Abort(current)
    /\ current' = {}
    /\ inbound' = Tail(inbound)
    /\ UNCHANGED <<connected, control, state, wire, handler, clientVars, boundVars>>

---------------------------------------------------------------------------
\* The client: reducer and connection loop.

\* ReplicatedState::cursor
ReplicaCursor == IF resync THEN {} ELSE {CursorOf(s) : s \in replica}

\* Mutant of Applicable: the sequence check is apply_delta's own, which only rejects an
\* update that is not newer.
ApplicableNewer(s, u) ==
    /\ u.event_sequence > s.event_sequence
    /\ u.kind = "delta" => /\ u.base_revision = s.revision
                           /\ u.revision = u.base_revision + 1

\* require_next_sequence and AgentSnapshot::apply_delta's checks.
Applicable(s, u) ==
    /\ s.event_sequence < U64Max
    /\ u.event_sequence = s.event_sequence + 1
    /\ u.kind = "delta" => /\ u.base_revision = s.revision
                           /\ u.revision = u.base_revision + 1

\* The reducer accepts an update only on a snapshot that is not marked.
Accepts(u) == ~resync /\ \E s \in replica : Applicable(s, u)

\* handle_server_frame, for each kind of frame.
ClientSnapshot(f) ==
    /\ f.kind = "snapshot"
    /\ replica' = {f.snapshot}
    /\ resync' = FALSE
    /\ UNCHANGED inbound

ClientUpdate(f) ==
    /\ f.kind = "update"
    /\ Accepts(f.update)
    /\ replica' = {ApplyUpdate(s, f.update) : s \in replica}
    /\ UNCHANGED <<resync, inbound>>

\* Mutant of ClientResync: a gap only marks the agent; the next rejected update
\* is left to ask for the snapshot.
ClientResyncOnce(f) ==
    /\ \/ f.kind = "update" /\ ~Accepts(f.update)
       \/ f.kind = "gap"
    /\ resync' = TRUE
    /\ inbound' = IF f.kind = "gap" THEN inbound ELSE Append(inbound, Subscribe({}))
    /\ UNCHANGED replica

\* Any error, and every gap, marks the agent and asks for a fresh snapshot.
ClientResync(f) ==
    /\ \/ f.kind = "update" /\ ~Accepts(f.update)
       \/ f.kind = "gap"
    /\ resync' = TRUE
    /\ inbound' = Append(inbound, Subscribe({}))
    /\ UNCHANGED replica

ClientError(f) ==
    /\ f.kind = "error"
    /\ UNCHANGED <<replica, resync, inbound>>

ClientReceive ==
    /\ connected
    /\ wire # << >>
    /\ wire' = Tail(wire)
    /\ \/ ClientSnapshot(Head(wire))
       \/ ClientUpdate(Head(wire))
       \/ ClientResync(Head(wire))
       \/ ClientError(Head(wire))
    /\ UNCHANGED <<actorVars, connected, control, state, serverVars, desired, boundVars>>

\* ClientCommand::Subscribe and Unsubscribe, connected or offline.
ClientSubscribe ==
    /\ commands < MaxCommands
    /\ ~desired
    /\ desired' = TRUE
    /\ inbound' = IF connected THEN Append(inbound, Subscribe(ReplicaCursor)) ELSE inbound
    /\ commands' = commands + 1
    /\ UNCHANGED <<actorVars, connected, control, state, wire, serverVars, replica, resync,
                   disconnects, relaunches, lapses>>

ClientUnsubscribe ==
    /\ commands < MaxCommands
    /\ desired
    /\ desired' = FALSE
    /\ inbound' = IF connected THEN Append(inbound, Unsubscribe) ELSE inbound
    /\ commands' = commands + 1
    /\ lapses' = IF connected THEN lapses \cup {"unsubscribed"} ELSE lapses
    /\ UNCHANGED <<actorVars, connected, control, state, wire, serverVars, replica, resync,
                   disconnects, relaunches>>

\* connect, the handshake and initialize_connection.
Connect ==
    /\ ~connected
    /\ connected' = TRUE
    /\ inbound' = IF desired THEN <<Subscribe(ReplicaCursor)>> ELSE << >>
    /\ UNCHANGED <<actorVars, control, state, wire, serverVars, clientVars, boundVars>>

\* The connection and everything that belongs to it is gone: frames in either
\* direction, the handler, and the tasks run_connection aborts at its end.
Hangup ==
    /\ connected' = FALSE
    /\ inbound' = << >>
    /\ control' = << >>
    /\ state' = << >>
    /\ wire' = << >>
    /\ handler' = Idle
    /\ current' = {}
    /\ forwarder' = [s \in Sub |-> NoForwarder]
    /\ subscribers' = [s \in Sub |-> NoSubscription]
    /\ lapses' = {}

Disconnect ==
    /\ connected
    /\ disconnects < MaxDisconnects
    /\ disconnects' = disconnects + 1
    /\ Hangup
    /\ UNCHANGED <<running, snapshot, replay, hist, clientVars, commands, relaunches>>

---------------------------------------------------------------------------
\* The agent's life: changes, and new actors for the same agent id.

AgentUpdates ==
    /\ (\E c \in Change : apply_change_command(c)) \/ publish_event
    /\ UNCHANGED <<connected, laneVars, serverVars, clientVars, boundVars>>

\* StopAgent, or the first half of SwitchSession: the connection stays.
AgentStops ==
    /\ shutdown
    /\ UNCHANGED <<connected, laneVars, serverVars, clientVars, boundVars>>

AgentLaunches ==
    /\ \E b \in SpawnBody : spawn(b)
    /\ relaunches' = relaunches + 1
    /\ UNCHANGED <<connected, laneVars, serverVars, clientVars, disconnects, commands, lapses>>

\* The daemon ends or crashes and starts again; DaemonController::new restores
\* every agent it has a record of, the stopped ones too.
DaemonRestarts ==
    /\ snapshot.incarnation < MaxIncarnations
    /\ \E b \in RestoreBody : snapshot' = Fresh(snapshot.incarnation + 1, b)
    /\ replay' = << >>
    /\ hist' = <<snapshot'>>
    /\ running' = TRUE
    /\ Hangup
    /\ UNCHANGED <<clientVars, disconnects, commands, relaunches>>

---------------------------------------------------------------------------
Init ==
    /\ ActorInit
    /\ connected = FALSE
    /\ inbound = << >>
    /\ control = << >>
    /\ state = << >>
    /\ wire = << >>
    /\ handler = Idle
    /\ current = {}
    /\ forwarder = [s \in Sub |-> NoForwarder]
    /\ desired = TRUE
    /\ replica = {}
    /\ resync = FALSE
    /\ disconnects = 0
    /\ commands = 0
    /\ relaunches = 0
    /\ lapses = {}

Forward(s) ==
    \/ ForwarderCheck(s)
    \/ ForwarderReceive(s)
    \/ ForwarderEmit(s)
    \/ ForwarderResync(s)
    \/ ForwarderGap(s)
    \/ ForwarderClosed(s)
    \/ ForwarderAborted(s)

Handle ==
    \/ \E s \in Sub : HandleSubscribe(s)
    \/ HandleSubscribeFails
    \/ HandleAbortPrevious
    \/ HandleEmitGap
    \/ HandleEmit
    \/ HandleSpawnForwarder
    \/ HandleUnsubscribe

Next ==
    \/ AgentUpdates \/ AgentStops \/ AgentLaunches \/ DaemonRestarts
    \/ Handle \/ (\E s \in Sub : Forward(s)) \/ Write
    \/ ClientReceive \/ ClientSubscribe \/ ClientUnsubscribe
    \/ Connect \/ Disconnect

Spec == Init /\ [][Next]_vars

\* Tasks and the client's loop keep running, and the client keeps trying to
\* reconnect (ClientRunner::run).  Nothing is assumed of the agent, the user
\* or the network.
Fairness ==
    /\ WF_vars(Handle)
    /\ \A s \in Sub : WF_vars(Forward(s))
    /\ WF_vars(Write)
    /\ WF_vars(ClientReceive)
    /\ WF_vars(Connect)

FairSpec == Spec /\ Fairness

---------------------------------------------------------------------------
\* Properties.

\* The shape of the state; the lanes respect their capacity.
TypeOK ==
    /\ ActorTypeOK
    /\ connected \in BOOLEAN
    /\ inbound \in Seq({Subscribe({})} \cup {Subscribe({c}) : c \in Cursor} \cup {Unsubscribe})
    /\ control \in Seq(ControlFrame) /\ Len(control) <= OutboundCapacity
    /\ state \in Seq(StateFrame) /\ Len(state) <= OutboundCapacity
    /\ wire \in Seq(StateFrame \cup ControlFrame) /\ Len(wire) <= WireCapacity
    /\ handler \in [at : {"idle", "abort", "gap", "emit"}, sub : SUBSET Sub,
                    gap : BOOLEAN, frames : Seq(StateFrame)]
    /\ current \subseteq Sub
    /\ forwarder \in [Sub -> [at : {"off", "recv", "emit", "gap"}, aborted : BOOLEAN,
                              held : SUBSET Update]]
    /\ desired \in BOOLEAN
    /\ replica \subseteq Snapshot
    /\ resync \in BOOLEAN
    /\ disconnects \in Nat
    /\ commands \in Nat
    /\ relaunches \in Nat
    /\ lapses \subseteq {"start_dropped", "unsubscribed"}

\* The client never shows a state the agent was not in: a replica that was
\* built on a snapshot of the running actor is exactly the snapshot that actor
\* had at the replica's event sequence, however frames were dropped, delayed,
\* duplicated by overlapping subscriptions or reordered between the lanes
\* (reducer.rs: apply; server.rs: subscribe, emit_update).  An agent relaunched
\* while the connection stays is excluded: a late update of the old actor can
\* then follow a snapshot of the new one.
ReplicaFaithful ==
    relaunches = 0 =>
        \A s \in replica : s.incarnation = snapshot.incarnation =>
            /\ s.event_sequence < Len(hist)
            /\ s = hist[s.event_sequence + 1]

\* Nothing is under way between the actor and the client.
Quiet ==
    /\ inbound = << >> /\ control = << >> /\ state = << >> /\ wire = << >>
    /\ handler = Idle
    /\ \A s \in Sub :
          \/ forwarder[s].at = "off"
          \/ /\ forwarder[s].at = "recv"
             /\ subscribers[s].queue = << >>
             /\ ~subscribers[s].resync_required

\* When nothing is under way any more, a connected client that wants the agent
\* has its current state: every update that was dropped, rejected, overtaken or
\* sent twice has led to a resynchronisation, and that has arrived (server.rs:
\* subscribe, emit_update, send_slow_consumer_gap; client.rs:
\* handle_server_frame).  Excluded is a connection on which a start was dropped
\* or the user unsubscribed, an agent relaunched on the connection, and a
\* replica of the actor of an earlier daemon.
QuietMeansCurrent ==
    (/\ connected /\ desired /\ running /\ Quiet
     /\ lapses = {}
     /\ relaunches = 0
     /\ \A s \in replica : s.incarnation = snapshot.incarnation)
        => replica = {snapshot} /\ ~resync

\* PLAN.md: "A missed revision causes resynchronization rather than silent
\* divergence."  When nothing is under way, a replica whose cursor is the
\* actor's cursor has the actor's content.
NoSilentDivergence ==
    (connected /\ desired /\ running /\ Quiet /\ ~resync) =>
        \A s \in replica : CursorOf(s) = CursorOf(snapshot) => s.body = snapshot.body

\* After the last change, command and disconnection the replica becomes, and
\* stays, the agent's snapshot: the resynchronisations that gaps and overlapping
\* subscriptions cause end (client.rs: handle_server_frame, run).  Excluded is
\* what QuietMeansCurrent excludes.
Converges ==
    <>[](running /\ desired /\ lapses = {} => connected /\ ~resync /\ replica = {snapshot})
===========================================================================

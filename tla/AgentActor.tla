---------------------------- MODULE AgentActor ----------------------------
(***************************************************************************)
(* The actor task that owns one agent's replicated state                   *)
(* (crates/omp-control-plane/src/actor.rs) and the registry operations     *)
(* that start and stop it (registry.rs).                                   *)
(*                                                                         *)
(* The actor serialises every change, numbers it (revision for a state     *)
(* delta, event sequence for every update), keeps the newest               *)
(* ReplayCapacity updates, and offers each update to every subscriber's    *)
(* bounded channel without ever waiting for one.                           *)
(*                                                                         *)
(* What a snapshot contains, and how a change acts on it, are parameters:  *)
(* AgentState gives the ones of the program.  u64 counters end at U64Max,  *)
(* so a small U64Max both bounds the model and reaches the exhaustion      *)
(* checks of the code.                                                     *)
(*                                                                         *)
(* `hist`, and the fields named incarnation and position, are history:     *)
(* no action reads them, only the properties do.                           *)
(***************************************************************************)
EXTENDS Integers, Sequences

CONSTANTS
    Sub,                \* identities of the subscriptions that can be open at once
    Body,               \* the possible contents of a snapshot
    SpawnBody,          \* the contents an actor may be created with
    Change,             \* the state changes that callers request
    ApplyChange(_, _),  \* the body after a change
    U64Max,             \* the largest u64
    ReplayCapacity,     \* AgentActorConfig::replay_capacity
    SubscriberCapacity, \* AgentActorConfig::subscriber_capacity
    MaxIncarnations     \* bound: how many times the agent's actor is spawned

ASSUME CapacityAssumption ==
    /\ U64Max \in Nat
    /\ ReplayCapacity \in Nat \ {0}
    /\ SubscriberCapacity \in Nat \ {0}
    /\ MaxIncarnations \in Nat \ {0}

\* Changes act within Body: for AgentState's apply_change, a body whose runs
\* are well formed stays so under every change.
ASSUME BodyAssumption ==
    /\ SpawnBody \subseteq Body
    /\ \A b \in Body, c \in Change : ApplyChange(b, c) \in Body

VARIABLES
    running,      \* the actor task is alive and in the registry
    snapshot,     \* ActorState::snapshot
    replay,       \* ActorState::replay, oldest first
    subscribers,  \* both ends of every subscription channel
    hist          \* history: hist[n + 1] is the snapshot at event sequence n

actorVars == <<running, snapshot, replay, subscribers, hist>>

Counter == 0..U64Max

Snapshot == [incarnation : Nat, revision : Counter, event_sequence : Counter, body : Body]

Delta == [kind : {"delta"}, incarnation : Nat, event_sequence : Counter,
          base_revision : Counter, revision : Counter, change : Change]

Event == [kind : {"event"}, incarnation : Nat, event_sequence : Counter]

Update == Delta \cup Event

\* The receiver is `open` until its owner drops it, the actor keeps the sender
\* while `attached`.  `checked`: recv() has passed its first test of the flag
\* and waits for the channel.
Subscription ==
    [open : BOOLEAN, attached : BOOLEAN, checked : BOOLEAN, resync_required : BOOLEAN,
     queue : Seq(Update), incarnation : Nat, position : Counter]

NoSubscription ==
    [open |-> FALSE, attached |-> FALSE, checked |-> FALSE, resync_required |-> FALSE,
     queue |-> << >>, incarnation |-> 0, position |-> 0]

Cursor == [agent_id : {"self", "other"}, revision : Counter, event_sequence : Counter]

CursorOf(s) ==
    [agent_id |-> "self", revision |-> s.revision, event_sequence |-> s.event_sequence]

---------------------------------------------------------------------------
\* Applying an update (state.rs, AgentSnapshot::apply_update).

ApplyUpdate(s, u) ==
    IF u.kind = "delta"
    THEN [s EXCEPT !.body = ApplyChange(@, u.change),
                   !.revision = u.revision,
                   !.event_sequence = u.event_sequence]
    ELSE [s EXCEPT !.event_sequence = u.event_sequence]

---------------------------------------------------------------------------
\* Recording an update: the replay window and the subscribers.

\* Mutant of PushReplay: a full window keeps its oldest updates.
PushReplayDropsNewest(u) ==
    IF Len(replay) = ReplayCapacity THEN replay ELSE Append(replay, u)

\* pop_front when full, then push_back.
PushReplay(u) ==
    Append(IF Len(replay) = ReplayCapacity THEN Tail(replay) ELSE replay, u)

\* Mutant of Deliver: a full channel loses the update and the subscriber is kept unflagged.
DeliverDropsSilently(sub, u) ==
    IF sub.attached /\ Len(sub.queue) < SubscriberCapacity
    THEN [sub EXCEPT !.queue = Append(@, u)]
    ELSE sub

\* subscribers.retain(...): a subscriber without room is flagged and dropped.
Deliver(sub, u) ==
    IF ~sub.attached THEN sub
    ELSE IF Len(sub.queue) < SubscriberCapacity
         THEN [sub EXCEPT !.queue = Append(@, u)]
         ELSE [sub EXCEPT !.resync_required = TRUE, !.attached = FALSE]

\* The receiver of a dropped subscription is gone at once; that the actor
\* notices the closed channel only at its next try_send is invisible.
Record(u) ==
    /\ replay' = PushReplay(u)
    /\ subscribers' = [s \in Sub |-> Deliver(subscribers[s], u)]

\* Mutant of SequenceLeft: the addition is not checked.
SequenceUnchecked == TRUE

\* fn next_event_sequence: checked_add(1).
SequenceLeft == snapshot.event_sequence < U64Max

RevisionLeft == snapshot.revision < U64Max

would_change(c) == ApplyChange(snapshot.body, c) # snapshot.body

\* ActorCommand::Change.  A change without effect, or with a counter
\* exhausted, leaves everything as it is.
apply_change_command(c) ==
    LET delta == [kind           |-> "delta",
                  incarnation    |-> snapshot.incarnation,
                  event_sequence |-> snapshot.event_sequence + 1,
                  base_revision  |-> snapshot.revision,
                  revision       |-> snapshot.revision + 1,
                  change         |-> c]
    IN /\ running
       /\ would_change(c)
       /\ RevisionLeft
       /\ SequenceLeft
       /\ snapshot' = ApplyUpdate(snapshot, delta)
       /\ Record(delta)
       /\ hist' = Append(hist, snapshot')
       /\ UNCHANGED running

\* ActorCommand::PublishEvent.
publish_event ==
    LET event == [kind           |-> "event",
                  incarnation    |-> snapshot.incarnation,
                  event_sequence |-> snapshot.event_sequence + 1]
    IN /\ running
       /\ SequenceLeft
       /\ snapshot' = ApplyUpdate(snapshot, event)
       /\ Record(event)
       /\ hist' = Append(hist, snapshot')
       /\ UNCHANGED running

---------------------------------------------------------------------------
\* Starting a subscription.

\* The retained updates with event_sequence > n.  The window is contiguous
\* (ReplayWindow), so the filter of the code is a suffix; StartIsExact checks
\* that it holds the same updates in the same order.
UpdatesAfter(n) ==
    IF replay = << >> THEN << >>
    ELSE LET oldest == replay[1].event_sequence
         IN SubSeq(replay, IF n < oldest THEN 1 ELSE n - oldest + 2, Len(replay))

\* The variable `revision` of the loop after the first n updates.
RevisionAfter(cursor, updates, n) ==
    LET deltas == {i \in 1..n : updates[i].kind = "delta"}
    IN IF deltas = {} THEN cursor.revision
       ELSE updates[CHOOSE i \in deltas : \A j \in deltas : j <= i].revision

\* Mutant of replay_reaches_snapshot: the updates are contiguous but where they end is not compared.
replay_reaches_unchecked_revision(cursor, updates) ==
    /\ cursor.event_sequence + 1 + Len(updates) <= U64Max
    /\ \A i \in DOMAIN updates :
          updates[i].event_sequence = cursor.event_sequence + i
    /\ cursor.event_sequence + Len(updates) = snapshot.event_sequence

\* fn replay_reaches_snapshot, with its checked additions.
replay_reaches_snapshot(cursor, updates) ==
    /\ cursor.event_sequence + 1 + Len(updates) <= U64Max
    /\ \A i \in DOMAIN updates :
          /\ updates[i].event_sequence = cursor.event_sequence + i
          /\ updates[i].kind = "delta"
                => updates[i].base_revision = RevisionAfter(cursor, updates, i - 1)
    /\ RevisionAfter(cursor, updates, Len(updates)) = snapshot.revision
    /\ cursor.event_sequence + Len(updates) = snapshot.event_sequence

SnapshotStart == [kind |-> "snapshot", snapshot |-> snapshot, updates |-> << >>]
ReplayStart(us) == [kind |-> "replay", snapshot |-> snapshot, updates |-> us]
ResyncStart == [kind |-> "resync_required", snapshot |-> snapshot, updates |-> << >>]

\* fn subscription_start
subscription_start(cursor) ==
    IF \/ cursor.agent_id # "self"
       \/ cursor.revision > snapshot.revision
       \/ cursor.event_sequence > snapshot.event_sequence
    THEN ResyncStart
    ELSE IF cursor = CursorOf(snapshot)
    THEN ReplayStart(<< >>)
    ELSE LET updates == UpdatesAfter(cursor.event_sequence)
         IN IF replay_reaches_snapshot(cursor, updates)
            THEN ReplayStart(updates)
            ELSE ResyncStart

\* The start a subscriber with an optional cursor is given.
StartFor(cursor) ==
    IF cursor = {} THEN SnapshotStart
    ELSE subscription_start(CHOOSE c \in cursor : TRUE)

\* Whichever start it is given, it brings its receiver to the current snapshot,
\* and updates from there on are queued.
NewSubscription ==
    [open |-> TRUE, attached |-> TRUE, checked |-> FALSE, resync_required |-> FALSE,
     queue |-> << >>, incarnation |-> snapshot.incarnation, position |-> snapshot.event_sequence]

\* ActorCommand::Subscribe.
subscribe(s) ==
    /\ running
    /\ ~subscribers[s].open
    /\ subscribers' = [subscribers EXCEPT ![s] = NewSubscription]
    /\ UNCHANGED <<running, snapshot, replay, hist>>

---------------------------------------------------------------------------
\* AgentSubscription::recv, in the two steps between which the actor can run.

RecvCheck(s) ==
    /\ subscribers[s].open
    /\ ~subscribers[s].checked
    /\ ~subscribers[s].resync_required
    /\ subscribers' = [subscribers EXCEPT ![s].checked = TRUE]
    /\ UNCHANGED <<running, snapshot, replay, hist>>

Received(sub) ==
    [sub EXCEPT !.checked = FALSE,
                !.queue = Tail(sub.queue),
                !.position = Head(sub.queue).event_sequence]

RecvUpdate(s) ==
    /\ subscribers[s].checked
    /\ subscribers[s].queue # << >>
    /\ subscribers' = [subscribers EXCEPT ![s] = Received(subscribers[s])]
    /\ UNCHANGED <<running, snapshot, replay, hist>>

\* Err(SubscriptionError::ResyncRequired)
RecvResyncRequired(s) ==
    /\ subscribers[s].open
    /\ subscribers[s].resync_required
    /\ subscribers[s].checked => subscribers[s].queue = << >>

\* Err(SubscriptionError::Closed)
RecvClosed(s) ==
    /\ subscribers[s].checked
    /\ ~subscribers[s].resync_required
    /\ ~subscribers[s].attached
    /\ subscribers[s].queue = << >>

\* Dropping the AgentSubscription: after an error of recv(), or at will.
DropSubscription(s) ==
    /\ subscribers[s].open
    /\ subscribers' = [subscribers EXCEPT ![s] = NoSubscription]
    /\ UNCHANGED <<running, snapshot, replay, hist>>

---------------------------------------------------------------------------
\* AgentRegistry::remove and, later, create or restore.  Nothing the daemon
\* runs stores a cursor with a session, so a new actor starts from zero.

Fresh(n, b) == [incarnation |-> n, revision |-> 0, event_sequence |-> 0, body |-> b]

\* All senders are dropped with the actor's state.
Detached == [s \in Sub |-> [subscribers[s] EXCEPT !.attached = FALSE]]

shutdown ==
    /\ running
    /\ running' = FALSE
    /\ subscribers' = Detached
    /\ UNCHANGED <<snapshot, replay, hist>>

spawn(b) ==
    /\ ~running
    /\ snapshot.incarnation < MaxIncarnations
    /\ running' = TRUE
    /\ snapshot' = Fresh(snapshot.incarnation + 1, b)
    /\ replay' = << >>
    /\ hist' = <<snapshot'>>
    /\ UNCHANGED subscribers

ActorInit ==
    /\ running = TRUE
    /\ \E b \in SpawnBody : snapshot = Fresh(1, b)
    /\ replay = << >>
    /\ subscribers = [s \in Sub |-> NoSubscription]
    /\ hist = <<snapshot>>

ActorNext ==
    \/ \E c \in Change : apply_change_command(c)
    \/ publish_event
    \/ \E s \in Sub : \/ subscribe(s)
                      \/ RecvCheck(s)
                      \/ RecvUpdate(s)
                      \/ DropSubscription(s)
    \/ shutdown
    \/ \E b \in SpawnBody : spawn(b)

ActorSpec == ActorInit /\ [][ActorNext]_actorVars

---------------------------------------------------------------------------
\* Properties.

\* The shape of the actor's state; no counter passes u64::MAX, no buffer its
\* capacity.
ActorTypeOK ==
    /\ running \in BOOLEAN
    /\ snapshot \in Snapshot
    /\ replay \in Seq(Update)
    /\ Len(replay) <= ReplayCapacity
    /\ subscribers \in [Sub -> Subscription]
    /\ \A s \in Sub : Len(subscribers[s].queue) <= SubscriberCapacity
    /\ hist \in Seq(Snapshot)

\* The history holds one snapshot per event sequence and ends at the present.
HistoryOK ==
    /\ Len(hist) = snapshot.event_sequence + 1
    /\ hist[Len(hist)] = snapshot
    /\ \A i \in DOMAIN hist : /\ hist[i].event_sequence = i - 1
                              /\ hist[i].incarnation = snapshot.incarnation

\* An update that leads, in history h, from the snapshot before it to the
\* snapshot after it.
Authentic(u, h) ==
    /\ u.event_sequence \in 1 .. Len(h) - 1
    /\ u.kind = "delta" => u.base_revision = h[u.event_sequence].revision
    /\ h[u.event_sequence + 1] = ApplyUpdate(h[u.event_sequence], u)

\* The replay window (ActorState::record) is the newest updates of this
\* incarnation, contiguous up to the snapshot: what a cursor is answered from
\* has no hole and no update of an earlier actor.
ReplayWindow ==
    /\ Len(replay) = IF snapshot.event_sequence < ReplayCapacity
                     THEN snapshot.event_sequence ELSE ReplayCapacity
    /\ \A i \in DOMAIN replay :
          /\ replay[i].event_sequence = snapshot.event_sequence - Len(replay) + i
          /\ replay[i].incarnation = snapshot.incarnation
          /\ Authentic(replay[i], hist)

\* A subscriber never misses an update unknowingly (ActorState::record and
\* AgentSubscription::recv): what is buffered for it continues, without a hole,
\* what it has received, and unless it is flagged for resynchronisation or its
\* actor is gone, it ends at the current snapshot.
StreamComplete ==
    \A s \in Sub :
       LET sub == subscribers[s]
       IN sub.open =>
            /\ \A i \in DOMAIN sub.queue :
                  /\ sub.queue[i].event_sequence = sub.position + i
                  /\ sub.queue[i].incarnation = sub.incarnation
                  /\ sub.incarnation = snapshot.incarnation => Authentic(sub.queue[i], hist)
            /\ (running /\ sub.incarnation = snapshot.incarnation /\ ~sub.resync_required)
                  => /\ sub.attached
                     /\ sub.position + Len(sub.queue) = snapshot.event_sequence

\* A cursor that this incarnation has really been at.
Genuine(cursor) ==
    /\ cursor.agent_id = "self"
    /\ cursor.event_sequence < Len(hist)
    /\ cursor.revision = hist[cursor.event_sequence + 1].revision

\* subscription_start is exact, for every cursor a client may present: it
\* answers with a replay if and only if the cursor is one this incarnation has
\* been at and the window still holds everything after it, and that replay is
\* then precisely the updates from the cursor to the snapshot.  (At the very
\* last event sequence replay_reaches_snapshot gives up, and only an
\* up-to-date cursor avoids the resynchronisation.)  What is taken of the window
\* is what the filter of the code takes.
StartIsExact ==
    \A cursor \in Cursor :
       LET start == subscription_start(cursor)
           missed == snapshot.event_sequence - cursor.event_sequence
           after == UpdatesAfter(cursor.event_sequence)
       IN /\ start.kind = "replay" <=>
                /\ Genuine(cursor)
                /\ \/ missed = 0
                   \/ missed <= Len(replay) /\ snapshot.event_sequence < U64Max
          /\ start.kind = "replay" =>
                /\ Len(start.updates) = missed
                /\ \A i \in DOMAIN start.updates :
                      start.updates[i] = replay[Len(replay) - missed + i]
          /\ {after[i] : i \in DOMAIN after} =
                {replay[i] : i \in {j \in DOMAIN replay :
                                       replay[j].event_sequence > cursor.event_sequence}}
          /\ \A i, j \in DOMAIN after : i < j => after[i].event_sequence < after[j].event_sequence
===========================================================================

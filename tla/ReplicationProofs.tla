------------------------- MODULE ReplicationProofs -------------------------
(***************************************************************************)
(* Proofs about Replication, for any contents and changes of the agent,    *)
(* any number of subscriptions, all capacities and any number of           *)
(* disconnections and restarts: the lanes keep their bounds, the client    *)
(* never shows a state the agent was not in, and when nothing is under way *)
(* it shows the present one.                                               *)
(*                                                                         *)
(* The last is why QuietInv follows what is on its way: either the client  *)
(* is going to ask for a snapshot, or the subscription that serves it has  *)
(* more to send, or what was sent leaves the client at the present however *)
(* the frames of earlier subscriptions are mixed in.                       *)
(***************************************************************************)
EXTENDS Replication, AgentActorProofs

---------------------------------------------------------------------------
\* The inductive invariant.

ClientFrame == {Subscribe({})} \cup {Subscribe({c}) : c \in Cursor} \cup {Unsubscribe}

Handler == [at : {"idle", "abort", "gap", "emit"}, sub : SUBSET Sub,
            gap : BOOLEAN, frames : Seq(StateFrame)]

Forwarder == [at : {"off", "recv", "emit", "gap"}, aborted : BOOLEAN, held : SUBSET Update]

LanesOK ==
    /\ inbound \in Seq(ClientFrame)
    /\ control \in Seq(ControlFrame) /\ Len(control) <= OutboundCapacity
    /\ state \in Seq(StateFrame) /\ Len(state) <= OutboundCapacity
    /\ wire \in Seq(StateFrame \cup ControlFrame) /\ Len(wire) <= WireCapacity

\* A forwarding task that is about to emit has an update.
ServerOK ==
    /\ handler \in Handler
    /\ current \subseteq Sub
    /\ forwarder \in [Sub -> Forwarder]
    /\ \A s \in Sub : forwarder[s].at = "emit" => forwarder[s].held # {}

\* There is one replica at most.
ClientOK ==
    /\ desired \in BOOLEAN
    /\ replica \subseteq Snapshot
    /\ \A s, t \in replica : s = t
    /\ resync \in BOOLEAN

BoundsOK ==
    /\ connected \in BOOLEAN
    /\ disconnects \in Nat
    /\ commands \in Nat
    /\ relaunches \in Nat

\* What the running actor has really been and done.
CurrentSnapshot == {s \in Snapshot : s.event_sequence < Len(hist) /\ s = hist[s.event_sequence + 1]}
CurrentUpdate == {u \in Update : Authentic(u, hist)}
CurrentFrame == {SnapshotFrame(s) : s \in CurrentSnapshot} \cup {UpdateFrame(u) : u \in CurrentUpdate}

\* Everything on its way to the client is of the running actor.
LanesCurrent ==
    /\ state \in Seq(CurrentFrame)
    /\ wire \in Seq(CurrentFrame \cup ControlFrame)

ServerCurrent ==
    /\ handler.frames \in Seq(CurrentFrame)
    /\ \A s \in Sub : forwarder[s].held \subseteq CurrentUpdate
    /\ \A s \in Sub : subscribers[s].open => subscribers[s].incarnation = snapshot.incarnation

\* The replica is of the running actor, and then exactly what that was, or of
\* an earlier one.
ClientCurrent ==
    \A s \in replica : /\ s.incarnation <= snapshot.incarnation
                       /\ s.incarnation = snapshot.incarnation => s \in CurrentSnapshot

Faithful == relaunches = 0 => LanesCurrent /\ ServerCurrent /\ ClientCurrent

ReplicationInv == ActorInv /\ LanesOK /\ ServerOK /\ ClientOK /\ BoundsOK /\ Faithful

---------------------------------------------------------------------------
\* Lemmas about sequences and frames.

LEMMA SeqGrows ==
    ASSUME NEW S, NEW T, S \subseteq T, NEW q \in Seq(S) PROVE q \in Seq(T)
  OBVIOUS

LEMMA SeqSteps ==
    ASSUME NEW S, NEW q \in Seq(S)
    PROVE  /\ Len(q) \in Nat
           /\ \A x \in S : Append(q, x) \in Seq(S) /\ Len(Append(q, x)) = Len(q) + 1
           /\ q # << >> => Tail(q) \in Seq(S) /\ Head(q) \in S /\ Len(Tail(q)) = Len(q) - 1
  OBVIOUS

LEMMA CurrentIsFrame == CurrentFrame \subseteq StateFrame
  BY DEF CurrentFrame, CurrentSnapshot, CurrentUpdate, StateFrame, SnapshotFrame, UpdateFrame

\* The frames of the two kinds, taken apart.
LEMMA FrameKinds ==
    /\ \A f \in StateFrame : \/ f.kind = "snapshot" /\ f.snapshot \in Snapshot
                             \/ f.kind = "update" /\ f.update \in Update
    /\ \A f \in CurrentFrame : \/ f.kind = "snapshot" /\ f.snapshot \in CurrentSnapshot
                               \/ f.kind = "update" /\ f.update \in CurrentUpdate
    /\ \A f \in ControlFrame : f.kind \in {"gap", "error"}
  BY DEF StateFrame, CurrentFrame, ControlFrame, SnapshotFrame, UpdateFrame, GapFrame, ErrorFrame

LEMMA FramesMade ==
    /\ \A s \in Snapshot : SnapshotFrame(s) \in StateFrame
    /\ \A u \in Update : UpdateFrame(u) \in StateFrame
    /\ \A s \in CurrentSnapshot : SnapshotFrame(s) \in CurrentFrame
    /\ \A u \in CurrentUpdate : UpdateFrame(u) \in CurrentFrame
    /\ GapFrame \in ControlFrame /\ ErrorFrame \in ControlFrame
  BY DEF StateFrame, CurrentFrame, ControlFrame, SnapshotFrame, UpdateFrame

LEMMA CapacitiesPositive ==
    /\ OutboundCapacity \in Nat /\ OutboundCapacity > 0
    /\ WireCapacity \in Nat /\ WireCapacity > 0
  BY ConnectionAssumption

\* The actor does nothing, or records an update: what was current stays so.
LEMMA SameCurrent ==
    ASSUME UNCHANGED hist
    PROVE  /\ CurrentSnapshot' = CurrentSnapshot /\ CurrentUpdate' = CurrentUpdate
           /\ CurrentFrame' = CurrentFrame
  BY DEF CurrentSnapshot, CurrentUpdate, CurrentFrame

LEMMA RecordKeepsCurrent ==
    ASSUME ActorInv, NEW next \in Snapshot, hist' = Append(hist, next)
    PROVE  /\ CurrentSnapshot \subseteq CurrentSnapshot'
           /\ CurrentUpdate \subseteq CurrentUpdate'
           /\ CurrentFrame \subseteq CurrentFrame'
<1>1. hist \in Seq(Snapshot)
  BY DEF ActorInv, ActorTypeOK
<1>2. ASSUME NEW s \in CurrentSnapshot PROVE s \in CurrentSnapshot'
  <2>1. s \in Snapshot /\ s.event_sequence \in Nat /\ s.event_sequence < Len(hist)
        /\ s = hist[s.event_sequence + 1]
    BY CapacityAssumption DEF CurrentSnapshot, Snapshot, Counter
  <2>2. s.event_sequence < Len(hist') /\ s = hist'[s.event_sequence + 1]
    BY <1>1, <2>1
  <2> QED
    BY <2>1, <2>2 DEF CurrentSnapshot
<1>3. ASSUME NEW u \in CurrentUpdate PROVE u \in CurrentUpdate'
  <2>1. u \in Update /\ Authentic(u, hist) /\ u.event_sequence \in Nat
    BY CapacityAssumption DEF CurrentUpdate, Update, Delta, Event, Counter
  <2>2. Authentic(u, Append(hist, next))
    BY <1>1, <2>1, AuthenticStable
  <2> QED
    BY <2>1, <2>2 DEF CurrentUpdate
<1>4. CurrentFrame \subseteq CurrentFrame'
  BY <1>2, <1>3 DEF CurrentFrame
<1> QED
  BY <1>2, <1>3, <1>4

\* The actor's snapshot, and what it has in its window and its channels, are
\* current.
LEMMA ActorIsCurrent ==
    ASSUME ActorInv
    PROVE  /\ snapshot \in CurrentSnapshot
           /\ \A i \in DOMAIN replay : replay[i] \in CurrentUpdate
           /\ \A s \in CurrentSnapshot : s.incarnation = snapshot.incarnation
<1>1. /\ snapshot \in Snapshot /\ snapshot.event_sequence \in Nat
      /\ Len(hist) = snapshot.event_sequence + 1 /\ hist[Len(hist)] = snapshot
      /\ hist \in Seq(Snapshot) /\ replay \in Seq(Update)
  BY CapacityAssumption DEF ActorInv, ActorTypeOK, HistoryOK, Snapshot, Counter
<1>2. snapshot \in CurrentSnapshot
  BY <1>1 DEF CurrentSnapshot
<1>3. \A i \in DOMAIN replay : replay[i] \in CurrentUpdate
  BY <1>1 DEF ActorInv, ReplayWindow, CurrentUpdate
<1>4. ASSUME NEW s \in CurrentSnapshot PROVE s.incarnation = snapshot.incarnation
  <2>1. s.event_sequence \in Nat /\ s.event_sequence < Len(hist) /\ s = hist[s.event_sequence + 1]
    BY CapacityAssumption DEF CurrentSnapshot, Snapshot, Counter
  <2>2. s.event_sequence + 1 \in DOMAIN hist
    BY <1>1, <2>1
  <2> QED
    BY <2>1, <2>2 DEF ActorInv, HistoryOK
<1> QED
  BY <1>2, <1>3, <1>4

\* The reducer's step: a current update on the current snapshot before it.
LEMMA ReducerFaithful ==
    ASSUME ActorInv, NEW s \in CurrentSnapshot, NEW u \in CurrentUpdate, Applicable(s, u)
    PROVE  ApplyUpdate(s, u) \in CurrentSnapshot
<1>1. s \in Snapshot /\ u \in Update
  BY DEF CurrentSnapshot, CurrentUpdate
<1>2. s.event_sequence \in Nat /\ u.event_sequence = s.event_sequence + 1
  BY <1>1, CapacityAssumption DEF Snapshot, Counter, Applicable
<1>3. /\ ApplyUpdate(s, u) \in Snapshot
      /\ ApplyUpdate(s, u).event_sequence = u.event_sequence
  BY <1>1, ApplyUpdateType
<1>4. s = hist[u.event_sequence]
  BY <1>2 DEF CurrentSnapshot
<1>5. /\ u.event_sequence \in 1 .. Len(hist) - 1
      /\ hist[u.event_sequence + 1] = ApplyUpdate(hist[u.event_sequence], u)
  BY DEF CurrentUpdate, Authentic
<1>6. hist \in Seq(Snapshot)
  BY DEF ActorInv, ActorTypeOK
<1> QED
  BY <1>3, <1>4, <1>5, <1>6 DEF CurrentSnapshot

---------------------------------------------------------------------------
\* Steps that leave the actor alone.

LEMMA ActorStill ==
    ASSUME ActorInv, UNCHANGED actorVars
    PROVE  ActorInv' /\ UNCHANGED <<hist, snapshot, subscribers>>
  BY ActorNextInv DEF actorVars

\* run_writer moves a frame from a lane to the socket.
LEMMA WriteKeepsInv ==
    ASSUME ReplicationInv, Write PROVE ReplicationInv'
<1>1. ActorInv' /\ UNCHANGED <<hist, snapshot, subscribers>>
  BY ActorStill DEF ReplicationInv, Write
<1>2. /\ UNCHANGED <<connected, inbound, handler, current, forwarder, desired, replica, resync,
                     disconnects, commands, relaunches>>
      /\ Len(wire) < WireCapacity
  BY DEF Write, serverVars, clientVars, boundVars
<1>3. /\ inbound \in Seq(ClientFrame)
      /\ control \in Seq(ControlFrame) /\ Len(control) <= OutboundCapacity
      /\ state \in Seq(StateFrame) /\ Len(state) <= OutboundCapacity
      /\ wire \in Seq(StateFrame \cup ControlFrame)
  BY DEF ReplicationInv, LanesOK
<1>4. \/ /\ control # << >>
         /\ wire' = Append(wire, Head(control)) /\ control' = Tail(control) /\ state' = state
      \/ /\ state # << >>
         /\ wire' = Append(wire, Head(state)) /\ state' = Tail(state) /\ control' = control
  BY DEF Write
<1>5. LanesOK'
  <2>1. /\ wire' \in Seq(StateFrame \cup ControlFrame)
        /\ Len(wire') = Len(wire) + 1 /\ Len(wire) \in Nat
    <3>1. control # << >> => Head(control) \in StateFrame \cup ControlFrame
      BY <1>3, SeqSteps
    <3>2. state # << >> => Head(state) \in StateFrame \cup ControlFrame
      BY <1>3, SeqSteps
    <3>3. /\ Len(wire) \in Nat
          /\ \A x \in StateFrame \cup ControlFrame :
                /\ Append(wire, x) \in Seq(StateFrame \cup ControlFrame)
                /\ Len(Append(wire, x)) = Len(wire) + 1
      BY <1>3, SeqSteps
    <3> QED
      BY <1>4, <3>1, <3>2, <3>3
  <2>2. control' \in Seq(ControlFrame) /\ Len(control') <= OutboundCapacity
    <3>1. /\ Len(control) \in Nat
          /\ control # << >> => /\ Tail(control) \in Seq(ControlFrame)
                                /\ Len(Tail(control)) = Len(control) - 1
      BY <1>3, SeqSteps
    <3>2. CASE control' = control
      BY <1>3, <3>2
    <3>3. CASE control # << >> /\ control' = Tail(control)
      BY <1>3, <3>1, <3>3, CapacitiesPositive
    <3> QED
      BY <1>4, <3>2, <3>3
  <2>3. state' \in Seq(StateFrame) /\ Len(state') <= OutboundCapacity
    <3>1. /\ Len(state) \in Nat
          /\ state # << >> => /\ Tail(state) \in Seq(StateFrame)
                              /\ Len(Tail(state)) = Len(state) - 1
      BY <1>3, SeqSteps
    <3>2. CASE state' = state
      BY <1>3, <3>2
    <3>3. CASE state # << >> /\ state' = Tail(state)
      BY <1>3, <3>1, <3>3, CapacitiesPositive
    <3> QED
      BY <1>4, <3>2, <3>3
  <2> QED
    BY <1>2, <1>3, <2>1, <2>2, <2>3, CapacitiesPositive DEF LanesOK
<1>6. ServerOK' /\ ClientOK' /\ BoundsOK'
  BY <1>2 DEF ReplicationInv, ServerOK, ClientOK, BoundsOK
<1>7. Faithful'
  <2> SUFFICES ASSUME relaunches = 0 PROVE LanesCurrent' /\ ServerCurrent' /\ ClientCurrent'
    BY <1>2 DEF Faithful
  <2>1. LanesCurrent /\ ServerCurrent /\ ClientCurrent
    BY DEF ReplicationInv, Faithful
  <2>2. ServerCurrent' /\ ClientCurrent'
    BY <1>1, <1>2, <2>1, SameCurrent DEF ServerCurrent, ClientCurrent
  <2>3. state \in Seq(CurrentFrame) /\ wire \in Seq(CurrentFrame \cup ControlFrame)
    BY <2>1 DEF LanesCurrent
  <2>4. control # << >> => Head(control) \in CurrentFrame \cup ControlFrame
    BY <1>3, SeqSteps
  <2>5. state # << >> => /\ Head(state) \in CurrentFrame \cup ControlFrame
                         /\ Tail(state) \in Seq(CurrentFrame)
    BY <2>3, SeqSteps
  <2>6. wire' \in Seq(CurrentFrame \cup ControlFrame) /\ state' \in Seq(CurrentFrame)
    BY <1>4, <2>3, <2>4, <2>5, SeqSteps
  <2> QED
    BY <1>1, <2>2, <2>6, SameCurrent DEF LanesCurrent
<1> QED
  BY <1>1, <1>5, <1>6, <1>7 DEF ReplicationInv

\* The client's cursor is the one of its replica, when it trusts it.
LEMMA SubscribeIsClientFrame ==
    ASSUME ReplicationInv
    PROVE  /\ Subscribe(ReplicaCursor) \in ClientFrame
           /\ Subscribe({}) \in ClientFrame /\ Unsubscribe \in ClientFrame
<1>1. replica \subseteq Snapshot /\ \A s, t \in replica : s = t
  BY DEF ReplicationInv, ClientOK
<1>2. CASE resync \/ replica = {}
  BY <1>2 DEF ReplicaCursor, ClientFrame
<1>3. CASE ~resync /\ replica # {}
  <2>1. PICK s \in replica : TRUE
    BY <1>3
  <2>2. replica = {s} /\ s \in Snapshot
    BY <1>1, <2>1
  <2>3. ReplicaCursor = {CursorOf(s)}
    BY <1>3, <2>2 DEF ReplicaCursor
  <2>4. CursorOf(s) \in Cursor
    BY <2>2 DEF CursorOf, Cursor, Snapshot
  <2> QED
    BY <2>3, <2>4 DEF ClientFrame
<1> QED
  BY <1>2, <1>3

\* The user's commands and reconnection only send the daemon a frame.
LEMMA InboundStepKeepsInv ==
    ASSUME ReplicationInv, UNCHANGED actorVars, inbound' \in Seq(ClientFrame),
           UNCHANGED <<control, state, wire, serverVars, replica, resync, relaunches>>,
           connected' \in BOOLEAN, desired' \in BOOLEAN, disconnects' \in Nat, commands' \in Nat
    PROVE  ReplicationInv'
<1>1. ActorInv' /\ UNCHANGED <<hist, snapshot, subscribers>>
  BY ActorStill DEF ReplicationInv
<1>2. LanesOK'
  BY DEF ReplicationInv, LanesOK
<1>3. ServerOK' /\ ClientOK' /\ BoundsOK'
  BY DEF ReplicationInv, ServerOK, ClientOK, BoundsOK, serverVars
<1>4. Faithful'
  BY <1>1, SameCurrent
     DEF ReplicationInv, Faithful, LanesCurrent, ServerCurrent, ClientCurrent, serverVars
<1> QED
  BY <1>1, <1>2, <1>3, <1>4 DEF ReplicationInv

LEMMA ClientCommandKeepsInv ==
    ASSUME ReplicationInv, ClientSubscribe \/ ClientUnsubscribe \/ Connect
    PROVE  ReplicationInv'
<1>1. inbound \in Seq(ClientFrame)
  BY DEF ReplicationInv, LanesOK
<1>2. inbound' \in Seq(ClientFrame)
  <2>1. CASE ClientSubscribe
    BY <1>1, <2>1, SubscribeIsClientFrame, SeqSteps DEF ClientSubscribe
  <2>2. CASE ClientUnsubscribe
    BY <1>1, <2>2, SubscribeIsClientFrame, SeqSteps DEF ClientUnsubscribe
  <2>3. CASE Connect
    <3>1. <<Subscribe(ReplicaCursor)>> \in Seq(ClientFrame) /\ << >> \in Seq(ClientFrame)
      BY SubscribeIsClientFrame
    <3> QED
      BY <2>3, <3>1 DEF Connect
  <2> QED
    BY <2>1, <2>2, <2>3
<1>3. /\ connected \in BOOLEAN /\ desired \in BOOLEAN /\ disconnects \in Nat /\ commands \in Nat
  BY DEF ReplicationInv, BoundsOK, ClientOK
<1>4. /\ UNCHANGED actorVars
      /\ UNCHANGED <<control, state, wire, serverVars, replica, resync, relaunches>>
      /\ connected' \in BOOLEAN /\ desired' \in BOOLEAN /\ disconnects' \in Nat
      /\ commands' \in Nat
  <2>1. CASE ClientSubscribe
    BY <1>3, <2>1 DEF ClientSubscribe
  <2>2. CASE ClientUnsubscribe
    <3>1. desired' = FALSE /\ commands' = commands + 1
      BY <2>2 DEF ClientUnsubscribe
    <3>2. UNCHANGED <<actorVars, connected, control, state, wire, serverVars, replica, resync,
                      disconnects, relaunches>>
      BY <2>2 DEF ClientUnsubscribe
    <3>3. desired' \in BOOLEAN
      BY <3>1
    <3>4. connected' \in BOOLEAN /\ disconnects' \in Nat /\ commands' \in Nat
      BY <1>3, <3>1, <3>2
    <3> QED
      BY <3>2, <3>3, <3>4
  <2>3. CASE Connect
    BY <1>3, <2>3 DEF Connect, clientVars, boundVars
  <2> QED
    BY <2>1, <2>2, <2>3
<1> QED
  BY <1>2, <1>4, InboundStepKeepsInv

\* ReplicatedState::apply: a snapshot is taken over, an update only on the
\* replica it follows.
LEMMA ClientReceiveKeepsInv ==
    ASSUME ReplicationInv, ClientReceive PROVE ReplicationInv'
<1> DEFINE f == Head(wire)
<1>1. ActorInv /\ ActorInv' /\ UNCHANGED <<hist, snapshot, subscribers>>
  BY ActorStill DEF ReplicationInv, ClientReceive
<1>2. /\ UNCHANGED <<connected, control, state, handler, current, forwarder, desired,
                     disconnects, commands, relaunches>>
      /\ wire # << >> /\ wire' = Tail(wire)
      /\ ClientSnapshot(f) \/ ClientUpdate(f) \/ ClientResync(f) \/ ClientError(f)
  BY DEF ClientReceive, serverVars, boundVars
<1>3. /\ wire \in Seq(StateFrame \cup ControlFrame) /\ Len(wire) <= WireCapacity
      /\ inbound \in Seq(ClientFrame)
  BY DEF ReplicationInv, LanesOK
<1>4. f \in StateFrame \cup ControlFrame
  BY <1>2, <1>3, SeqSteps
<1>5. /\ f.kind = "snapshot" => f.snapshot \in Snapshot
      /\ f.kind = "update" => f.update \in Update
  BY <1>4, FrameKinds
<1> HIDE DEF f
<1>6. LanesOK'
  <2>1. inbound' \in Seq(ClientFrame)
    BY <1>2, <1>3, SubscribeIsClientFrame, SeqSteps
       DEF ClientSnapshot, ClientUpdate, ClientResync, ClientError
  <2>2. wire' \in Seq(StateFrame \cup ControlFrame) /\ Len(wire') <= WireCapacity
    BY <1>2, <1>3, SeqSteps, CapacitiesPositive
  <2> QED
    BY <1>2, <2>1, <2>2 DEF ReplicationInv, LanesOK
<1>7. ClientOK'
  <2>1. replica \subseteq Snapshot /\ resync \in BOOLEAN /\ \A s, t \in replica : s = t
    BY DEF ReplicationInv, ClientOK
  <2>2. /\ replica' \subseteq Snapshot /\ resync' \in BOOLEAN
        /\ \A s, t \in replica' : s = t
    <3>1. CASE ClientSnapshot(f)
      BY <1>5, <3>1 DEF ClientSnapshot
    <3>2. CASE ClientUpdate(f)
      <4>1. \A s \in replica : ApplyUpdate(s, f.update) \in Snapshot
        BY <1>5, <2>1, <3>2, ApplyUpdateType DEF ClientUpdate
      <4>2. replica' = {ApplyUpdate(s, f.update) : s \in replica} /\ resync' = resync
        BY <3>2 DEF ClientUpdate
      <4> QED
        BY <2>1, <4>1, <4>2
    <3>3. CASE ClientResync(f) \/ ClientError(f)
      BY <2>1, <3>3 DEF ClientResync, ClientError
    <3> QED
      BY <1>2, <3>1, <3>2, <3>3
  <2> QED
    BY <1>2, <2>2 DEF ReplicationInv, ClientOK
<1>8. ServerOK' /\ BoundsOK'
  BY <1>2 DEF ReplicationInv, ServerOK, BoundsOK
<1>9. Faithful'
  <2> SUFFICES ASSUME relaunches = 0 PROVE LanesCurrent' /\ ServerCurrent' /\ ClientCurrent'
    BY <1>2 DEF Faithful
  <2>1. LanesCurrent /\ ServerCurrent /\ ClientCurrent
    BY DEF ReplicationInv, Faithful
  <2>2. ServerCurrent'
    BY <1>1, <1>2, <2>1, SameCurrent DEF ServerCurrent
  <2>3. /\ wire \in Seq(CurrentFrame \cup ControlFrame)
        /\ wire' \in Seq(CurrentFrame \cup ControlFrame)
        /\ f \in CurrentFrame \cup ControlFrame
    <3>1. wire \in Seq(CurrentFrame \cup ControlFrame)
      BY <2>1 DEF LanesCurrent
    <3> QED
      BY <1>2, <3>1, SeqSteps DEF f
  <2>4. LanesCurrent'
    BY <1>1, <1>2, <2>1, <2>3, SameCurrent DEF LanesCurrent
  <2>5. /\ f.kind = "snapshot" => f.snapshot \in CurrentSnapshot
        /\ f.kind = "update" => f.update \in CurrentUpdate
    BY <2>3, FrameKinds
  <2>6. ASSUME NEW s \in replica'
        PROVE  /\ s.incarnation <= snapshot.incarnation
               /\ s.incarnation = snapshot.incarnation => s \in CurrentSnapshot
    <3>1. CASE ClientSnapshot(f)
      <4>1. s \in CurrentSnapshot
        BY <2>5, <3>1 DEF ClientSnapshot
      <4>2. s.incarnation = snapshot.incarnation /\ s.incarnation \in Nat
        BY <1>1, <4>1, ActorIsCurrent DEF CurrentSnapshot, Snapshot
      <4> QED
        BY <4>1, <4>2
    <3>2. CASE ClientUpdate(f)
      <4>1. PICK r \in replica : s = ApplyUpdate(r, f.update)
        BY <3>2 DEF ClientUpdate
      <4>2. Applicable(r, f.update) /\ r \in Snapshot
        BY <3>2 DEF ClientUpdate, Accepts, ReplicationInv, ClientOK
      <4>3. f.update \in CurrentUpdate /\ f.update \in Update
        BY <2>5, <1>5, <3>2 DEF ClientUpdate
      <4>4. s.incarnation = r.incarnation
        BY <4>1, <4>2, <4>3, ApplyUpdateType
      <4>5. /\ r.incarnation <= snapshot.incarnation
            /\ r.incarnation = snapshot.incarnation => r \in CurrentSnapshot
        BY <2>1 DEF ClientCurrent
      <4> QED
        BY <1>1, <4>1, <4>2, <4>3, <4>4, <4>5, ReducerFaithful
    <3>3. CASE ClientResync(f) \/ ClientError(f)
      BY <2>1, <3>3 DEF ClientResync, ClientError, ClientCurrent
    <3> QED
      BY <1>2, <3>1, <3>2, <3>3
  <2>7. ClientCurrent'
    BY <1>1, <2>6, SameCurrent DEF ClientCurrent
  <2> QED
    BY <2>2, <2>4, <2>7
<1> QED
  BY <1>1, <1>6, <1>7, <1>8, <1>9 DEF ReplicationInv

---------------------------------------------------------------------------
\* Steps of the daemon's tasks.

\* A step that leaves the agent, the socket and the client alone keeps the
\* invariant if the lanes keep their bounds and everything the daemon's tasks
\* hold stays current.
LEMMA DaemonStep ==
    ASSUME ReplicationInv, ActorInv',
           UNCHANGED <<hist, snapshot, connected, wire, desired, replica, resync,
                       disconnects, commands, relaunches>>,
           inbound' \in Seq(ClientFrame),
           control' \in Seq(ControlFrame), Len(control') <= OutboundCapacity,
           state' \in Seq(StateFrame), Len(state') <= OutboundCapacity,
           ServerOK',
           relaunches = 0 =>
              /\ state' \in Seq(CurrentFrame)
              /\ handler'.frames \in Seq(CurrentFrame)
              /\ \A s \in Sub : forwarder'[s].held \subseteq CurrentUpdate
              /\ \A s \in Sub : subscribers'[s].open =>
                                   subscribers'[s].incarnation = snapshot.incarnation
    PROVE  ReplicationInv'
<1>1. LanesOK' /\ ClientOK' /\ BoundsOK'
  BY DEF ReplicationInv, LanesOK, ClientOK, BoundsOK
<1>2. Faithful'
  <2> SUFFICES ASSUME relaunches = 0 PROVE LanesCurrent' /\ ServerCurrent' /\ ClientCurrent'
    BY DEF Faithful
  <2>1. LanesCurrent /\ ClientCurrent
    BY DEF ReplicationInv, Faithful
  <2> QED
    BY <2>1, SameCurrent DEF LanesCurrent, ServerCurrent, ClientCurrent
<1> QED
  BY <1>1, <1>2 DEF ReplicationInv

\* What DaemonStep asks of the parts a step does not change.
LEMMA DaemonNow ==
    ASSUME ReplicationInv
    PROVE  /\ ActorInv
           /\ inbound \in Seq(ClientFrame)
           /\ control \in Seq(ControlFrame) /\ Len(control) <= OutboundCapacity
           /\ state \in Seq(StateFrame) /\ Len(state) <= OutboundCapacity
           /\ handler \in Handler /\ current \subseteq Sub /\ forwarder \in [Sub -> Forwarder]
           /\ \A s \in Sub : forwarder[s].at = "emit" => forwarder[s].held # {}
           /\ relaunches = 0 =>
                 /\ state \in Seq(CurrentFrame)
                 /\ handler.frames \in Seq(CurrentFrame)
                 /\ \A s \in Sub : forwarder[s].held \subseteq CurrentUpdate
                 /\ \A s \in Sub : subscribers[s].open =>
                                      subscribers[s].incarnation = snapshot.incarnation
  BY DEF ReplicationInv, LanesOK, ServerOK, Faithful, LanesCurrent, ServerCurrent

\* A frame enters a lane that has room for it.
LEMMA LaneGrows ==
    ASSUME NEW S, NEW q \in Seq(S), NEW x \in S, Len(q) < OutboundCapacity
    PROVE  Append(q, x) \in Seq(S) /\ Len(Append(q, x)) <= OutboundCapacity
<1>1. Len(q) \in Nat /\ Append(q, x) \in Seq(S) /\ Len(Append(q, x)) = Len(q) + 1
  BY SeqSteps
<1> QED
  BY <1>1, CapacitiesPositive

\* One forwarding task moves on.
LEMMA ForwarderStep ==
    ASSUME ReplicationInv, NEW s \in Sub, NEW new \in Forwarder,
           new.at = "emit" => new.held # {},
           relaunches = 0 => new.held \subseteq CurrentUpdate,
           forwarder' = [forwarder EXCEPT ![s] = new],
           handler' = handler, current' \subseteq current
    PROVE  /\ ServerOK'
           /\ relaunches = 0 => \A t \in Sub : forwarder'[t].held \subseteq CurrentUpdate
<1>1. /\ forwarder' \in [Sub -> Forwarder]
      /\ \A t \in Sub : forwarder'[t] = IF t = s THEN new ELSE forwarder[t]
  BY DaemonNow
<1>2. ServerOK'
  BY <1>1, DaemonNow DEF ServerOK
<1> QED
  BY <1>1, <1>2, DaemonNow

\* Passing the first test of recv.
LEMMA ForwarderCheckKeepsInv ==
    ASSUME ReplicationInv, NEW s \in Sub, ForwarderCheck(s) PROVE ReplicationInv'
<1>1. RecvCheck(s) /\ UNCHANGED <<connected, inbound, control, state, wire, handler, current,
         forwarder, desired, replica, resync, disconnects, commands, relaunches>>
  BY DEF ForwarderCheck, laneVars, serverVars, clientVars, boundVars
<1>2. ActorInv'
  BY <1>1, DaemonNow, RecvCheckKeepsInv
<1>3. /\ UNCHANGED <<hist, snapshot>>
      /\ \A t \in Sub : /\ subscribers'[t].open = subscribers[t].open
                        /\ subscribers'[t].incarnation = subscribers[t].incarnation
  <2>1. subscribers \in [Sub -> Subscription]
    BY DaemonNow DEF ActorInv, ActorTypeOK
  <2> QED
    BY <1>1, <2>1 DEF RecvCheck, Subscription
<1>4. ServerOK'
  BY <1>1 DEF ReplicationInv, ServerOK
<1> QED
  BY <1>1, <1>2, <1>3, <1>4, DaemonNow, DaemonStep

\* An update taken from the channel: a subscription of the running actor has
\* only that actor's updates.
LEMMA ForwarderReceiveKeepsInv ==
    ASSUME ReplicationInv, NEW s \in Sub, ForwarderReceive(s) PROVE ReplicationInv'
<1> DEFINE u == Head(subscribers[s].queue)
           new == [forwarder[s] EXCEPT !.at = "emit", !.held = {u}]
<1>1. /\ RecvUpdate(s)
      /\ UNCHANGED <<connected, inbound, control, state, wire, handler, current,
                     desired, replica, resync, disconnects, commands, relaunches>>
  BY DEF ForwarderReceive, laneVars, clientVars, boundVars
<1>2. ActorInv'
  BY <1>1, DaemonNow, RecvUpdateKeepsInv
<1>3. /\ subscribers \in [Sub -> Subscription] /\ subscribers[s].queue # << >>
      /\ subscribers[s].queue \in Seq(Update) /\ subscribers[s].open
  BY <1>1, DaemonNow, SubscriptionInvHolds
     DEF ActorInv, ActorTypeOK, RecvUpdate, Subscription, SubscriptionInv
<1>4. /\ UNCHANGED <<hist, snapshot>>
      /\ \A t \in Sub : /\ subscribers'[t].open = subscribers[t].open
                        /\ subscribers'[t].incarnation = subscribers[t].incarnation
  BY <1>1, <1>3 DEF RecvUpdate, Received, Subscription
<1>5. 1 \in DOMAIN subscribers[s].queue /\ u = subscribers[s].queue[1] /\ u \in Update
  BY <1>3
<1>6. relaunches = 0 => u \in CurrentUpdate
  BY <1>3, <1>5, DaemonNow DEF ActorInv, StreamComplete, CurrentUpdate
<1> HIDE DEF u
<1>7. new \in Forwarder /\ new.held = {u}
  BY <1>5, DaemonNow DEF Forwarder
<1>8. forwarder' = [forwarder EXCEPT ![s] = new]
  BY DaemonNow DEF ForwarderReceive, u
<1> HIDE DEF new
<1>9. /\ ServerOK'
      /\ relaunches = 0 => \A t \in Sub : forwarder'[t].held \subseteq CurrentUpdate
  BY <1>1, <1>6, <1>7, <1>8, ForwarderStep
<1> QED
  BY <1>1, <1>2, <1>4, <1>9, DaemonNow, DaemonStep

\* emit_update puts the update in the state lane, or turns to the gap.
LEMMA ForwarderEmitKeepsInv ==
    ASSUME ReplicationInv, NEW s \in Sub, ForwarderEmit(s) PROVE ReplicationInv'
<1> DEFINE u == Only(forwarder[s].held)
           back == [forwarder[s] EXCEPT !.at = "recv", !.held = {}]
           gap == [forwarder[s] EXCEPT !.at = "gap", !.held = {}]
<1>1. /\ UNCHANGED actorVars
      /\ UNCHANGED <<connected, inbound, control, wire, handler, current,
                     desired, replica, resync, disconnects, commands, relaunches>>
  BY DEF ForwarderEmit, clientVars, boundVars
<1>2. ActorInv' /\ UNCHANGED <<hist, snapshot, subscribers>>
  BY <1>1, DaemonNow, ActorStill
<1>3. u \in forwarder[s].held
  BY DaemonNow DEF ForwarderEmit, Only
<1>4. u \in Update /\ (relaunches = 0 => u \in CurrentUpdate)
  BY <1>3, DaemonNow DEF Forwarder
<1> HIDE DEF u
<1>5. /\ back \in Forwarder /\ back.held = {} /\ back.at = "recv"
      /\ gap \in Forwarder /\ gap.held = {} /\ gap.at = "gap"
  BY DaemonNow DEF Forwarder
<1>6. \/ /\ Len(state) < OutboundCapacity
         /\ state' = Append(state, UpdateFrame(u))
         /\ forwarder' = [forwarder EXCEPT ![s] = back]
      \/ state' = state /\ forwarder' = [forwarder EXCEPT ![s] = gap]
  BY DaemonNow DEF ForwarderEmit, StateRoom, u
<1> HIDE DEF back, gap
<1>7. /\ ServerOK'
      /\ relaunches = 0 => \A t \in Sub : forwarder'[t].held \subseteq CurrentUpdate
  <2>1. CASE forwarder' = [forwarder EXCEPT ![s] = back]
    BY <1>1, <1>5, <2>1, ForwarderStep
  <2>2. CASE forwarder' = [forwarder EXCEPT ![s] = gap]
    BY <1>1, <1>5, <2>2, ForwarderStep
  <2> QED
    BY <1>6, <2>1, <2>2
<1>8. UpdateFrame(u) \in StateFrame /\ (relaunches = 0 => UpdateFrame(u) \in CurrentFrame)
  BY <1>4, FramesMade
<1>9. /\ state' \in Seq(StateFrame) /\ Len(state') <= OutboundCapacity
      /\ relaunches = 0 => state' \in Seq(CurrentFrame)
  <2>1. CASE state' = state
    BY <2>1, DaemonNow
  <2>2. CASE Len(state) < OutboundCapacity /\ state' = Append(state, UpdateFrame(u))
    <3>1. state' \in Seq(StateFrame) /\ Len(state') <= OutboundCapacity
      BY <1>8, <2>2, LaneGrows, DaemonNow
    <3>2. relaunches = 0 => state' \in Seq(CurrentFrame)
      BY <1>8, <2>2, LaneGrows, DaemonNow
    <3> QED
      BY <3>1, <3>2
  <2> QED
    BY <1>6, <2>1, <2>2
<1> QED
  BY <1>1, <1>2, <1>7, <1>9, DaemonNow, DaemonStep

\* recv failed: the task turns to the gap.
LEMMA ForwarderResyncKeepsInv ==
    ASSUME ReplicationInv, NEW s \in Sub, ForwarderResync(s) PROVE ReplicationInv'
<1> DEFINE new == [forwarder[s] EXCEPT !.at = "gap"]
<1>1. /\ UNCHANGED actorVars
      /\ UNCHANGED <<connected, inbound, control, state, wire, handler, current,
                     desired, replica, resync, disconnects, commands, relaunches>>
  BY DEF ForwarderResync, laneVars, clientVars, boundVars
<1>2. ActorInv' /\ UNCHANGED <<hist, snapshot, subscribers>>
  BY <1>1, DaemonNow, ActorStill
<1>3. new \in Forwarder /\ new.at = "gap" /\ new.held = forwarder[s].held
  BY DaemonNow DEF Forwarder
<1>4. forwarder' = [forwarder EXCEPT ![s] = new]
  BY DaemonNow DEF ForwarderResync
<1> HIDE DEF new
<1>5. /\ ServerOK'
      /\ relaunches = 0 => \A t \in Sub : forwarder'[t].held \subseteq CurrentUpdate
  BY <1>1, <1>3, <1>4, DaemonNow, ForwarderStep
<1> QED
  BY <1>1, <1>2, <1>5, DaemonNow, DaemonStep

\* A task ends: for whichever reason, with or without a gap.
LEMMA ForwarderEndKeepsInv ==
    ASSUME ReplicationInv, NEW s \in Sub,
           ForwarderGap(s) \/ ForwarderClosed(s) \/ ForwarderAborted(s)
    PROVE  ReplicationInv'
<1>1. /\ EndForwarder(s)
      /\ UNCHANGED <<connected, inbound, state, wire, handler,
                     desired, replica, resync, disconnects, commands, relaunches>>
      /\ \/ control' = control
         \/ Len(control) < OutboundCapacity /\ control' = Append(control, GapFrame)
  <2>1. CASE ForwarderGap(s)
    BY <2>1 DEF ForwarderGap, ControlRoom, clientVars, boundVars
  <2>2. CASE ForwarderClosed(s)
    BY <2>2 DEF ForwarderClosed, laneVars, clientVars, boundVars
  <2>3. CASE ForwarderAborted(s)
    BY <2>3 DEF ForwarderAborted, laneVars, clientVars, boundVars
  <2> QED
    BY <2>1, <2>2, <2>3
<1>2. DropSubscription(s) /\ forwarder' = [forwarder EXCEPT ![s] = NoForwarder]
      /\ current' \subseteq current
  BY <1>1 DEF EndForwarder
<1>3. ActorInv'
  BY <1>2, DaemonNow, DropSubscriptionKeepsInv
<1>4. /\ UNCHANGED <<hist, snapshot>>
      /\ \A t \in Sub : \/ ~subscribers'[t].open
                        \/ subscribers'[t] = subscribers[t]
  <2>1. subscribers \in [Sub -> Subscription]
    BY DaemonNow DEF ActorInv, ActorTypeOK
  <2> QED
    BY <1>2, <2>1 DEF DropSubscription, NoSubscription
<1>5. NoForwarder \in Forwarder /\ NoForwarder.held = {} /\ NoForwarder.at = "off"
  BY DEF NoForwarder, Forwarder
<1>6. /\ ServerOK'
      /\ relaunches = 0 => \A t \in Sub : forwarder'[t].held \subseteq CurrentUpdate
  BY <1>1, <1>2, <1>5, ForwarderStep
<1>7. control' \in Seq(ControlFrame) /\ Len(control') <= OutboundCapacity
  BY <1>1, DaemonNow, FramesMade, LaneGrows
<1> QED
  BY <1>1, <1>3, <1>4, <1>6, <1>7, DaemonNow, DaemonStep

---------------------------------------------------------------------------
\* Handling the client's frames.

\* subscription_start answers with the snapshot or with updates of the window.
LEMMA StartIsCurrent ==
    ASSUME ActorInv, NEW frame \in ClientFrame, frame.kind = "subscribe"
    PROVE  LET start == StartFor(frame.cursor)
           IN start.snapshot = snapshot /\ start.updates \in Seq(CurrentUpdate)
<1> DEFINE start == StartFor(frame.cursor)
<1>1. << >> \in Seq(CurrentUpdate)
  OBVIOUS
<1>2. CASE frame.cursor = {}
  BY <1>1, <1>2 DEF StartFor, SnapshotStart
<1>3. CASE frame.cursor # {}
  <2>1. PICK c \in Cursor : frame.cursor = {c}
    BY <1>3 DEF ClientFrame, Subscribe, Unsubscribe
  <2>2. start = subscription_start(c)
    BY <2>1 DEF StartFor
  <2>3. CASE \E us : start = ReplayStart(us) /\ us = UpdatesAfter(c.event_sequence)
                     /\ c.event_sequence <= snapshot.event_sequence
    <3>1. /\ replay \in Seq(Update) /\ Len(replay) \in Nat
          /\ snapshot.event_sequence \in Nat /\ c.event_sequence \in Nat
          /\ c.event_sequence <= snapshot.event_sequence
      BY <2>3, CapacityAssumption DEF ActorInv, ActorTypeOK, Snapshot, Counter, Cursor
    <3>2. replay \in Seq(CurrentUpdate)
      BY <3>1, ActorIsCurrent
    <3>3. CASE replay = << >>
      BY <1>1, <2>3, <3>3 DEF ReplayStart, UpdatesAfter
    <3>4. CASE replay # << >>
      <4> DEFINE oldest == replay[1].event_sequence
                 first == IF c.event_sequence < oldest THEN 1 ELSE c.event_sequence - oldest + 2
      <4>1. oldest = snapshot.event_sequence - Len(replay) + 1
        BY <3>1, <3>4 DEF ActorInv, ReplayWindow
      <4>2. first \in 1 .. Len(replay) + 1
        BY <3>1, <3>4, <4>1
      <4> HIDE DEF first
      <4>3. SubSeq(replay, first, Len(replay)) \in Seq(CurrentUpdate)
        BY <3>1, <3>2, <4>2
      <4>4. UpdatesAfter(c.event_sequence) = SubSeq(replay, first, Len(replay))
        BY <3>4 DEF UpdatesAfter, first
      <4> QED
        BY <2>3, <4>3, <4>4 DEF ReplayStart
    <3> QED
      BY <3>3, <3>4
  <2>4. CASE start = ResyncStart \/ start = ReplayStart(<< >>)
    <3>1. start.snapshot = snapshot /\ start.updates = << >>
      BY <2>4 DEF ResyncStart, ReplayStart
    <3> QED
      BY <1>1, <3>1
  <2>5. c.event_sequence \in Nat /\ snapshot.event_sequence \in Nat
    BY CapacityAssumption DEF ActorInv, ActorTypeOK, Snapshot, Counter, Cursor
  <2> QED
    BY <2>2, <2>3, <2>4, <2>5 DEF subscription_start
<1> QED
  BY <1>2, <1>3

\* The frames the handler is to deliver.
LEMMA StartFrames ==
    ASSUME NEW S, NEW us \in Seq(S), NEW F, \A u \in S : UpdateFrame(u) \in F
    PROVE  [i \in DOMAIN us |-> UpdateFrame(us[i])] \in Seq(F)
  OBVIOUS

LEMMA HandleSubscribeKeepsInv ==
    ASSUME ReplicationInv, NEW s \in Sub, HandleSubscribe(s) PROVE ReplicationInv'
<1> DEFINE start == StartFor(Head(inbound).cursor)
           frames == IF start.kind = "replay"
                     THEN [i \in DOMAIN start.updates |-> UpdateFrame(start.updates[i])]
                     ELSE <<SnapshotFrame(start.snapshot)>>
<1>1. /\ UNCHANGED <<connected, control, state, wire, current, forwarder, desired, replica,
                     resync, disconnects, commands, relaunches>>
      /\ inbound # << >> /\ inbound' = Tail(inbound)
      /\ Head(inbound).kind = "subscribe"
      /\ subscribe(s)
      /\ handler' = [at |-> "abort", sub |-> {s}, gap |-> start.kind = "resync_required",
                     frames |-> frames]
  BY DEF HandleSubscribe, clientVars, boundVars
<1>2. ActorInv'
  BY <1>1, DaemonNow, SubscribeKeepsInv
<1>3. inbound' \in Seq(ClientFrame) /\ Head(inbound) \in ClientFrame
  BY <1>1, DaemonNow, SeqSteps
<1>4. start.snapshot = snapshot /\ start.updates \in Seq(CurrentUpdate)
  BY <1>1, <1>3, DaemonNow, StartIsCurrent
<1> HIDE DEF start
<1>5. frames \in Seq(CurrentFrame)
  <2>1. SnapshotFrame(start.snapshot) \in CurrentFrame
    BY <1>4, DaemonNow, ActorIsCurrent, FramesMade
  <2>2. [i \in DOMAIN start.updates |-> UpdateFrame(start.updates[i])] \in Seq(CurrentFrame)
    BY <1>4, FramesMade, StartFrames
  <2> QED
    BY <2>1, <2>2
<1> HIDE DEF frames
<1>6. frames \in Seq(StateFrame)
  BY <1>5, CurrentIsFrame, SeqGrows
<1>7. handler' \in Handler /\ handler'.frames = frames
  BY <1>1, <1>6 DEF Handler
<1>8. ServerOK'
  BY <1>1, <1>7, DaemonNow DEF ServerOK
<1>9. /\ UNCHANGED <<hist, snapshot>>
      /\ \A t \in Sub : \/ subscribers'[t].incarnation = snapshot.incarnation
                        \/ subscribers'[t] = subscribers[t]
  <2>1. subscribers \in [Sub -> Subscription]
    BY DaemonNow DEF ActorInv, ActorTypeOK
  <2> QED
    BY <1>1, <2>1 DEF subscribe, NewSubscription
<1> QED
  BY <1>1, <1>2, <1>3, <1>5, <1>7, <1>8, <1>9, DaemonNow, DaemonStep

\* The error frame, and the gap before a resynchronisation, wait for room.
LEMMA HandleControlKeepsInv ==
    ASSUME ReplicationInv, HandleSubscribeFails \/ HandleEmitGap PROVE ReplicationInv'
<1>1. /\ UNCHANGED actorVars
      /\ UNCHANGED <<connected, state, wire, current, forwarder, desired, replica,
                     resync, disconnects, commands, relaunches>>
      /\ Len(control) < OutboundCapacity
      /\ \E f \in ControlFrame : control' = Append(control, f)
      /\ \/ inbound' = inbound
         \/ inbound # << >> /\ inbound' = Tail(inbound)
      /\ \/ handler' = handler
         \/ handler' = [handler EXCEPT !.at = "emit"]
  <2>1. CASE HandleSubscribeFails
    BY <2>1, FramesMade DEF HandleSubscribeFails, ControlRoom, serverVars, clientVars, boundVars
  <2>2. CASE HandleEmitGap
    BY <2>2, FramesMade DEF HandleEmitGap, ControlRoom, clientVars, boundVars
  <2> QED
    BY <2>1, <2>2
<1>2. ActorInv' /\ UNCHANGED <<hist, snapshot, subscribers>>
  BY <1>1, DaemonNow, ActorStill
<1>3. control' \in Seq(ControlFrame) /\ Len(control') <= OutboundCapacity
  BY <1>1, DaemonNow, LaneGrows
<1>4. inbound' \in Seq(ClientFrame)
  <2>1. inbound \in Seq(ClientFrame)
    BY DaemonNow
  <2>2. inbound # << >> => Tail(inbound) \in Seq(ClientFrame)
    BY <2>1, SeqSteps
  <2> QED
    BY <1>1, <2>1, <2>2
<1>5. handler' \in Handler /\ handler'.frames = handler.frames
  BY <1>1, DaemonNow DEF Handler
<1>6. ServerOK'
  BY <1>1, <1>5, DaemonNow DEF ServerOK
<1> QED
  BY <1>1, <1>2, <1>3, <1>4, <1>5, <1>6, DaemonNow, DaemonStep

\* Aborting tasks: a waiting one is gone with its subscription, a running one
\* keeps what it holds.
LEMMA AbortFacts ==
    ASSUME ReplicationInv, NEW tasks, Abort(tasks)
    PROVE  /\ ActorInv' /\ UNCHANGED <<hist, snapshot>>
           /\ forwarder' \in [Sub -> Forwarder]
           /\ \A s \in Sub : /\ forwarder'[s].at = "emit" => forwarder'[s].held # {}
                             /\ forwarder'[s].held \subseteq forwarder[s].held
                             /\ \/ ~subscribers'[s].open
                                \/ subscribers'[s] = subscribers[s]
<1>1. /\ UNCHANGED <<running, snapshot, replay, hist>>
      /\ subscribers' = AbortSubscriptions(tasks)
      /\ forwarder' = AbortForwarders(tasks)
  BY DEF Abort
<1>2. ASSUME NEW s \in Sub
      PROVE  subscribers'[s] = NoSubscription \/ subscribers'[s] = subscribers[s]
  BY <1>1 DEF AbortSubscriptions
<1>3. snapshot \in Snapshot
  BY DaemonNow DEF ActorInv, ActorTypeOK
<1>4. \A s \in Sub : SubscriptionInv(subscribers'[s], running, snapshot, hist)
  BY <1>2, <1>3, DaemonNow, SubscriptionInvHolds, NoSubscriptionInv
<1>5. subscribers' = [s \in Sub |-> subscribers'[s]]
  BY <1>1 DEF AbortSubscriptions
<1>6. ActorInv'
  BY <1>1, <1>4, <1>5, DaemonNow, SubscribersStep
<1>7. ASSUME NEW s \in Sub
      PROVE  /\ forwarder'[s] \in Forwarder
             /\ forwarder'[s].at = "emit" => forwarder'[s].held # {}
             /\ forwarder'[s].held \subseteq forwarder[s].held
  <2>1. forwarder[s] \in Forwarder /\ (forwarder[s].at = "emit" => forwarder[s].held # {})
    BY DaemonNow
  <2>2. NoForwarder \in Forwarder /\ NoForwarder.at = "off" /\ NoForwarder.held = {}
    BY DEF NoForwarder, Forwarder
  <2> DEFINE aborted == [forwarder[s] EXCEPT !.aborted = TRUE]
  <2>3. /\ aborted \in Forwarder /\ aborted.at = forwarder[s].at
        /\ aborted.held = forwarder[s].held
    BY <2>1 DEF Forwarder
  <2> HIDE DEF aborted
  <2>4. forwarder'[s] \in {forwarder[s], NoForwarder, aborted}
    BY <1>1 DEF AbortForwarders, aborted
  <2> QED
    BY <2>1, <2>2, <2>3, <2>4
<1>8. forwarder' \in [Sub -> Forwarder]
  BY <1>1, <1>7 DEF AbortForwarders
<1> QED
  BY <1>1, <1>2, <1>6, <1>7, <1>8 DEF NoSubscription

\* subscriptions.remove(...).abort(), for a new subscription or an Unsubscribe.
LEMMA HandleAbortKeepsInv ==
    ASSUME ReplicationInv, HandleAbortPrevious \/ HandleUnsubscribe PROVE ReplicationInv'
<1>1. /\ Abort(current) /\ current' = {}
      /\ UNCHANGED <<connected, control, state, wire, desired, replica,
                     resync, disconnects, commands, relaunches>>
      /\ \/ inbound' = inbound
         \/ inbound # << >> /\ inbound' = Tail(inbound)
      /\ \/ handler' = handler
         \/ \E a \in {"gap", "emit"} : handler' = [handler EXCEPT !.at = a]
  <2>1. CASE HandleAbortPrevious
    BY <2>1 DEF HandleAbortPrevious, laneVars, clientVars, boundVars
  <2>2. CASE HandleUnsubscribe
    BY <2>2 DEF HandleUnsubscribe, clientVars, boundVars
  <2> QED
    BY <2>1, <2>2
<1>2. inbound' \in Seq(ClientFrame)
  <2>1. inbound \in Seq(ClientFrame)
    BY DaemonNow
  <2>2. inbound # << >> => Tail(inbound) \in Seq(ClientFrame)
    BY <2>1, SeqSteps
  <2> QED
    BY <1>1, <2>1, <2>2
<1>3. handler' \in Handler /\ handler'.frames = handler.frames
  BY <1>1, DaemonNow DEF Handler
<1>4. ServerOK'
  BY <1>1, <1>3, AbortFacts DEF ServerOK
<1> QED
  BY <1>1, <1>2, <1>3, <1>4, AbortFacts, DaemonNow, DaemonStep

\* emit_subscription_start's frames.
LEMMA HandleEmitKeepsInv ==
    ASSUME ReplicationInv, HandleEmit PROVE ReplicationInv'
<1> DEFINE f == Head(handler.frames)
<1>1. /\ UNCHANGED actorVars
      /\ UNCHANGED <<connected, inbound, control, wire, current, forwarder, desired, replica,
                     resync, disconnects, commands, relaunches>>
      /\ handler.frames # << >>
      /\ \/ /\ Len(state) < OutboundCapacity
            /\ state' = Append(state, f)
            /\ handler' = [handler EXCEPT !.frames = Tail(handler.frames)]
         \/ state' = state /\ handler' = [handler EXCEPT !.frames = << >>]
  BY DEF HandleEmit, StateRoom, clientVars, boundVars
<1>2. ActorInv' /\ UNCHANGED <<hist, snapshot, subscribers>>
  BY <1>1, DaemonNow, ActorStill
<1>3. handler.frames \in Seq(StateFrame)
  BY DaemonNow DEF Handler
<1>4. f \in StateFrame /\ Tail(handler.frames) \in Seq(StateFrame) /\ << >> \in Seq(StateFrame)
  BY <1>1, <1>3, SeqSteps
<1>5. relaunches = 0 => /\ f \in CurrentFrame /\ Tail(handler.frames) \in Seq(CurrentFrame)
                        /\ << >> \in Seq(CurrentFrame)
  BY <1>1, SeqSteps, DaemonNow
<1>6. /\ handler' \in Handler
      /\ handler'.frames = Tail(handler.frames) \/ handler'.frames = << >>
  BY <1>1, <1>4, DaemonNow DEF Handler
<1> HIDE DEF f
<1>7. ServerOK'
  BY <1>1, <1>6, DaemonNow DEF ServerOK
<1>8. /\ state' \in Seq(StateFrame) /\ Len(state') <= OutboundCapacity
      /\ relaunches = 0 => state' \in Seq(CurrentFrame)
  <2>1. CASE state' = state
    BY <2>1, DaemonNow
  <2>2. CASE Len(state) < OutboundCapacity /\ state' = Append(state, f)
    <3>1. state' \in Seq(StateFrame) /\ Len(state') <= OutboundCapacity
      BY <1>4, <2>2, LaneGrows, DaemonNow
    <3>2. relaunches = 0 => state' \in Seq(CurrentFrame)
      BY <1>5, <2>2, LaneGrows, DaemonNow
    <3> QED
      BY <3>1, <3>2
  <2> QED
    BY <1>1, <2>1, <2>2
<1> QED
  BY <1>1, <1>2, <1>5, <1>6, <1>7, <1>8, DaemonNow, DaemonStep

\* The forwarding task of the new subscription.
LEMMA HandleSpawnKeepsInv ==
    ASSUME ReplicationInv, HandleSpawnForwarder PROVE ReplicationInv'
<1> DEFINE new == [NoForwarder EXCEPT !.at = "recv"]
<1>1. /\ UNCHANGED actorVars
      /\ UNCHANGED <<connected, inbound, control, state, wire, desired, replica,
                     resync, disconnects, commands, relaunches>>
      /\ current' = handler.sub /\ handler' = Idle
      /\ forwarder' = [s \in Sub |-> IF s \in handler.sub THEN new ELSE forwarder[s]]
  BY DEF HandleSpawnForwarder, laneVars, clientVars, boundVars
<1>2. ActorInv' /\ UNCHANGED <<hist, snapshot, subscribers>>
  BY <1>1, DaemonNow, ActorStill
<1>3. new \in Forwarder /\ new.at = "recv" /\ new.held = {}
  BY DEF NoForwarder, Forwarder
<1> HIDE DEF new
<1>4. << >> \in Seq(StateFrame) /\ << >> \in Seq(CurrentFrame)
  OBVIOUS
<1>5. Idle \in Handler /\ Idle.frames = << >>
  BY <1>4 DEF Idle, Handler
<1>6. handler.sub \subseteq Sub
  BY DaemonNow DEF Handler
<1>7. ServerOK'
  BY <1>1, <1>3, <1>5, <1>6, DaemonNow DEF ServerOK
<1>8. relaunches = 0 => \A s \in Sub : forwarder'[s].held \subseteq CurrentUpdate
  BY <1>1, <1>3, DaemonNow
<1> QED
  BY <1>1, <1>2, <1>4, <1>5, <1>7, <1>8, DaemonNow, DaemonStep

---------------------------------------------------------------------------
\* The agent's life, and the loss of the connection.

\* The actor's command is an update that it records.
LEMMA AgentUpdateRecorded ==
    ASSUME ActorInv, AgentUpdates
    PROVE  \E u : /\ snapshot' = ApplyUpdate(snapshot, u) /\ u \in Update
                  /\ hist' = Append(hist, snapshot')
                  /\ subscribers' = [s \in Sub |-> Deliver(subscribers[s], u)]
<1>1. /\ snapshot.incarnation \in Nat
      /\ snapshot.event_sequence \in Counter /\ snapshot.revision \in Counter
      /\ snapshot.event_sequence < U64Max => snapshot.event_sequence + 1 \in Counter
      /\ snapshot.revision < U64Max => snapshot.revision + 1 \in Counter
  BY CapacityAssumption DEF ActorInv, ActorTypeOK, Snapshot, Counter
<1>2. CASE publish_event
  <2> DEFINE event == [kind |-> "event", incarnation |-> snapshot.incarnation,
                       event_sequence |-> snapshot.event_sequence + 1]
  <2>1. event \in Update
    BY <1>1, <1>2 DEF Update, Event, publish_event, SequenceLeft
  <2>2. /\ snapshot' = ApplyUpdate(snapshot, event) /\ hist' = Append(hist, snapshot')
        /\ subscribers' = [s \in Sub |-> Deliver(subscribers[s], event)]
    BY <1>2 DEF publish_event, Record
  <2> QED
    BY <2>1, <2>2
<1>3. ASSUME NEW c \in Change, apply_change_command(c)
      PROVE  \E u : /\ snapshot' = ApplyUpdate(snapshot, u) /\ u \in Update
                    /\ hist' = Append(hist, snapshot')
                    /\ subscribers' = [s \in Sub |-> Deliver(subscribers[s], u)]
  <2> DEFINE delta == [kind |-> "delta", incarnation |-> snapshot.incarnation,
                       event_sequence |-> snapshot.event_sequence + 1,
                       base_revision |-> snapshot.revision,
                       revision |-> snapshot.revision + 1, change |-> c]
  <2>1. delta \in Update
    BY <1>1, <1>3 DEF Update, Delta, apply_change_command, SequenceLeft, RevisionLeft
  <2>2. /\ snapshot' = ApplyUpdate(snapshot, delta) /\ hist' = Append(hist, snapshot')
        /\ subscribers' = [s \in Sub |-> Deliver(subscribers[s], delta)]
    BY <1>3 DEF apply_change_command, Record
  <2> QED
    BY <2>1, <2>2
<1> QED
  BY <1>2, <1>3 DEF AgentUpdates

\* The actor records an update: what was current stays current.
LEMMA AgentUpdatesKeepsInv ==
    ASSUME ReplicationInv, AgentUpdates PROVE ReplicationInv'
<1>1. /\ ActorInv
      /\ UNCHANGED <<connected, inbound, control, state, wire, handler, current, forwarder,
                     desired, replica, resync, disconnects, commands, relaunches>>
  BY DEF ReplicationInv, AgentUpdates, laneVars, serverVars, clientVars, boundVars
<1>2. ActorInv'
  BY <1>1, ApplyChangeKeepsInv, PublishEventKeepsInv DEF AgentUpdates
<1>3. PICK u : /\ snapshot' = ApplyUpdate(snapshot, u) /\ u \in Update
               /\ hist' = Append(hist, snapshot')
               /\ subscribers' = [s \in Sub |-> Deliver(subscribers[s], u)]
  BY <1>1, AgentUpdateRecorded
<1>4. /\ snapshot' \in Snapshot /\ snapshot'.incarnation = snapshot.incarnation
  BY <1>1, <1>3, ApplyUpdateType DEF ActorInv, ActorTypeOK
<1>5. /\ CurrentSnapshot \subseteq CurrentSnapshot' /\ CurrentUpdate \subseteq CurrentUpdate'
      /\ CurrentFrame \subseteq CurrentFrame'
  BY <1>1, <1>3, <1>4, RecordKeepsCurrent
<1>6. \A s \in Sub : /\ subscribers'[s].open = subscribers[s].open
                     /\ subscribers'[s].incarnation = subscribers[s].incarnation
  BY <1>1, <1>3, DeliverCases DEF ActorInv, ActorTypeOK
<1>7. LanesOK' /\ ServerOK' /\ ClientOK' /\ BoundsOK'
  BY <1>1 DEF ReplicationInv, LanesOK, ServerOK, ClientOK, BoundsOK
<1>8. Faithful'
  <2> SUFFICES ASSUME relaunches = 0 PROVE LanesCurrent' /\ ServerCurrent' /\ ClientCurrent'
    BY <1>1 DEF Faithful
  <2>1. LanesCurrent /\ ServerCurrent /\ ClientCurrent
    BY DEF ReplicationInv, Faithful
  <2>2. LanesCurrent'
    <3>1. state \in Seq(CurrentFrame')
      BY <1>5, <2>1, SeqGrows DEF LanesCurrent
    <3>2. CurrentFrame \cup ControlFrame \subseteq CurrentFrame' \cup ControlFrame
      BY <1>5
    <3>3. wire \in Seq(CurrentFrame' \cup ControlFrame)
      BY <2>1, <3>2, SeqGrows DEF LanesCurrent
    <3> QED
      BY <1>1, <3>1, <3>3 DEF LanesCurrent
  <2>3. ServerCurrent'
    <3>1. handler.frames \in Seq(CurrentFrame')
      BY <1>5, <2>1, SeqGrows DEF ServerCurrent
    <3> QED
      BY <1>1, <1>4, <1>5, <1>6, <2>1, <3>1 DEF ServerCurrent
  <2>4. ClientCurrent'
    BY <1>1, <1>4, <1>5, <2>1 DEF ClientCurrent
  <2> QED
    BY <2>2, <2>3, <2>4
<1> QED
  BY <1>2, <1>7, <1>8 DEF ReplicationInv

\* A stopped actor leaves its subscriptions to their tasks.
LEMMA AgentStopsKeepsInv ==
    ASSUME ReplicationInv, AgentStops PROVE ReplicationInv'
<1>1. /\ ActorInv /\ shutdown
      /\ UNCHANGED <<connected, inbound, control, state, wire, handler, current, forwarder,
                     desired, replica, resync, disconnects, commands, relaunches>>
  BY DEF ReplicationInv, AgentStops, laneVars, serverVars, clientVars, boundVars
<1>2. ActorInv'
  BY <1>1, ShutdownKeepsInv
<1>3. /\ UNCHANGED <<hist, snapshot>>
      /\ \A s \in Sub : /\ subscribers'[s].open = subscribers[s].open
                        /\ subscribers'[s].incarnation = subscribers[s].incarnation
  <2>1. subscribers \in [Sub -> Subscription]
    BY <1>1 DEF ActorInv, ActorTypeOK
  <2> QED
    BY <1>1, <2>1 DEF shutdown, Detached, Subscription
<1>4. ServerOK'
  BY <1>1 DEF ReplicationInv, ServerOK
<1> QED
  BY <1>1, <1>2, <1>3, <1>4, DaemonNow, DaemonStep

\* A new actor while the connection stays: from here on nothing is promised of
\* the replica, but the lanes keep their bounds.
LEMMA AgentLaunchesKeepsInv ==
    ASSUME ReplicationInv, AgentLaunches PROVE ReplicationInv'
<1>1. /\ ActorInv
      /\ \E b \in SpawnBody : spawn(b)
      /\ relaunches' = relaunches + 1
      /\ UNCHANGED <<connected, inbound, control, state, wire, handler, current, forwarder,
                     desired, replica, resync, disconnects, commands>>
  BY DEF ReplicationInv, AgentLaunches, laneVars, serverVars, clientVars
<1>2. ActorInv'
  BY <1>1, SpawnKeepsInv
<1>3. relaunches' \in Nat /\ relaunches' # 0
  BY <1>1 DEF ReplicationInv, BoundsOK
<1>4. LanesOK' /\ ServerOK' /\ ClientOK' /\ BoundsOK'
  BY <1>1, <1>3 DEF ReplicationInv, LanesOK, ServerOK, ClientOK, BoundsOK
<1> QED
  BY <1>2, <1>3, <1>4 DEF ReplicationInv, Faithful

\* The end of a connection takes its lanes, its tasks and its subscriptions.
LEMMA HangupFacts ==
    ASSUME Hangup
    PROVE  /\ LanesOK' /\ ServerOK' /\ connected' = FALSE
           /\ LanesCurrent' /\ ServerCurrent'
           /\ subscribers' = [s \in Sub |-> NoSubscription]
<1>1. /\ inbound' = << >> /\ control' = << >> /\ state' = << >> /\ wire' = << >>
      /\ handler' = Idle /\ current' = {} /\ forwarder' = [s \in Sub |-> NoForwarder]
      /\ subscribers' = [s \in Sub |-> NoSubscription] /\ connected' = FALSE
  BY DEF Hangup
<1>2. /\ << >> \in Seq(ClientFrame) /\ << >> \in Seq(ControlFrame) /\ << >> \in Seq(StateFrame)
      /\ << >> \in Seq(StateFrame \cup ControlFrame) /\ << >> \in Seq(CurrentFrame')
      /\ << >> \in Seq(CurrentFrame' \cup ControlFrame) /\ Len(<< >>) = 0
  OBVIOUS
<1>3. LanesOK'
  BY <1>1, <1>2, CapacitiesPositive DEF LanesOK
<1>4. /\ NoForwarder \in Forwarder /\ NoForwarder.at = "off" /\ NoForwarder.held = {}
      /\ Idle \in Handler /\ Idle.frames = << >>
  BY <1>2 DEF NoForwarder, Forwarder, Idle, Handler
<1>5. ServerOK'
  BY <1>1, <1>4 DEF ServerOK
<1>6. LanesCurrent'
  BY <1>1, <1>2 DEF LanesCurrent
<1>7. ServerCurrent'
  BY <1>1, <1>2, <1>4 DEF ServerCurrent, NoSubscription
<1> QED
  BY <1>1, <1>3, <1>5, <1>6, <1>7

LEMMA DisconnectKeepsInv ==
    ASSUME ReplicationInv, Disconnect PROVE ReplicationInv'
<1>1. /\ Hangup /\ disconnects' = disconnects + 1
      /\ UNCHANGED <<running, snapshot, replay, hist, desired, replica, resync, commands,
                     relaunches>>
  BY DEF Disconnect, clientVars
<1>2. ActorInv'
  <2>1. ActorInv /\ snapshot \in Snapshot
    BY DEF ReplicationInv, ActorInv, ActorTypeOK
  <2>2. /\ \A s \in Sub : subscribers'[s] = NoSubscription
        /\ subscribers' = [s \in Sub |-> subscribers'[s]]
    BY <1>1, HangupFacts
  <2>3. \A s \in Sub : SubscriptionInv(subscribers'[s], running, snapshot, hist)
    BY <2>1, <2>2, NoSubscriptionInv
  <2> QED
    BY <1>1, <2>1, <2>2, <2>3, SubscribersStep
<1>3. ClientOK' /\ BoundsOK'
  BY <1>1, HangupFacts DEF ReplicationInv, ClientOK, BoundsOK
<1>4. Faithful'
  BY <1>1, HangupFacts, SameCurrent DEF ReplicationInv, Faithful, ClientCurrent
<1> QED
  BY <1>1, <1>2, <1>3, <1>4, HangupFacts DEF ReplicationInv

\* A daemon that starts again has a new actor for the agent, and every replica
\* is of an earlier one.
LEMMA DaemonRestartsKeepsInv ==
    ASSUME ReplicationInv, DaemonRestarts PROVE ReplicationInv'
<1>1. PICK b \in RestoreBody : snapshot' = Fresh(snapshot.incarnation + 1, b)
  BY DEF DaemonRestarts
<1>2. /\ Hangup /\ replay' = << >> /\ hist' = <<snapshot'>> /\ running' = TRUE
      /\ UNCHANGED <<desired, replica, resync, disconnects, commands, relaunches>>
  BY DEF DaemonRestarts, clientVars, boundVars
<1>3. snapshot.incarnation \in Nat
  BY DEF ReplicationInv, ActorInv, ActorTypeOK, Snapshot
<1>4. /\ snapshot' \in Snapshot /\ snapshot'.event_sequence = 0
      /\ snapshot'.incarnation = snapshot.incarnation + 1
  BY <1>1, <1>3, ConnectionAssumption, CapacityAssumption DEF Fresh, Snapshot, Counter
<1>5. ActorInv'
  <2>1. /\ \A s \in Sub : subscribers'[s] = NoSubscription
        /\ subscribers' = [s \in Sub |-> subscribers'[s]]
    BY <1>2, HangupFacts
  <2>2. \A s \in Sub : SubscriptionInv(subscribers'[s], running', snapshot', hist')
    BY <1>4, <2>1, NoSubscriptionInv
  <2>3. ActorTypeOK'
    <3>1. subscribers' \in [Sub -> Subscription]
      BY <2>1, <2>2 DEF SubscriptionInv
    <3>2. \A s \in Sub : Len(subscribers'[s].queue) <= SubscriberCapacity
      BY <2>2 DEF SubscriptionInv
    <3>3. replay' \in Seq(Update) /\ Len(replay') <= ReplayCapacity
      BY <1>2, CapacityAssumption
    <3>4. hist' \in Seq(Snapshot) /\ running' \in BOOLEAN
      BY <1>2, <1>4
    <3> QED
      BY <1>4, <3>1, <3>2, <3>3, <3>4 DEF ActorTypeOK
  <2>4. HistoryOK'
    BY <1>2, <1>4 DEF HistoryOK
  <2>5. Attachment'
    BY <2>2 DEF Attachment, SubscriptionInv
  <2>6. ReplayWindow'
    BY <1>2, <1>4, CapacityAssumption DEF ReplayWindow
  <2>7. StreamComplete'
    BY <2>1 DEF StreamComplete, NoSubscription
  <2> QED
    BY <2>3, <2>4, <2>5, <2>6, <2>7 DEF ActorInv
<1>6. ClientOK' /\ BoundsOK'
  BY <1>2, HangupFacts DEF ReplicationInv, ClientOK, BoundsOK
<1>7. Faithful'
  <2> SUFFICES ASSUME relaunches = 0 PROVE ClientCurrent'
    BY <1>2, HangupFacts DEF Faithful
  <2>1. \A s \in replica : s.incarnation <= snapshot.incarnation /\ s.incarnation \in Nat
    BY DEF ReplicationInv, Faithful, ClientCurrent, ClientOK, Snapshot
  <2>2. \A s \in replica : /\ s.incarnation <= snapshot'.incarnation
                           /\ s.incarnation # snapshot'.incarnation
    BY <1>3, <1>4, <2>1
  <2> QED
    BY <1>2, <2>2 DEF ClientCurrent
<1> QED
  BY <1>2, <1>5, <1>6, <1>7, HangupFacts DEF ReplicationInv

---------------------------------------------------------------------------
\* The theorems.

LEMMA ReplicationInitInv == Init => ReplicationInv
<1> SUFFICES ASSUME Init PROVE ReplicationInv
  OBVIOUS
<1>1. ActorInv
  BY ActorInitInv DEF Init
<1>2. /\ inbound = << >> /\ control = << >> /\ state = << >> /\ wire = << >>
      /\ handler = Idle /\ current = {} /\ forwarder = [s \in Sub |-> NoForwarder]
      /\ subscribers = [s \in Sub |-> NoSubscription] /\ connected = FALSE
      /\ desired = TRUE /\ replica = {} /\ resync = FALSE
      /\ disconnects = 0 /\ commands = 0 /\ relaunches = 0
  BY DEF Init, ActorInit
<1>3. /\ << >> \in Seq(ClientFrame) /\ << >> \in Seq(ControlFrame) /\ << >> \in Seq(StateFrame)
      /\ << >> \in Seq(StateFrame \cup ControlFrame) /\ << >> \in Seq(CurrentFrame)
      /\ << >> \in Seq(CurrentFrame \cup ControlFrame) /\ Len(<< >>) = 0
  OBVIOUS
<1>4. LanesOK
  BY <1>2, <1>3, CapacitiesPositive DEF LanesOK
<1>5. /\ NoForwarder \in Forwarder /\ NoForwarder.at = "off" /\ NoForwarder.held = {}
      /\ Idle \in Handler /\ Idle.frames = << >>
  BY <1>3 DEF NoForwarder, Forwarder, Idle, Handler
<1>6. ServerOK
  BY <1>2, <1>5 DEF ServerOK
<1>7. ClientOK
  BY <1>2 DEF ClientOK
<1>8. BoundsOK
  BY <1>2 DEF BoundsOK
<1>9. LanesCurrent /\ ServerCurrent /\ ClientCurrent
  BY <1>2, <1>3, <1>5 DEF LanesCurrent, ServerCurrent, ClientCurrent, NoSubscription
<1> QED
  BY <1>1, <1>4, <1>6, <1>7, <1>8, <1>9 DEF ReplicationInv, Faithful

LEMMA ReplicationNextInv == ReplicationInv /\ [Next]_vars => ReplicationInv'
<1> SUFFICES ASSUME ReplicationInv, [Next]_vars PROVE ReplicationInv'
  OBVIOUS
<1>1. CASE AgentUpdates \/ AgentStops \/ AgentLaunches \/ DaemonRestarts
  BY <1>1, AgentUpdatesKeepsInv, AgentStopsKeepsInv, AgentLaunchesKeepsInv,
     DaemonRestartsKeepsInv
<1>2. CASE Handle
  BY <1>2, HandleSubscribeKeepsInv, HandleControlKeepsInv, HandleAbortKeepsInv,
     HandleEmitKeepsInv, HandleSpawnKeepsInv DEF Handle
<1>3. CASE \E s \in Sub : Forward(s)
  BY <1>3, ForwarderCheckKeepsInv, ForwarderReceiveKeepsInv, ForwarderEmitKeepsInv,
     ForwarderResyncKeepsInv, ForwarderEndKeepsInv DEF Forward
<1>4. CASE Write \/ ClientReceive \/ Disconnect
  BY <1>4, WriteKeepsInv, ClientReceiveKeepsInv, DisconnectKeepsInv
<1>5. CASE ClientSubscribe \/ ClientUnsubscribe \/ Connect
  BY <1>5, ClientCommandKeepsInv
<1>6. CASE UNCHANGED vars
  <2>1. /\ UNCHANGED actorVars /\ UNCHANGED inbound
        /\ UNCHANGED <<control, state, wire, serverVars, replica, resync, relaunches>>
        /\ UNCHANGED <<connected, desired, disconnects, commands>>
    BY <1>6 DEF vars, laneVars, serverVars, clientVars, boundVars
  <2>2. /\ inbound' \in Seq(ClientFrame)
        /\ connected' \in BOOLEAN /\ desired' \in BOOLEAN
        /\ disconnects' \in Nat /\ commands' \in Nat
    BY <2>1 DEF ReplicationInv, LanesOK, ClientOK, BoundsOK
  <2> QED
    BY <2>1, <2>2, InboundStepKeepsInv
<1> QED
  BY <1>1, <1>2, <1>3, <1>4, <1>5, <1>6 DEF Next

\* The inductive invariant holds in every state of the replicated system.
THEOREM ReplicationInvariant == Spec => []ReplicationInv
  BY ReplicationInitInv, ReplicationNextInv, PTL DEF Spec

\* What has lapsed on a connection is one of two things.
LEMMA LapsesType ==
    ASSUME lapses \subseteq {"start_dropped", "unsubscribed"}, [Next]_vars
    PROVE  lapses' \subseteq {"start_dropped", "unsubscribed"}
<1>1. CASE Next
  <2>1. CASE HandleEmit
    BY <2>1 DEF HandleEmit
  <2>2. CASE ClientUnsubscribe
    BY <2>2 DEF ClientUnsubscribe
  <2>3. CASE DaemonRestarts \/ Disconnect
    BY <2>3 DEF DaemonRestarts, Disconnect, Hangup
  <2>4. CASE Handle /\ ~HandleEmit
    BY <2>4 DEF Handle, HandleSubscribe, HandleSubscribeFails, HandleAbortPrevious,
                HandleEmitGap, HandleSpawnForwarder, HandleUnsubscribe, boundVars
  <2>5. CASE \E s \in Sub : Forward(s)
    BY <2>5 DEF Forward, ForwarderCheck, ForwarderReceive, ForwarderEmit, ForwarderResync,
                ForwarderGap, ForwarderClosed, ForwarderAborted, boundVars
  <2>6. CASE \/ AgentUpdates \/ AgentStops \/ AgentLaunches
             \/ Write \/ ClientReceive \/ ClientSubscribe \/ Connect
    BY <2>6 DEF AgentUpdates, AgentStops, AgentLaunches, Write, ClientReceive, ClientSubscribe,
                Connect, boundVars
  <2> QED
    BY <1>1, <2>1, <2>2, <2>3, <2>4, <2>5, <2>6 DEF Next
<1>2. CASE UNCHANGED vars
  BY <1>2 DEF vars, boundVars
<1> QED
  BY <1>1, <1>2

\* The outbound lanes never exceed their capacity and carry only frames of
\* their kind, whoever fills them (server.rs: Outbound, emit_update,
\* send_slow_consumer_gap, emit_subscription_start).
THEOREM ReplicationTypeCorrect == Spec => []TypeOK
<1> DEFINE LapsesOK == lapses \subseteq {"start_dropped", "unsubscribed"}
<1>1. ReplicationInv /\ LapsesOK => TypeOK
  BY DEF ReplicationInv, ActorInv, LanesOK, ServerOK, ClientOK, BoundsOK, TypeOK, ClientFrame,
         Handler, Forwarder
<1>2. Init => LapsesOK
  BY DEF Init
<1>3. LapsesOK /\ [Next]_vars => LapsesOK'
  BY LapsesType
<1> QED
  BY <1>1, <1>2, <1>3, ReplicationInvariant, PTL DEF Spec

\* While the agent is not relaunched under an open connection, the client never
\* shows a state that the running actor was not in, for any number of
\* overlapping subscriptions, all capacities and however often the connection
\* is lost or the daemon restarts (reducer.rs: apply; server.rs: subscribe).
THEOREM ReplicaFaithfulCorrect == Spec => []ReplicaFaithful
<1>1. ReplicationInv => ReplicaFaithful
  BY DEF ReplicationInv, Faithful, ClientCurrent, CurrentSnapshot, ReplicaFaithful
<1> QED
  BY <1>1, ReplicationInvariant, PTL
---------------------------------------------------------------------------
\* Why a quiet client is current.

\* No subscription has begun on the connection.
Untouched ==
    /\ control = << >> /\ state = << >> /\ wire = << >>
    /\ handler = Idle /\ current = {}
    /\ \A s \in Sub : forwarder[s] = NoForwarder

\* What the client has asked for while nothing has lapsed: once, at the start,
\* to go on from its replica, and then only for fresh snapshots.
Opening == Untouched /\ inbound = <<Subscribe(ReplicaCursor)>>
OnlyResyncs == \A i \in DOMAIN inbound : inbound[i] = Subscribe({})

RequestInv ==
    /\ ~connected => Untouched /\ inbound = << >> /\ lapses = {}
    /\ (connected /\ lapses = {}) => Opening \/ OnlyResyncs
    /\ (connected /\ lapses = {} /\ ~desired) => Untouched /\ inbound = << >>

\* The daemon's tasks: a handler that is not idle has a subscription without a
\* task, a task has its subscription, and the current one is not aborted.
TaskInv ==
    /\ handler.at = "idle" => handler = Idle
    /\ handler.at # "idle" =>
          \E s \in Sub : /\ handler.sub = {s} /\ subscribers[s].open
                         /\ forwarder[s].at = "off" /\ s \notin current
    /\ \A s \in Sub :
          /\ forwarder[s].at # "off" => subscribers[s].open
          /\ s \in current => forwarder[s].at # "off" /\ ~forwarder[s].aborted
          /\ forwarder[s].at = "emit" =>
                \A u \in forwarder[s].held : u.event_sequence = subscribers[s].position

\* The subscription that is to bring the client to the present.
Live == IF handler.at = "idle" THEN current ELSE handler.sub

\* A fresh snapshot is asked for, or the client is about to be told to ask.
Asked(q) == \E i \in DOMAIN q : q[i].kind = "subscribe"
HasGap(q) == \E i \in DOMAIN q : q[i] = GapFrame

Recovering ==
    \/ Asked(inbound)
    \/ HasGap(control)
    \/ HasGap(wire)
    \/ \E s \in Live : subscribers[s].resync_required \/ forwarder[s].at = "gap"

\* Frames that bring their receiver to event sequence n (or are rejected), and
\* frames that take it back.
AtEnd(f, n) == \/ f.kind = "snapshot" /\ f.snapshot.event_sequence = n
               \/ f.kind = "update" /\ f.update.event_sequence = n
Older(f, n) == f.kind = "snapshot" /\ f.snapshot.event_sequence # n

Clean(q, n) == \A i \in DOMAIN q : ~Older(q[i], n)
Ends(q, n) == \E i \in DOMAIN q : AtEnd(q[i], n) /\ \A j \in DOMAIN q : j > i => ~Older(q[j], n)

UpToDate(n) ==
    /\ ~resync
    /\ replica # {}
    /\ \A s \in replica : s.incarnation = snapshot.incarnation => s.event_sequence = n

\* What is on its way, in the order of its arrival the wire, the state lane and
\* the handler's frames, leaves the client at event sequence n, if it does not
\* make it ask for a snapshot.
Arrives(n) ==
    \/ Ends(handler.frames, n)
    \/ /\ Clean(handler.frames, n)
       /\ \/ Ends(state, n)
          \/ /\ Clean(state, n)
             /\ \/ Ends(wire, n)
                \/ Clean(wire, n) /\ UpToDate(n)

\* The live subscription has more to send, or the last it had to send arrives.
Following ==
    \E s \in Live :
       /\ ~subscribers[s].resync_required
       /\ \/ subscribers[s].queue # << >>
          \/ forwarder[s].at = "emit" /\ subscribers[s].position = snapshot.event_sequence
          \/ Arrives(snapshot.event_sequence)

Serving == connected /\ desired /\ running /\ lapses = {} /\ relaunches = 0

FollowInv == Serving => Recovering \/ Following

QuietInv == ReplicationInv /\ RequestInv /\ TaskInv /\ FollowInv

---------------------------------------------------------------------------
\* Lemmas about the order of frames.

LEMMA CleanEmpty == \A n : Clean(<< >>, n) /\ ~Ends(<< >>, n)
  BY DEF Clean, Ends

LEMMA AtEndIsNotOlder == \A f, n : AtEnd(f, n) => ~Older(f, n)
  BY DEF AtEnd, Older

\* A frame is added at the back.
LEMMA FrameAdded ==
    ASSUME NEW S, NEW q \in Seq(S), NEW x \in S, NEW n, NEW r, r = Append(q, x), ~Older(x, n)
    PROVE  /\ Clean(q, n) => Clean(r, n)
           /\ Ends(q, n) \/ AtEnd(x, n) => Ends(r, n)
<1>1. /\ Len(q) \in Nat /\ DOMAIN q = 1 .. Len(q) /\ DOMAIN r = 1 .. Len(q) + 1
      /\ \A i \in DOMAIN q : r[i] = q[i]
      /\ r[Len(q) + 1] = x
  OBVIOUS
<1>2. \A i \in DOMAIN r : i \in DOMAIN q \/ i = Len(q) + 1
  BY <1>1
<1>3. Clean(q, n) => Clean(r, n)
  BY <1>1, <1>2 DEF Clean
<1>4. ASSUME Ends(q, n) PROVE Ends(r, n)
  <2>1. PICK i \in DOMAIN q : AtEnd(q[i], n) /\ \A j \in DOMAIN q : j > i => ~Older(q[j], n)
    BY <1>4 DEF Ends
  <2>2. i \in DOMAIN r /\ AtEnd(r[i], n)
    BY <1>1, <2>1
  <2>3. \A j \in DOMAIN r : j > i => ~Older(r[j], n)
    BY <1>1, <1>2, <2>1
  <2> QED
    BY <2>2, <2>3 DEF Ends
<1>5. ASSUME AtEnd(x, n) PROVE Ends(r, n)
  <2>1. Len(q) + 1 \in DOMAIN r /\ AtEnd(r[Len(q) + 1], n)
    BY <1>1, <1>5
  <2>2. \A j \in DOMAIN r : ~(j > Len(q) + 1)
    BY <1>1
  <2> QED
    BY <2>1, <2>2 DEF Ends
<1> QED
  BY <1>3, <1>4, <1>5

\* The frame at the front is taken.
LEMMA FrameTaken ==
    ASSUME NEW S, NEW q \in Seq(S), q # << >>, NEW n, NEW x, x = Head(q), NEW r, r = Tail(q)
    PROVE  /\ Clean(q, n) => Clean(r, n) /\ ~Older(x, n)
           /\ Ends(q, n) => Ends(r, n) \/ (AtEnd(x, n) /\ Clean(r, n))
<1>1. /\ Len(q) \in Nat /\ Len(q) > 0 /\ DOMAIN q = 1 .. Len(q) /\ DOMAIN r = 1 .. Len(q) - 1
      /\ \A i \in DOMAIN r : r[i] = q[i + 1] /\ i + 1 \in DOMAIN q
      /\ q[1] = x /\ 1 \in DOMAIN q
  OBVIOUS
<1>2. Clean(q, n) => Clean(r, n) /\ ~Older(x, n)
  BY <1>1 DEF Clean
<1>3. ASSUME Ends(q, n) PROVE Ends(r, n) \/ (AtEnd(x, n) /\ Clean(r, n))
  <2>1. PICK i \in DOMAIN q : AtEnd(q[i], n) /\ \A j \in DOMAIN q : j > i => ~Older(q[j], n)
    BY <1>3 DEF Ends
  <2>2. CASE i = 1
    <3>1. \A j \in DOMAIN r : ~Older(r[j], n)
      BY <1>1, <2>1, <2>2
    <3> QED
      BY <1>1, <2>1, <2>2, <3>1 DEF Clean
  <2>3. CASE i # 1
    <3>1. i - 1 \in DOMAIN r /\ r[i - 1] = q[i]
      BY <1>1, <2>3
    <3>2. \A j \in DOMAIN r : j > i - 1 => ~Older(r[j], n)
      BY <1>1, <2>1, <2>3
    <3> QED
      BY <2>1, <3>1, <3>2 DEF Ends
  <2> QED
    BY <2>2, <2>3
<1> QED
  BY <1>2, <1>3

\* A frame goes from the front of one queue to the back of the next.
LEMMA FrameMoves ==
    ASSUME NEW S, NEW q \in Seq(S), q # << >>, NEW T, NEW r \in Seq(T), Head(q) \in T,
           NEW n, NEW q1, q1 = Tail(q), NEW r1, r1 = Append(r, Head(q))
    PROVE  /\ Ends(q, n) => Ends(q1, n) \/ (Clean(q1, n) /\ Ends(r1, n))
           /\ Clean(q, n) => Clean(q1, n)
           /\ Clean(q, n) /\ Ends(r, n) => Ends(r1, n)
           /\ Clean(q, n) /\ Clean(r, n) => Clean(r1, n)
<1>1. PICK x : x = Head(q)
  OBVIOUS
<1>2. /\ Clean(q, n) => Clean(q1, n) /\ ~Older(x, n)
      /\ Ends(q, n) => Ends(q1, n) \/ (AtEnd(x, n) /\ Clean(q1, n))
  BY <1>1, FrameTaken
<1>3. x \in T /\ r1 = Append(r, x)
  BY <1>1
<1>4. ~Older(x, n) => /\ Clean(r, n) => Clean(r1, n)
                      /\ Ends(r, n) \/ AtEnd(x, n) => Ends(r1, n)
  BY <1>3, FrameAdded
<1> QED
  BY <1>2, <1>4, AtEndIsNotOlder

---------------------------------------------------------------------------
\* What the client asks for.

\* A step of a connection that is in use.
LEMMA RequestBusy ==
    ASSUME RequestInv, ~Untouched, connected' = connected, desired' = desired,
           lapses' = {} => lapses = {}, OnlyResyncs => OnlyResyncs'
    PROVE  RequestInv'
<1>1. connected /\ (lapses = {} => desired /\ OnlyResyncs)
  BY DEF RequestInv, Opening
<1> QED
  BY <1>1 DEF RequestInv

LEMMA OnlyResyncsGrow ==
    ASSUME inbound \in Seq(ClientFrame), OnlyResyncs,
           inbound' \in {inbound, Append(inbound, Subscribe({}))}
           \/ (inbound # << >> /\ inbound' = Tail(inbound))
    PROVE  OnlyResyncs'
<1>1. PICK f : f = Subscribe({})
  OBVIOUS
<1>2. \A i \in DOMAIN inbound : inbound[i] = f
  BY <1>1 DEF OnlyResyncs
<1>3. CASE inbound' = inbound
  BY <1>1, <1>2, <1>3 DEF OnlyResyncs
<1>4. CASE inbound' = Append(inbound, f)
  <2>1. \A i \in DOMAIN inbound' : inbound'[i] = f
    BY <1>2, <1>4
  <2> QED
    BY <1>1, <2>1 DEF OnlyResyncs
<1>5. CASE inbound # << >> /\ inbound' = Tail(inbound)
  <2>1. \A i \in DOMAIN inbound' : inbound'[i] = f
    BY <1>2, <1>5
  <2> QED
    BY <1>1, <2>1 DEF OnlyResyncs
<1> QED
  BY <1>1, <1>3, <1>4, <1>5

\* Steps of the actor, and of nobody.
LEMMA RequestStill ==
    ASSUME RequestInv, UNCHANGED <<connected, inbound, control, state, wire, handler, current,
                                   forwarder, desired, replica, resync, lapses>>
    PROVE  RequestInv'
  BY DEF RequestInv, Untouched, Opening, OnlyResyncs, ReplicaCursor

LEMMA RequestForward ==
    ASSUME ReplicationInv, RequestInv, NEW s \in Sub, Forward(s) PROVE RequestInv'
<1>1. forwarder[s] # NoForwarder
  BY DEF Forward, ForwarderCheck, ForwarderReceive, ForwarderEmit, ForwarderResync, ForwarderGap,
         ForwarderClosed, ForwarderAborted, NoForwarder
<1>2. UNCHANGED <<connected, inbound, desired, lapses>>
  BY DEF Forward, ForwarderCheck, ForwarderReceive, ForwarderEmit, ForwarderResync, ForwarderGap,
         ForwarderClosed, ForwarderAborted, laneVars, clientVars, boundVars
<1>3. ~Untouched
  BY <1>1 DEF Untouched
<1> QED
  BY <1>2, <1>3, RequestBusy DEF OnlyResyncs

\* The client does not take anything back while nothing has lapsed.
LEMMA FirstIsSubscribe ==
    ASSUME ReplicationInv, RequestInv, connected, lapses = {}, inbound # << >>
    PROVE  /\ Head(inbound).kind = "subscribe"
           /\ \/ Head(inbound).cursor = {}
              \/ Opening /\ Head(inbound).cursor = ReplicaCursor
<1>1. Opening \/ OnlyResyncs
  BY DEF RequestInv
<1>2. inbound \in Seq(ClientFrame)
  BY DaemonNow
<1>3. 1 \in DOMAIN inbound /\ Head(inbound) = inbound[1]
  BY <1>2
<1>4. CASE OnlyResyncs
  <2>1. Head(inbound) = Subscribe({})
    BY <1>3, <1>4 DEF OnlyResyncs
  <2> QED
    BY <2>1 DEF Subscribe
<1>5. CASE Opening
  <2>1. PICK f : f = Subscribe(ReplicaCursor)
    OBVIOUS
  <2>2. inbound = <<f>>
    BY <1>5, <2>1 DEF Opening
  <2>3. Head(inbound) = f
    BY <2>2
  <2>4. f.kind = "subscribe" /\ f.cursor = ReplicaCursor
    BY <2>1 DEF Subscribe
  <2> QED
    BY <1>5, <2>3, <2>4
<1> QED
  BY <1>1, <1>4, <1>5

LEMMA RequestHandle ==
    ASSUME ReplicationInv, RequestInv, TaskInv, Handle PROVE RequestInv'
<1>1. inbound \in Seq(ClientFrame)
  BY DaemonNow
<1>2. CASE HandleAbortPrevious \/ HandleEmitGap \/ HandleEmit \/ HandleSpawnForwarder
  <2>1. handler.at # "idle" /\ UNCHANGED <<connected, inbound, desired>>
        /\ (lapses' = lapses \/ lapses' = lapses \cup {"start_dropped"})
    BY <1>2 DEF HandleAbortPrevious, HandleEmitGap, HandleEmit, HandleSpawnForwarder, laneVars,
                clientVars, boundVars
  <2>2. ~Untouched
    BY <2>1 DEF Untouched, Idle
  <2> QED
    BY <2>1, <2>2, RequestBusy DEF OnlyResyncs
<1>3. CASE (\E s \in Sub : HandleSubscribe(s)) \/ HandleSubscribeFails
  <2>1. /\ connected /\ UNCHANGED <<connected, desired, lapses>>
        /\ inbound # << >> /\ inbound' = Tail(inbound)
    BY <1>3 DEF HandleSubscribe, HandleSubscribeFails, clientVars, boundVars
  <2>2. lapses = {} => desired /\ (Opening \/ OnlyResyncs)
    BY <2>1 DEF RequestInv
  <2>3. Opening => OnlyResyncs'
    <3> SUFFICES ASSUME Opening PROVE OnlyResyncs'
      OBVIOUS
    <3>1. PICK f : f = Subscribe(ReplicaCursor)
      OBVIOUS
    <3>2. inbound' = Tail(<<f>>)
      BY <2>1, <3>1 DEF Opening
    <3>3. inbound' = << >>
      BY <3>2
    <3> QED
      BY <3>3 DEF OnlyResyncs
  <2>4. OnlyResyncs => OnlyResyncs'
    BY <1>1, <2>1, OnlyResyncsGrow
  <2> QED
    BY <2>1, <2>2, <2>3, <2>4 DEF RequestInv
<1>4. CASE HandleUnsubscribe
  <2>1. /\ connected /\ UNCHANGED <<connected, lapses>>
        /\ inbound # << >> /\ Head(inbound).kind = "unsubscribe"
    BY <1>4 DEF HandleUnsubscribe, boundVars
  <2>2. lapses # {}
    BY <2>1, FirstIsSubscribe
  <2> QED
    BY <2>1, <2>2 DEF RequestInv
<1> QED
  BY <1>2, <1>3, <1>4 DEF Handle

LEMMA RequestClient ==
    ASSUME ReplicationInv, RequestInv,
           ClientReceive \/ ClientSubscribe \/ ClientUnsubscribe \/ Connect \/ Write
    PROVE  RequestInv'
<1>1. inbound \in Seq(ClientFrame)
  BY DaemonNow
<1>2. CASE ClientReceive
  <2>1. /\ wire # << >> /\ UNCHANGED <<connected, desired, lapses>>
        /\ inbound' \in {inbound, Append(inbound, Subscribe({}))}
    BY <1>2 DEF ClientReceive, ClientSnapshot, ClientUpdate, ClientResync, ClientError, boundVars
  <2> QED
    BY <1>1, <2>1, RequestBusy, OnlyResyncsGrow DEF Untouched
<1>3. CASE Write
  <2>1. ~Untouched /\ UNCHANGED <<connected, inbound, desired, lapses>>
    BY <1>3 DEF Write, Untouched, clientVars, boundVars
  <2> QED
    BY <2>1, RequestBusy DEF OnlyResyncs
<1>4. CASE ClientSubscribe
  <2>1. /\ ~desired /\ desired'
        /\ UNCHANGED <<connected, control, state, wire, handler, current, forwarder, replica,
                       resync, lapses>>
        /\ inbound' = IF connected THEN Append(inbound, Subscribe(ReplicaCursor)) ELSE inbound
    BY <1>4 DEF ClientSubscribe, serverVars
  <2>2. Untouched' <=> Untouched
    BY <2>1 DEF Untouched
  <2>3. ReplicaCursor' = ReplicaCursor
    BY <2>1 DEF ReplicaCursor
  <2>4. ASSUME connected, lapses = {} PROVE Opening'
    <3>1. Untouched /\ inbound = << >>
      BY <2>1, <2>4 DEF RequestInv
    <3>2. PICK f : f = Subscribe(ReplicaCursor)
      OBVIOUS
    <3>3. inbound' = <<f>>
      BY <2>1, <2>4, <3>1, <3>2
    <3> QED
      BY <2>2, <2>3, <3>1, <3>2, <3>3 DEF Opening
  <2> QED
    BY <2>1, <2>2, <2>4 DEF RequestInv
<1>5. CASE ClientUnsubscribe
  <2>1. /\ UNCHANGED <<connected, control, state, wire, handler, current, forwarder>>
        /\ ~connected => UNCHANGED <<inbound, lapses>>
        /\ connected => lapses' = lapses \cup {"unsubscribed"}
    BY <1>5 DEF ClientUnsubscribe, serverVars
  <2>2. Untouched' <=> Untouched
    BY <2>1 DEF Untouched
  <2>3. connected => lapses' # {}
    BY <2>1
  <2> QED
    BY <2>1, <2>2, <2>3 DEF RequestInv
<1>6. CASE Connect
  <2>1. /\ ~connected /\ connected'
        /\ UNCHANGED <<control, state, wire, handler, current, forwarder, desired, replica,
                       resync, lapses>>
        /\ inbound' = IF desired THEN <<Subscribe(ReplicaCursor)>> ELSE << >>
    BY <1>6 DEF Connect, serverVars, clientVars, boundVars
  <2>2. Untouched'
    BY <2>1 DEF RequestInv, Untouched
  <2>3. ReplicaCursor' = ReplicaCursor
    BY <2>1 DEF ReplicaCursor
  <2>4. desired => Opening'
    BY <2>1, <2>2, <2>3 DEF Opening
  <2>5. ~desired => inbound' = << >> /\ OnlyResyncs'
    BY <2>1 DEF OnlyResyncs
  <2> QED
    BY <2>1, <2>2, <2>4, <2>5 DEF RequestInv
<1> QED
  BY <1>2, <1>3, <1>4, <1>5, <1>6

LEMMA RequestHangup ==
    ASSUME Hangup PROVE RequestInv'
<1>1. /\ connected' = FALSE /\ inbound' = << >> /\ lapses' = {}
      /\ control' = << >> /\ state' = << >> /\ wire' = << >> /\ handler' = Idle
      /\ current' = {} /\ forwarder' = [s \in Sub |-> NoForwarder]
  BY DEF Hangup
<1>2. Untouched'
  BY <1>1 DEF Untouched
<1> QED
  BY <1>1, <1>2 DEF RequestInv

---------------------------------------------------------------------------
\* The daemon's tasks.

\* Steps that leave the tasks alone, or move a busy handler on.
LEMMA TaskStill ==
    ASSUME TaskInv, UNCHANGED <<current, forwarder>>,
           \/ handler' = handler
           \/ handler.at # "idle" /\ handler'.at # "idle" /\ handler'.sub = handler.sub,
           \A s \in Sub : /\ subscribers'[s].open = subscribers[s].open
                          /\ subscribers'[s].position = subscribers[s].position
    PROVE  TaskInv'
  BY DEF TaskInv

LEMMA SubscribersTyped ==
    ASSUME ReplicationInv PROVE subscribers \in [Sub -> Subscription]
  BY DEF ReplicationInv, ActorInv, ActorTypeOK

LEMMA TaskStillSteps ==
    ASSUME ReplicationInv, TaskInv,
           \/ AgentUpdates \/ AgentStops \/ AgentLaunches \/ Write \/ ClientReceive
           \/ ClientSubscribe \/ ClientUnsubscribe \/ Connect \/ HandleSubscribeFails
           \/ (\E s \in Sub : ForwarderCheck(s)) \/ UNCHANGED vars
    PROVE  TaskInv'
<1>1. UNCHANGED <<handler, current, forwarder>>
  BY DEF AgentUpdates, AgentStops, AgentLaunches, Write, ClientReceive, ClientSubscribe,
         ClientUnsubscribe, Connect, HandleSubscribeFails, ForwarderCheck, vars, serverVars
<1>2. \A s \in Sub : /\ subscribers'[s].open = subscribers[s].open
                     /\ subscribers'[s].position = subscribers[s].position
  <2>1. CASE AgentUpdates
    <3>1. PICK u \in Update : subscribers' = [s \in Sub |-> Deliver(subscribers[s], u)]
      BY <2>1, AgentUpdateRecorded DEF ReplicationInv
    <3>2. \A s \in Sub : Len(subscribers[s].queue) <= SubscriberCapacity
      BY DEF ReplicationInv, ActorInv, ActorTypeOK
    <3> QED
      BY <3>1, <3>2, SubscribersTyped, DeliverCases
  <2>2. CASE AgentStops
    BY <2>2, SubscribersTyped DEF AgentStops, shutdown, Detached, Subscription
  <2>3. CASE \E s \in Sub : ForwarderCheck(s)
    BY <2>3, SubscribersTyped DEF ForwarderCheck, RecvCheck, Subscription
  <2>4. CASE \/ AgentLaunches \/ Write \/ ClientReceive \/ ClientSubscribe
             \/ ClientUnsubscribe \/ Connect \/ HandleSubscribeFails \/ UNCHANGED vars
    BY <2>4 DEF AgentLaunches, spawn, Write, ClientReceive, ClientSubscribe,
                ClientUnsubscribe, Connect, HandleSubscribeFails, actorVars, vars
  <2> QED
    BY <2>1, <2>2, <2>3, <2>4
<1> QED
  BY <1>1, <1>2, TaskStill

LEMMA TaskHandle ==
    ASSUME ReplicationInv, TaskInv, Handle PROVE TaskInv'
<1>1. handler \in Handler /\ forwarder \in [Sub -> Forwarder] /\ current \subseteq Sub
  BY DaemonNow
<1>2. CASE HandleSubscribeFails
  BY <1>2, TaskStillSteps
<1>3. CASE HandleEmitGap \/ HandleEmit
  <2>1. /\ UNCHANGED <<current, forwarder, subscribers>>
        /\ handler.at # "idle" /\ handler'.at # "idle" /\ handler'.sub = handler.sub
    BY <1>1, <1>3 DEF HandleEmitGap, HandleEmit, actorVars, Handler
  <2> QED
    BY <2>1, TaskStill
<1>4. ASSUME NEW s \in Sub, HandleSubscribe(s) PROVE TaskInv'
  <2>1. /\ handler = Idle /\ UNCHANGED <<current, forwarder>> /\ ~subscribers[s].open
        /\ handler'.at = "abort" /\ handler'.sub = {s}
        /\ subscribers' = [subscribers EXCEPT ![s] = NewSubscription]
    BY <1>4 DEF HandleSubscribe, subscribe
  <2>2. forwarder[s].at = "off" /\ s \notin current
    BY <2>1 DEF TaskInv
  <2>3. /\ subscribers'[s].open
        /\ \A t \in Sub : t # s => subscribers'[t] = subscribers[t]
    BY <2>1, SubscribersTyped DEF NewSubscription
  <2> QED
    BY <2>1, <2>2, <2>3 DEF TaskInv
<1>5. CASE HandleAbortPrevious \/ HandleUnsubscribe
  <2>1. Abort(current) /\ current' = {}
    BY <1>5 DEF HandleAbortPrevious, HandleUnsubscribe
  <2>2. \/ handler' = handler
        \/ handler.at # "idle" /\ handler'.at # "idle" /\ handler'.sub = handler.sub
    BY <1>1, <1>5 DEF HandleAbortPrevious, HandleUnsubscribe, Handler
  <2>3. ASSUME NEW s \in Sub
        PROVE  /\ s \notin current => /\ forwarder'[s] = forwarder[s]
                                      /\ subscribers'[s] = subscribers[s]
               /\ \/ forwarder'[s].at = "off"
                  \/ /\ forwarder'[s].at = forwarder[s].at
                     /\ forwarder'[s].held = forwarder[s].held
                     /\ subscribers'[s] = subscribers[s]
    <3>1. forwarder[s] \in Forwarder
      BY <1>1
    <3> DEFINE aborted == [forwarder[s] EXCEPT !.aborted = TRUE]
    <3>2. aborted.at = forwarder[s].at /\ aborted.held = forwarder[s].held
      BY <3>1 DEF Forwarder
    <3> HIDE DEF aborted
    <3>3. /\ forwarder'[s] = IF s \notin current THEN forwarder[s]
                             ELSE IF forwarder[s].at = "emit" THEN aborted ELSE NoForwarder
          /\ subscribers'[s] = IF s \in current /\ forwarder[s].at # "emit"
                               THEN NoSubscription ELSE subscribers[s]
      BY <2>1 DEF Abort, AbortForwarders, AbortSubscriptions, aborted
    <3>4. NoForwarder.at = "off"
      BY DEF NoForwarder
    <3> QED
      BY <3>2, <3>3, <3>4
  <2> QED
    BY <2>1, <2>2, <2>3 DEF TaskInv
<1>6. CASE HandleSpawnForwarder
  <2> DEFINE new == [NoForwarder EXCEPT !.at = "recv"]
  <2>1. /\ UNCHANGED subscribers /\ handler.at = "emit"
        /\ current' = handler.sub /\ handler' = Idle
        /\ \A s \in Sub : forwarder'[s] = IF s \in handler.sub THEN new ELSE forwarder[s]
    BY <1>6 DEF HandleSpawnForwarder, actorVars
  <2>2. new.at = "recv" /\ new.aborted = FALSE /\ Idle.at = "idle"
    BY DEF NoForwarder, Idle
  <2> HIDE DEF new
  <2>3. PICK s \in Sub : handler.sub = {s} /\ subscribers[s].open
    BY <2>1 DEF TaskInv
  <2> QED
    BY <2>1, <2>2, <2>3 DEF TaskInv
<1> QED
  BY <1>2, <1>3, <1>4, <1>5, <1>6 DEF Handle

LEMMA TaskForward ==
    ASSUME ReplicationInv, TaskInv, NEW s \in Sub, Forward(s) PROVE TaskInv'
<1>1. forwarder \in [Sub -> Forwarder] /\ subscribers \in [Sub -> Subscription]
  BY DaemonNow, SubscribersTyped
<1>2. CASE ForwarderCheck(s)
  BY <1>2, TaskStillSteps
<1>3. CASE ForwarderReceive(s)
  <2> DEFINE u == Head(subscribers[s].queue)
             sub == Received(subscribers[s])
             new == [forwarder[s] EXCEPT !.at = "emit", !.held = {u}]
  <2>1. /\ UNCHANGED <<handler, current>> /\ forwarder[s].at = "recv"
        /\ subscribers' = [subscribers EXCEPT ![s] = sub]
        /\ forwarder' = [forwarder EXCEPT ![s] = new]
    BY <1>1, <1>3 DEF ForwarderReceive, RecvUpdate
  <2>2. /\ sub.open = subscribers[s].open /\ sub.position = u.event_sequence
        /\ new.at = "emit" /\ new.held = {u} /\ new.aborted = forwarder[s].aborted
    BY <1>1 DEF Received, Subscription, Forwarder
  <2> HIDE DEF u, sub, new
  <2>3. /\ subscribers'[s] = sub /\ forwarder'[s] = new
        /\ \A t \in Sub : t # s => /\ subscribers'[t] = subscribers[t]
                                   /\ forwarder'[t] = forwarder[t]
    BY <1>1, <2>1
  <2>4. \A v \in new.held : v.event_sequence = sub.position
    BY <2>2
  <2> QED
    BY <2>1, <2>2, <2>3, <2>4 DEF TaskInv
<1>4. CASE ForwarderEmit(s) \/ ForwarderResync(s)
  <2>1. PICK a \in {"recv", "gap"}, h \in {{}, forwarder[s].held} :
           forwarder' = [forwarder EXCEPT ![s].at = a, ![s].held = h]
    <3>1. CASE ForwarderEmit(s)
      BY <3>1 DEF ForwarderEmit
    <3>2. CASE ForwarderResync(s)
      <4>1. forwarder' = [forwarder EXCEPT ![s].at = "gap", ![s].held = forwarder[s].held]
        BY <1>1, <3>2 DEF ForwarderResync, Forwarder
      <4> QED
        BY <4>1
    <3> QED
      BY <1>4, <3>1, <3>2
  <2> DEFINE new == [forwarder[s] EXCEPT !.at = a, !.held = h]
  <2>2. /\ UNCHANGED <<handler, current, subscribers>> /\ forwarder[s].at # "off"
        /\ forwarder' = [forwarder EXCEPT ![s] = new]
    BY <1>1, <1>4, <2>1 DEF ForwarderEmit, ForwarderResync, actorVars
  <2>3. new.at = a /\ new.aborted = forwarder[s].aborted
    BY <1>1 DEF Forwarder
  <2> HIDE DEF new
  <2>4. /\ forwarder'[s] = new /\ new.at \in {"recv", "gap"}
        /\ \A t \in Sub : t # s => forwarder'[t] = forwarder[t]
    BY <1>1, <2>1, <2>2, <2>3
  <2> QED
    BY <2>2, <2>3, <2>4 DEF TaskInv
<1>5. CASE ForwarderGap(s) \/ ForwarderClosed(s) \/ ForwarderAborted(s)
  <2>1. /\ EndForwarder(s) /\ handler' = handler /\ forwarder[s].at # "off"
    BY <1>5 DEF ForwarderGap, ForwarderClosed, ForwarderAborted
  <2>2. /\ current' = current \ {s}
        /\ forwarder'[s] = NoForwarder
        /\ \A t \in Sub : t # s => /\ subscribers'[t] = subscribers[t]
                                   /\ forwarder'[t] = forwarder[t]
    BY <1>1, <2>1 DEF EndForwarder, DropSubscription
  <2>3. NoForwarder.at = "off"
    BY DEF NoForwarder
  <2> QED
    BY <2>1, <2>2, <2>3 DEF TaskInv
<1> QED
  BY <1>2, <1>3, <1>4, <1>5 DEF Forward

LEMMA TaskHangup ==
    ASSUME Hangup PROVE TaskInv'
<1>1. handler' = Idle /\ current' = {} /\ \A s \in Sub : forwarder'[s] = NoForwarder
  BY DEF Hangup
<1>2. Idle.at = "idle" /\ NoForwarder.at = "off"
  BY DEF Idle, NoForwarder
<1> QED
  BY <1>1, <1>2 DEF TaskInv

---------------------------------------------------------------------------
\* The client is brought to the present, or told that it is not there.

LEMMA AskedGrows ==
    ASSUME NEW S, NEW q \in Seq(S), NEW x \in S, NEW r, r = Append(q, x),
           Asked(q) \/ x.kind = "subscribe"
    PROVE  Asked(r)
<1>1. /\ Len(q) \in Nat /\ Len(q) + 1 \in DOMAIN r /\ r[Len(q) + 1] = x
      /\ \A i \in DOMAIN q : i \in DOMAIN r /\ r[i] = q[i]
  OBVIOUS
<1> QED
  BY <1>1 DEF Asked

LEMMA GapAdded ==
    ASSUME NEW S, NEW q \in Seq(S), NEW x \in S, NEW r, r = Append(q, x),
           HasGap(q) \/ x = GapFrame
    PROVE  HasGap(r)
<1>1. /\ Len(q) \in Nat /\ Len(q) + 1 \in DOMAIN r /\ r[Len(q) + 1] = x
      /\ \A i \in DOMAIN q : i \in DOMAIN r /\ r[i] = q[i]
  OBVIOUS
<1> QED
  BY <1>1 DEF HasGap

LEMMA GapTaken ==
    ASSUME NEW S, NEW q \in Seq(S), q # << >>, HasGap(q), Head(q) # GapFrame,
           NEW r, r = Tail(q)
    PROVE  HasGap(r)
<1>1. PICK i \in DOMAIN q : q[i] = GapFrame
  BY DEF HasGap
<1>2. i # 1
  BY <1>1
<1>3. i - 1 \in DOMAIN r /\ r[i - 1] = q[i]
  BY <1>1, <1>2
<1> QED
  BY <1>1, <1>3 DEF HasGap

LEMMA NoGapInNothing == ~HasGap(<< >>) /\ ~Asked(<< >>)
  BY DEF HasGap, Asked

LEMMA KindsApart == GapFrame.kind = "gap" /\ ErrorFrame.kind = "error"
  BY DEF GapFrame, ErrorFrame

LEMMA ControlIsClean == \A n : \A f \in ControlFrame : ~Older(f, n) /\ ~AtEnd(f, n)
  BY FrameKinds DEF Older, AtEnd

\* What is on its way to a client that is served.
LEMMA FramesNow ==
    ASSUME ReplicationInv, relaunches = 0
    PROVE  /\ handler.frames \in Seq(CurrentFrame) /\ state \in Seq(CurrentFrame)
           /\ wire \in Seq(CurrentFrame \cup ControlFrame)
           /\ control \in Seq(ControlFrame) /\ inbound \in Seq(ClientFrame)
  BY DEF ReplicationInv, Faithful, LanesCurrent, ServerCurrent, LanesOK

\* The live subscription is one of the running actor, and unless it is flagged
\* it ends at the present.
LEMMA LiveNow ==
    ASSUME ReplicationInv, TaskInv, running, relaunches = 0, NEW s \in Live
    PROVE  /\ s \in Sub /\ subscribers[s] \in Subscription /\ subscribers[s].open
           /\ subscribers[s].incarnation = snapshot.incarnation
           /\ ~subscribers[s].resync_required =>
                 /\ subscribers[s].attached
                 /\ subscribers[s].position + Len(subscribers[s].queue) = snapshot.event_sequence
           /\ \A i \in DOMAIN subscribers[s].queue :
                 subscribers[s].queue[i].event_sequence = subscribers[s].position + i
           /\ handler.at = "idle" => /\ s \in current /\ forwarder[s].at # "off"
                                     /\ ~forwarder[s].aborted
           /\ handler.at # "idle" => s \in handler.sub /\ forwarder[s].at = "off"
<1>1. s \in Sub
  BY DaemonNow DEF Live, Handler
<1>2. /\ subscribers[s].open
      /\ handler.at = "idle" => /\ s \in current /\ forwarder[s].at # "off"
                                /\ ~forwarder[s].aborted
      /\ handler.at # "idle" => s \in handler.sub /\ forwarder[s].at = "off"
  BY <1>1 DEF Live, TaskInv
<1>3. subscribers[s].incarnation = snapshot.incarnation /\ subscribers[s] \in Subscription
  BY <1>1, <1>2, DaemonNow, SubscribersTyped
<1> QED
  BY <1>1, <1>2, <1>3, DaemonNow DEF ActorInv, StreamComplete

\* The client's commands, and steps after which it is not served.
LEMMA FollowAsks ==
    ASSUME ReplicationInv, RequestInv, FollowInv, ClientSubscribe \/ Connect
    PROVE  FollowInv'
<1> SUFFICES ASSUME Serving' PROVE Asked(inbound')
  BY DEF FollowInv, Recovering
<1>1. PICK f : f = Subscribe(ReplicaCursor)
  OBVIOUS
<1>2. f \in ClientFrame /\ f.kind = "subscribe"
  BY <1>1, SubscribeIsClientFrame DEF Subscribe
<1>3. CASE ClientSubscribe
  <2>1. inbound' = Append(inbound, f)
    BY <1>1, <1>3 DEF ClientSubscribe, Serving
  <2> QED
    BY <1>2, <2>1, AskedGrows, DaemonNow
<1>4. CASE Connect
  <2>1. inbound' = <<f>>
    BY <1>1, <1>4 DEF Connect, Serving, clientVars
  <2>2. 1 \in DOMAIN inbound' /\ inbound'[1] = f
    BY <2>1
  <2> QED
    BY <1>2, <2>2 DEF Asked
<1> QED
  BY <1>3, <1>4

LEMMA FollowEnds ==
    ASSUME ReplicationInv, RequestInv,
           \/ AgentStops \/ AgentLaunches \/ ClientUnsubscribe \/ HandleSubscribeFails
           \/ HandleUnsubscribe \/ Hangup
    PROVE  FollowInv'
<1> SUFFICES ~Serving'
  BY DEF FollowInv
<1>1. CASE AgentStops
  BY <1>1 DEF AgentStops, shutdown, Serving
<1>2. CASE AgentLaunches
  <2>1. relaunches' # 0
    BY <1>2 DEF AgentLaunches, ReplicationInv, BoundsOK
  <2> QED
    BY <2>1 DEF Serving
<1>3. CASE ClientUnsubscribe
  BY <1>3 DEF ClientUnsubscribe, Serving
<1>4. CASE HandleSubscribeFails
  BY <1>4 DEF HandleSubscribeFails, actorVars, Serving
<1>5. CASE HandleUnsubscribe
  <2>1. connected /\ UNCHANGED lapses /\ inbound # << >> /\ Head(inbound).kind = "unsubscribe"
    BY <1>5 DEF HandleUnsubscribe, boundVars
  <2>2. (connected /\ lapses = {}) => Head(inbound).kind = "subscribe"
    BY <2>1, FirstIsSubscribe
  <2> QED
    BY <2>1, <2>2 DEF Serving
<1>6. CASE Hangup
  BY <1>6 DEF Hangup, Serving
<1> QED
  BY <1>1, <1>2, <1>3, <1>4, <1>5, <1>6

\* The actor publishes: the live subscription has something to send, or is
\* flagged.
LEMMA FollowAgent ==
    ASSUME ReplicationInv, TaskInv, FollowInv, AgentUpdates PROVE FollowInv'
<1>1. /\ running /\ running' = running
      /\ UNCHANGED <<connected, inbound, control, wire, handler, current, forwarder, desired,
                     relaunches, lapses>>
  BY DEF AgentUpdates, apply_change_command, publish_event, laneVars, serverVars, clientVars,
         boundVars
<1>2. PICK u \in Update : subscribers' = [s \in Sub |-> Deliver(subscribers[s], u)]
  BY AgentUpdateRecorded DEF ReplicationInv
<1> SUFFICES ASSUME Serving PROVE (Recovering \/ Following)'
  BY <1>1 DEF FollowInv, Serving
<1>3. Live' = Live
  BY <1>1 DEF Live
<1>4. relaunches = 0 /\ (Recovering \/ Following)
  BY DEF FollowInv, Serving
<1>5. ASSUME NEW s \in Live
      PROVE  \/ subscribers'[s].resync_required
             \/ ~subscribers[s].resync_required /\ subscribers'[s].queue # << >>
  <2>1. /\ s \in Sub /\ subscribers[s] \in Subscription
        /\ ~subscribers[s].resync_required => subscribers[s].attached
    BY <1>1, <1>4, LiveNow
  <2>2. Len(subscribers[s].queue) <= SubscriberCapacity /\ subscribers[s].queue \in Seq(Update)
    BY <2>1 DEF ReplicationInv, ActorInv, ActorTypeOK, Subscription
  <2>3. subscribers'[s] = Deliver(subscribers[s], u)
    BY <1>2, <2>1
  <2>4. \/ ~subscribers[s].attached /\ subscribers'[s] = subscribers[s]
        \/ /\ subscribers'[s].resync_required = subscribers[s].resync_required
           /\ subscribers'[s].queue = Append(subscribers[s].queue, u)
        \/ subscribers'[s].resync_required
    <3>1. PICK sub \in Subscription : sub = subscribers[s]
      BY <2>1
    <3>2. PICK new : new = Deliver(sub, u)
      OBVIOUS
    <3>3. \/ ~sub.attached /\ new = sub
          \/ new.resync_required = sub.resync_required /\ new.queue = Append(sub.queue, u)
          \/ new.resync_required
      BY <2>2, <3>1, <3>2, DeliverCases
    <3> QED
      BY <2>3, <3>1, <3>2, <3>3
  <2>5. Append(subscribers[s].queue, u) # << >>
    BY <2>2
  <2> QED
    BY <2>1, <2>4, <2>5
<1>6. CASE Recovering
  BY <1>1, <1>3, <1>5, <1>6 DEF Recovering
<1>7. CASE Following
  <2>1. PICK s \in Live : ~subscribers[s].resync_required
    BY <1>7 DEF Following
  <2>2. subscribers'[s].resync_required => Recovering'
    BY <1>3, <2>1 DEF Recovering
  <2>3. ~subscribers'[s].resync_required => Following'
    BY <1>3, <1>5, <2>1 DEF Following
  <2> QED
    BY <2>2, <2>3
<1> QED
  BY <1>4, <1>6, <1>7

\* run_writer: the order of the frames stays.
LEMMA FollowWrite ==
    ASSUME ReplicationInv, TaskInv, FollowInv, Write PROVE FollowInv'
<1>1. /\ UNCHANGED <<running, snapshot, subscribers>>
      /\ UNCHANGED <<connected, inbound, handler, current, forwarder, desired, replica, resync,
                     relaunches, lapses>>
  BY DEF Write, actorVars, serverVars, clientVars, boundVars
<1>2. \/ /\ control # << >>
         /\ wire' = Append(wire, Head(control)) /\ control' = Tail(control) /\ state' = state
      \/ /\ state # << >>
         /\ wire' = Append(wire, Head(state)) /\ state' = Tail(state) /\ control' = control
  BY DEF Write
<1> SUFFICES ASSUME Serving PROVE (Recovering \/ Following)'
  BY <1>1 DEF FollowInv, Serving
<1>3. Live' = Live /\ relaunches = 0 /\ (Recovering \/ Following)
  BY <1>1 DEF Live, FollowInv, Serving
<1>4. PICK W : W = CurrentFrame \cup ControlFrame
  OBVIOUS
<1>5. /\ state \in Seq(CurrentFrame) /\ wire \in Seq(W) /\ control \in Seq(ControlFrame)
      /\ state # << >> => Head(state) \in W
      /\ control # << >> => Head(control) \in W /\ Head(control) \in ControlFrame
  BY <1>3, <1>4, FramesNow, SeqSteps
<1>6. CASE Recovering
  <2>1. HasGap(wire) => HasGap(wire')
    BY <1>2, <1>5, GapAdded
  <2>2. HasGap(control) => HasGap(control') \/ HasGap(wire')
    <3>1. CASE control' = control
      BY <3>1
    <3>2. CASE control # << >> /\ wire' = Append(wire, Head(control)) /\ control' = Tail(control)
      <4>1. CASE Head(control) = GapFrame
        BY <1>5, <3>2, <4>1, GapAdded
      <4>2. CASE Head(control) # GapFrame
        BY <1>5, <3>2, <4>2, GapTaken
      <4> QED
        BY <4>1, <4>2
    <3> QED
      BY <1>2, <3>1, <3>2
  <2> QED
    BY <1>1, <1>3, <1>6, <2>1, <2>2 DEF Recovering
<1>7. CASE Following
  <2>1. PICK n : n = snapshot.event_sequence
    OBVIOUS
  <2>2. UpToDate(n) => UpToDate(n)'
    BY <1>1 DEF UpToDate
  <2>3. ASSUME Arrives(n) PROVE Arrives(n)'
    <3>1. CASE control # << >> /\ wire' = Append(wire, Head(control)) /\ state' = state
      <4>1. /\ Clean(wire, n) => Clean(wire', n)
            /\ Ends(wire, n) => Ends(wire', n)
        BY <1>5, <3>1, FrameAdded, ControlIsClean
      <4> QED
        BY <1>1, <2>2, <2>3, <3>1, <4>1 DEF Arrives
    <3>2. CASE state # << >> /\ wire' = Append(wire, Head(state)) /\ state' = Tail(state)
      <4>1. /\ Ends(state, n) => Ends(state', n) \/ (Clean(state', n) /\ Ends(wire', n))
            /\ Clean(state, n) => Clean(state', n)
            /\ Clean(state, n) /\ Ends(wire, n) => Ends(wire', n)
            /\ Clean(state, n) /\ Clean(wire, n) => Clean(wire', n)
        BY <1>5, <3>2, FrameMoves
      <4> QED
        BY <1>1, <2>2, <2>3, <4>1 DEF Arrives
    <3> QED
      BY <1>2, <3>1, <3>2
  <2> QED
    BY <1>1, <1>3, <1>7, <2>1, <2>3 DEF Following
<1> QED
  BY <1>3, <1>6, <1>7

\* The client takes a frame that does not make it ask for a snapshot.
LEMMA ClientTakes ==
    ASSUME ReplicationInv, relaunches = 0, NEW f \in CurrentFrame \cup ControlFrame,
           ClientSnapshot(f) \/ ClientUpdate(f) \/ ClientError(f),
           UNCHANGED snapshot, NEW n, n = snapshot.event_sequence
    PROVE  /\ AtEnd(f, n) => UpToDate(n)'
           /\ UpToDate(n) /\ ~Older(f, n) => UpToDate(n)'
<1>1. /\ f.kind = "snapshot" => f.snapshot \in CurrentSnapshot
      /\ f.kind = "update" => f.update \in CurrentUpdate
  BY FrameKinds
<1>2. replica \subseteq Snapshot
  BY DEF ReplicationInv, ClientOK
<1>3. CASE ClientSnapshot(f)
  <2>1. f.kind = "snapshot" /\ replica' = {f.snapshot} /\ resync' = FALSE
    BY <1>3 DEF ClientSnapshot
  <2>2. AtEnd(f, n) \/ ~Older(f, n) => f.snapshot.event_sequence = n
    BY <2>1 DEF AtEnd, Older
  <2> QED
    BY <2>1, <2>2 DEF UpToDate
<1>4. CASE ClientUpdate(f)
  <2>1. /\ f.kind = "update" /\ resync' = resync /\ ~resync
        /\ replica' = {ApplyUpdate(s, f.update) : s \in replica}
        /\ \E s \in replica : Applicable(s, f.update)
    BY <1>4 DEF ClientUpdate, Accepts
  <2>2. PICK u \in CurrentUpdate : u = f.update
    BY <1>1, <2>1
  <2>3. u \in Update /\ u.event_sequence \in 1 .. Len(hist) - 1
    BY DEF CurrentUpdate, Authentic
  <2>4. Len(hist) = n + 1 /\ n \in Nat
    BY CapacityAssumption
       DEF ReplicationInv, ActorInv, HistoryOK, ActorTypeOK, Snapshot, Counter
  <2>5. \A s \in replica : /\ ApplyUpdate(s, u).incarnation = s.incarnation
                           /\ ApplyUpdate(s, u).event_sequence = u.event_sequence
    BY <1>2, <2>3, ApplyUpdateType
  <2>6. replica' # {} /\ \A t \in replica' : t.event_sequence = u.event_sequence
    BY <2>1, <2>2, <2>5
  <2>7. AtEnd(f, n) => UpToDate(n)'
    <3>1. AtEnd(f, n) => u.event_sequence = n
      BY <2>1, <2>2 DEF AtEnd
    <3> QED
      BY <2>1, <2>6, <3>1 DEF UpToDate
  <2>8. ASSUME UpToDate(n) PROVE UpToDate(n)'
    <3>1. PICK s \in replica : Applicable(s, u)
      BY <2>1, <2>2
    <3>2. s.event_sequence # n
      BY <2>3, <2>4, <3>1 DEF Applicable
    <3>3. s.incarnation # snapshot.incarnation
      BY <2>8, <3>2 DEF UpToDate
    <3>4. replica = {s}
      BY <3>1 DEF ReplicationInv, ClientOK
    <3>5. \A t \in replica' : t.incarnation = s.incarnation
      BY <2>1, <2>2, <2>5, <3>4
    <3> QED
      BY <2>1, <2>6, <3>3, <3>5 DEF UpToDate
  <2> QED
    BY <2>7, <2>8
<1>5. CASE ClientError(f)
  <2>1. f.kind = "error" /\ UNCHANGED <<replica, resync>>
    BY <1>5 DEF ClientError
  <2> QED
    BY <2>1 DEF AtEnd, UpToDate
<1> QED
  BY <1>3, <1>4, <1>5

LEMMA FollowReceive ==
    ASSUME ReplicationInv, FollowInv, ClientReceive PROVE FollowInv'
<1>1. /\ UNCHANGED <<running, snapshot, subscribers>>
      /\ UNCHANGED <<connected, control, state, handler, current, forwarder, desired,
                     relaunches, lapses>>
      /\ wire # << >> /\ wire' = Tail(wire)
  BY DEF ClientReceive, actorVars, serverVars, boundVars
<1> SUFFICES ASSUME Serving PROVE (Recovering \/ Following)'
  BY <1>1 DEF FollowInv, Serving
<1>2. Live' = Live /\ relaunches = 0 /\ (Recovering \/ Following)
  BY <1>1 DEF Live, FollowInv, Serving
<1>3. PICK W : W = CurrentFrame \cup ControlFrame
  OBVIOUS
<1>4. wire \in Seq(W) /\ Head(wire) \in W /\ inbound \in Seq(ClientFrame)
  BY <1>1, <1>2, <1>3, FramesNow, SeqSteps
<1>5. PICK f \in W : f = Head(wire)
  BY <1>4
<1>6. ClientSnapshot(f) \/ ClientUpdate(f) \/ ClientResync(f) \/ ClientError(f)
  BY <1>5 DEF ClientReceive
<1>7. CASE ClientResync(f)
  <2>1. PICK g \in ClientFrame : g = Subscribe({})
    BY SubscribeIsClientFrame
  <2>2. inbound' = Append(inbound, g)
    BY <1>7, <2>1 DEF ClientResync
  <2>3. g.kind = "subscribe"
    BY <2>1 DEF Subscribe
  <2>4. Asked(inbound')
    BY <1>4, <2>2, <2>3, AskedGrows
  <2> QED
    BY <2>4 DEF Recovering
<1>8. CASE ClientSnapshot(f) \/ ClientUpdate(f) \/ ClientError(f)
  <2>1. inbound' = inbound /\ f # GapFrame
    BY <1>8, KindsApart DEF ClientSnapshot, ClientUpdate, ClientError
  <2>2. HasGap(wire) => HasGap(wire')
    BY <1>1, <1>4, <1>5, <2>1, GapTaken
  <2>3. Recovering => Recovering'
    BY <1>1, <1>2, <2>1, <2>2 DEF Recovering
  <2>4. PICK n : n = snapshot.event_sequence
    OBVIOUS
  <2>5. /\ Clean(wire, n) => Clean(wire', n) /\ ~Older(f, n)
        /\ Ends(wire, n) => Ends(wire', n) \/ (AtEnd(f, n) /\ Clean(wire', n))
    BY <1>1, <1>4, <1>5, FrameTaken
  <2>6. /\ AtEnd(f, n) => UpToDate(n)'
        /\ UpToDate(n) /\ ~Older(f, n) => UpToDate(n)'
    BY <1>1, <1>2, <1>3, <1>8, <2>4, ClientTakes
  <2>7. Arrives(n) => Arrives(n)'
    BY <1>1, <2>5, <2>6 DEF Arrives
  <2>8. Following => Following'
    BY <1>1, <1>2, <2>4, <2>7 DEF Following
  <2> QED
    BY <1>2, <2>3, <2>8
<1> QED
  BY <1>6, <1>7, <1>8

\* A replay ends where the actor is.
LEMMA ReplayReaches ==
    ASSUME ActorInv, NEW c \in Cursor, NEW start, start = subscription_start(c),
           start.kind = "replay", start.updates \in Seq(Update)
    PROVE  \/ start.updates = << >> /\ c.event_sequence = snapshot.event_sequence
           \/ /\ Len(start.updates) \in DOMAIN start.updates
              /\ start.updates[Len(start.updates)].event_sequence = snapshot.event_sequence
<1>1. c.event_sequence \in Nat /\ snapshot.event_sequence \in Nat
  BY CapacityAssumption DEF ActorInv, ActorTypeOK, Snapshot, Counter, Cursor
<1>2. ResyncStart.kind = "resync_required"
  BY DEF ResyncStart
<1>3. CASE c = CursorOf(snapshot) /\ start = ReplayStart(<< >>)
  BY <1>3 DEF ReplayStart, CursorOf
<1>4. CASE start = ReplayStart(UpdatesAfter(c.event_sequence))
           /\ replay_reaches_snapshot(c, UpdatesAfter(c.event_sequence))
  <2>1. PICK us : us = UpdatesAfter(c.event_sequence)
    OBVIOUS
  <2>2. start.updates = us /\ us \in Seq(Update)
    BY <1>4, <2>1 DEF ReplayStart
  <2>3. /\ \A i \in DOMAIN us : us[i].event_sequence = c.event_sequence + i
        /\ c.event_sequence + Len(us) = snapshot.event_sequence
    BY <1>4, <2>1 DEF replay_reaches_snapshot
  <2>4. CASE us = << >>
    BY <1>1, <2>2, <2>3, <2>4
  <2>5. CASE us # << >>
    <3>1. Len(us) \in DOMAIN us
      BY <2>2, <2>5
    <3> QED
      BY <2>2, <2>3, <3>1
  <2> QED
    BY <2>4, <2>5
<1> QED
  BY <1>2, <1>3, <1>4 DEF subscription_start

\* A new subscription: its start brings the client to the present.
LEMMA FollowSubscribe ==
    ASSUME ReplicationInv, RequestInv, NEW s \in Sub, HandleSubscribe(s) PROVE FollowInv'
<1> DEFINE start == StartFor(Head(inbound).cursor)
           frames == IF start.kind = "replay"
                     THEN [i \in DOMAIN start.updates |-> UpdateFrame(start.updates[i])]
                     ELSE <<SnapshotFrame(start.snapshot)>>
<1>1. /\ UNCHANGED <<running, snapshot>> /\ running
      /\ subscribers' = [subscribers EXCEPT ![s] = NewSubscription]
      /\ UNCHANGED <<connected, control, state, wire, current, forwarder, desired, replica,
                     resync, relaunches, lapses>>
      /\ inbound # << >> /\ Head(inbound).kind = "subscribe"
      /\ handler' = [at |-> "abort", sub |-> {s}, gap |-> start.kind = "resync_required",
                     frames |-> frames]
  BY DEF HandleSubscribe, subscribe, clientVars, boundVars
<1> SUFFICES ASSUME Serving PROVE Following'
  BY <1>1 DEF FollowInv, Serving
<1>2. connected /\ lapses = {} /\ relaunches = 0
  BY DEF Serving
<1>3. Head(inbound) \in ClientFrame
  BY <1>1, DaemonNow, SeqSteps
<1>4. start.snapshot = snapshot /\ start.updates \in Seq(CurrentUpdate)
  BY <1>1, <1>3, DaemonNow, StartIsCurrent
<1>5. /\ Head(inbound).cursor = {} => start.kind = "snapshot"
      /\ \A c : Head(inbound).cursor = {c} => start = subscription_start(c)
  BY DEF StartFor, SnapshotStart
<1>6. \/ Head(inbound).cursor = {}
      \/ Opening /\ Head(inbound).cursor = ReplicaCursor
  BY <1>1, <1>2, FirstIsSubscribe
<1> HIDE DEF start
<1>7. PICK n : n = snapshot.event_sequence
  OBVIOUS
<1>8. handler'.frames = frames /\ handler'.at = "abort" /\ handler'.sub = {s}
  BY <1>1
<1>9. Arrives(n)'
  <2>1. CASE start.kind # "replay"
    <3>1. PICK f : f = SnapshotFrame(snapshot)
      OBVIOUS
    <3>2. AtEnd(f, n)
      BY <1>7, <3>1 DEF AtEnd, SnapshotFrame
    <3>3. handler'.frames = <<f>>
      BY <1>4, <1>8, <2>1, <3>1
    <3>4. Ends(handler'.frames, n)
      BY <3>2, <3>3 DEF Ends
    <3> QED
      BY <3>4 DEF Arrives
  <2>2. CASE start.kind = "replay"
    <3>1. Opening /\ Head(inbound).cursor = ReplicaCursor /\ ReplicaCursor # {}
      BY <1>5, <1>6, <2>2
    <3>2. ~resync /\ replica # {}
      BY <3>1 DEF ReplicaCursor
    <3>3. PICK r \in replica : replica = {r} /\ r \in Snapshot
      BY <3>2 DEF ReplicationInv, ClientOK
    <3>4. PICK c \in Cursor : c = CursorOf(r) /\ c.event_sequence = r.event_sequence
      <4>1. CursorOf(r) \in Cursor
        BY <3>3 DEF CursorOf, Cursor, Snapshot
      <4>2. CursorOf(r).event_sequence = r.event_sequence
        BY DEF CursorOf
      <4> QED
        BY <4>1, <4>2
    <3>5. Head(inbound).cursor = {c}
      BY <3>1, <3>2, <3>3, <3>4 DEF ReplicaCursor
    <3>6. start = subscription_start(c)
      BY <1>5, <3>5
    <3>7. start.updates \in Seq(Update)
      BY <1>4, SeqGrows DEF CurrentUpdate
    <3>8. \/ start.updates = << >> /\ r.event_sequence = n
          \/ /\ Len(start.updates) \in DOMAIN start.updates
             /\ start.updates[Len(start.updates)].event_sequence = n
      BY <1>7, <2>2, <3>4, <3>6, <3>7, ReplayReaches, DaemonNow
    <3>9. handler'.frames = [i \in DOMAIN start.updates |-> UpdateFrame(start.updates[i])]
      BY <1>8, <2>2
    <3>10. CASE start.updates = << >> /\ r.event_sequence = n
      <4>1. handler'.frames = << >> /\ state' = << >> /\ wire' = << >>
        BY <1>1, <3>1, <3>9, <3>10 DEF Opening, Untouched
      <4>2. UpToDate(n)'
        BY <1>1, <3>2, <3>3, <3>10 DEF UpToDate
      <4> QED
        BY <4>1, <4>2, CleanEmpty DEF Arrives
    <3>11. CASE /\ Len(start.updates) \in DOMAIN start.updates
                /\ start.updates[Len(start.updates)].event_sequence = n
      <4>1. PICK k : k = Len(start.updates)
        OBVIOUS
      <4>2. PICK u : u = start.updates[k]
        OBVIOUS
      <4>3. AtEnd(UpdateFrame(u), n)
        BY <3>11, <4>1, <4>2 DEF AtEnd, UpdateFrame
      <4>4. k \in DOMAIN handler'.frames /\ handler'.frames[k] = UpdateFrame(u)
        BY <3>9, <3>11, <4>1, <4>2
      <4>5. \A j \in DOMAIN handler'.frames : ~(j > k)
        BY <1>4, <3>9, <4>1
      <4>6. Ends(handler'.frames, n)
        BY <4>3, <4>4, <4>5 DEF Ends
      <4> QED
        BY <4>6 DEF Arrives
    <3> QED
      BY <3>8, <3>10, <3>11
  <2> QED
    BY <2>1, <2>2
<1>10. Live' = {s}
  BY <1>8 DEF Live
<1>11. subscribers'[s].resync_required = FALSE
  BY <1>1, SubscribersTyped DEF NewSubscription
<1> QED
  BY <1>1, <1>7, <1>9, <1>10, <1>11 DEF Following

\* The handler moves on.
LEMMA FollowHandler ==
    ASSUME ReplicationInv, TaskInv, FollowInv,
           HandleAbortPrevious \/ HandleEmitGap \/ HandleEmit \/ HandleSpawnForwarder
    PROVE  FollowInv'
<1>1. /\ UNCHANGED <<running, snapshot, connected, inbound, wire, desired, replica, resync,
                     relaunches>>
      /\ lapses' = {} => lapses = {}
      /\ handler.at # "idle" /\ handler \in Handler
  BY DaemonNow DEF HandleAbortPrevious, HandleEmitGap, HandleEmit, HandleSpawnForwarder, Abort,
        actorVars, laneVars, clientVars, boundVars
<1> SUFFICES ASSUME Serving, Serving' PROVE (Recovering \/ Following)'
  BY <1>1 DEF FollowInv, Serving
<1>2. running /\ relaunches = 0 /\ lapses' = {} /\ (Recovering \/ Following)
  BY DEF FollowInv, Serving
<1>3. Live = handler.sub
  BY <1>1 DEF Live
<1>4. \A s \in Live : s \in Sub /\ forwarder[s].at = "off" /\ s \notin current
  <2>1. \A s \in Live : s \in Sub /\ forwarder[s].at = "off"
    BY <1>1, <1>2, LiveNow
  <2>2. \A s \in Live : s \notin current
    BY <1>1, <1>3 DEF TaskInv
  <2> QED
    BY <2>1, <2>2
<1>5. PICK n : n = snapshot.event_sequence
  OBVIOUS
<1>6. UpToDate(n) => UpToDate(n)'
  BY <1>1 DEF UpToDate
<1>7. CASE HandleEmitGap
  <2>1. control' = Append(control, GapFrame) /\ control \in Seq(ControlFrame)
    BY <1>7, DaemonNow DEF HandleEmitGap
  <2>2. HasGap(control')
    BY <2>1, FramesMade, GapAdded
  <2> QED
    BY <2>2 DEF Recovering
<1>8. CASE HandleAbortPrevious
  <2>1. /\ UNCHANGED <<control, state>> /\ Abort(current)
        /\ handler'.at # "idle" /\ handler'.sub = handler.sub /\ handler'.frames = handler.frames
    BY <1>1, <1>8 DEF HandleAbortPrevious, laneVars, Handler
  <2>2. Live' = Live
    BY <1>3, <2>1 DEF Live
  <2>3. \A s \in Live : forwarder'[s] = forwarder[s] /\ subscribers'[s] = subscribers[s]
    BY <1>4, <2>1 DEF Abort, AbortForwarders, AbortSubscriptions
  <2>4. Arrives(n) => Arrives(n)'
    BY <1>1, <1>6, <2>1 DEF Arrives
  <2> QED
    BY <1>1, <1>2, <1>5, <2>1, <2>2, <2>3, <2>4 DEF Recovering, Following
<1>9. CASE HandleEmit
  <2>1. /\ UNCHANGED <<subscribers, control, current, forwarder>>
        /\ handler'.at # "idle" /\ handler'.sub = handler.sub
        /\ handler.frames # << >>
    BY <1>1, <1>9 DEF HandleEmit, actorVars, Handler
  <2>2. /\ state' = Append(state, Head(handler.frames))
        /\ handler'.frames = Tail(handler.frames)
    <3>1. lapses \cup {"start_dropped"} # {}
      OBVIOUS
    <3>2. StateRoom
      BY <1>2, <1>9, <3>1 DEF HandleEmit
    <3> QED
      BY <1>1, <1>9, <3>2 DEF HandleEmit, Handler
  <2>3. Live' = Live
    BY <1>3, <2>1 DEF Live
  <2>4. PICK q : q = handler.frames
    OBVIOUS
  <2>5. q \in Seq(CurrentFrame) /\ state \in Seq(CurrentFrame) /\ q # << >>
    BY <1>2, <2>1, <2>4, FramesNow
  <2>6. Head(q) \in CurrentFrame
    BY <2>5, SeqSteps
  <2>7. PICK q1 : q1 = Tail(q)
    OBVIOUS
  <2>8. state' = Append(state, Head(q)) /\ handler'.frames = q1
    BY <2>2, <2>4, <2>7
  <2>9. /\ Ends(q, n) => Ends(q1, n) \/ (Clean(q1, n) /\ Ends(state', n))
        /\ Clean(q, n) => Clean(q1, n)
        /\ Clean(q, n) /\ Ends(state, n) => Ends(state', n)
        /\ Clean(q, n) /\ Clean(state, n) => Clean(state', n)
    <3>1. PICK r1 : r1 = Append(state, Head(q))
      OBVIOUS
    <3>2. /\ Ends(q, n) => Ends(q1, n) \/ (Clean(q1, n) /\ Ends(r1, n))
          /\ Clean(q, n) => Clean(q1, n)
          /\ Clean(q, n) /\ Ends(state, n) => Ends(r1, n)
          /\ Clean(q, n) /\ Clean(state, n) => Clean(r1, n)
      BY <2>5, <2>6, <2>7, <3>1, FrameMoves
    <3>3. r1 = state'
      BY <2>8, <3>1
    <3> QED
      BY <3>2, <3>3
  <2>10. Arrives(n) => Arrives(n)'
    BY <1>1, <1>6, <2>4, <2>8, <2>9 DEF Arrives
  <2> QED
    BY <1>1, <1>2, <1>5, <2>1, <2>3, <2>10 DEF Recovering, Following
<1>10. CASE HandleSpawnForwarder
  <2>1. /\ UNCHANGED <<subscribers, control, state>> /\ handler.frames = << >>
        /\ current' = handler.sub /\ handler' = Idle
    BY <1>10 DEF HandleSpawnForwarder, actorVars, laneVars
  <2>2. Live' = Live
    BY <1>3, <2>1 DEF Live, Idle
  <2>3. handler'.frames = handler.frames
    BY <2>1 DEF Idle
  <2>4. Arrives(n) => Arrives(n)'
    BY <1>1, <1>6, <2>1, <2>3 DEF Arrives
  <2>5. Recovering => Recovering'
    BY <1>1, <1>4, <2>1, <2>2 DEF Recovering
  <2>6. Following => Following'
    BY <1>1, <1>4, <1>5, <2>1, <2>2, <2>4 DEF Following
  <2> QED
    BY <1>2, <2>5, <2>6
<1> QED
  BY <1>7, <1>8, <1>9, <1>10

\* The step of one task: what is asked of it if it is the live one's, and that
\* it disturbs nothing of the others.
LEMMA FollowForward ==
    ASSUME ReplicationInv, TaskInv, FollowInv, NEW s \in Sub, Forward(s) PROVE FollowInv'
<1>1. /\ UNCHANGED <<running, snapshot, connected, inbound, wire, handler, desired, replica,
                     resync, relaunches, lapses>>
  BY DEF Forward, ForwarderCheck, ForwarderReceive, ForwarderEmit, ForwarderResync, ForwarderGap,
         ForwarderClosed, ForwarderAborted, EndForwarder, RecvCheck, RecvUpdate,
         DropSubscription, actorVars, laneVars, serverVars, clientVars, boundVars
<1> SUFFICES ASSUME Serving PROVE (Recovering \/ Following)'
  BY <1>1 DEF FollowInv, Serving
<1>2. running /\ relaunches = 0 /\ (Recovering \/ Following)
  BY DEF FollowInv, Serving
<1>3. forwarder \in [Sub -> Forwarder] /\ subscribers \in [Sub -> Subscription]
  BY DaemonNow, SubscribersTyped
<1>4. PICK n : n = snapshot.event_sequence
  OBVIOUS
<1>5. UpToDate(n) => UpToDate(n)'
  BY <1>1 DEF UpToDate
<1>6. Live \subseteq Sub
  BY DaemonNow DEF Live, Handler
<1>7. CASE ForwarderCheck(s)
  <2>1. /\ UNCHANGED <<control, state, current, forwarder>>
        /\ \A t \in Sub : /\ subscribers'[t].queue = subscribers[t].queue
                          /\ subscribers'[t].position = subscribers[t].position
                          /\ subscribers'[t].resync_required = subscribers[t].resync_required
    BY <1>3, <1>7 DEF ForwarderCheck, RecvCheck, laneVars, serverVars, Subscription
  <2>2. Live' = Live
    BY <1>1, <2>1 DEF Live
  <2>3. Arrives(n) => Arrives(n)'
    BY <1>1, <1>5, <2>1 DEF Arrives
  <2>4. Recovering => Recovering'
    BY <1>1, <1>6, <2>1, <2>2 DEF Recovering
  <2>5. Following => Following'
    BY <1>1, <1>4, <1>6, <2>1, <2>2, <2>3 DEF Following
  <2> QED
    BY <1>2, <2>4, <2>5
<1>8. CASE ForwarderReceive(s)
  <2> DEFINE u == Head(subscribers[s].queue)
             sub == Received(subscribers[s])
             new == [forwarder[s] EXCEPT !.at = "emit", !.held = {u}]
  <2>1. /\ UNCHANGED <<control, state, current>> /\ forwarder[s].at = "recv"
        /\ subscribers[s].queue # << >>
        /\ subscribers' = [subscribers EXCEPT ![s] = sub]
        /\ forwarder' = [forwarder EXCEPT ![s] = new]
    BY <1>3, <1>8 DEF ForwarderReceive, RecvUpdate, laneVars
  <2>2. /\ sub.queue = Tail(subscribers[s].queue) /\ sub.position = u.event_sequence
        /\ sub.resync_required = subscribers[s].resync_required
        /\ new.at = "emit"
    BY <1>3 DEF Received, Subscription, Forwarder
  <2>3. subscribers[s].queue \in Seq(Update) /\ u = subscribers[s].queue[1]
        /\ subscribers[s].position \in Nat
    BY <1>3, <2>1, CapacityAssumption DEF Subscription, Counter
  <2> HIDE DEF u, sub, new
  <2>4. /\ subscribers'[s] = sub /\ forwarder'[s] = new
        /\ \A t \in Sub : t # s => /\ subscribers'[t] = subscribers[t]
                                   /\ forwarder'[t] = forwarder[t]
    BY <1>3, <2>1
  <2>5. Live' = Live
    BY <1>1, <2>1 DEF Live
  <2>6. Arrives(n) => Arrives(n)'
    BY <1>1, <1>5, <2>1 DEF Arrives
  <2>7. CASE Recovering
    BY <1>1, <1>6, <2>1, <2>2, <2>4, <2>5, <2>7 DEF Recovering
  <2>8. CASE Following
    <3>1. PICK t \in Live :
             /\ ~subscribers[t].resync_required
             /\ \/ subscribers[t].queue # << >>
                \/ forwarder[t].at = "emit" /\ subscribers[t].position = n
                \/ Arrives(n)
      BY <1>4, <2>8 DEF Following
    <3>2. CASE t # s
      BY <1>1, <1>4, <1>6, <2>4, <2>5, <2>6, <3>1, <3>2 DEF Following
    <3>3. CASE t = s
      <4>1. /\ subscribers[s].position + Len(subscribers[s].queue) = n
            /\ u.event_sequence = subscribers[s].position + 1
        <5>1. /\ subscribers[s].position + Len(subscribers[s].queue) = n
              /\ \A i \in DOMAIN subscribers[s].queue :
                    subscribers[s].queue[i].event_sequence = subscribers[s].position + i
          BY <1>2, <1>4, <3>1, <3>3, LiveNow
        <5>2. 1 \in DOMAIN subscribers[s].queue
          BY <2>1, <2>3
        <5> QED
          BY <2>3, <5>1, <5>2
      <4>2. sub.queue # << >> \/ sub.position = n
        <5>1. Len(subscribers[s].queue) \in Nat /\ Len(subscribers[s].queue) >= 1
              /\ Len(sub.queue) = Len(subscribers[s].queue) - 1
          BY <2>1, <2>2, <2>3
        <5>2. sub.queue = << >> => Len(subscribers[s].queue) = 1
          BY <5>1
        <5> QED
          BY <2>2, <2>3, <4>1, <5>2
      <4> QED
        BY <1>1, <1>4, <2>2, <2>4, <2>5, <3>1, <3>3, <4>2 DEF Following
    <3> QED
      BY <3>2, <3>3
  <2> QED
    BY <1>2, <2>7, <2>8
<1>9. CASE ForwarderEmit(s)
  <2>1. /\ UNCHANGED <<control, current, subscribers>> /\ forwarder[s].at = "emit"
    BY <1>9 DEF ForwarderEmit, actorVars
  <2>2. Live' = Live
    BY <1>1, <2>1 DEF Live
  <2>3. \A t \in Sub : t # s => forwarder'[t] = forwarder[t]
    BY <1>3, <1>9 DEF ForwarderEmit
  <2>4. \A t \in Live : forwarder[t].at = "gap" => t # s
    BY <2>1
  <2>5. Recovering => Recovering'
    BY <1>1, <1>6, <2>1, <2>2, <2>3, <2>4 DEF Recovering
  <2>6. CASE StateRoom
    <3>1. PICK u : u = Only(forwarder[s].held)
      OBVIOUS
    <3>2. u \in forwarder[s].held
      BY <2>1, <3>1, DaemonNow DEF Only
    <3>3. u \in CurrentUpdate /\ u.event_sequence = subscribers[s].position
      BY <1>2, <2>1, <3>2, DaemonNow DEF TaskInv
    <3>4. PICK f \in CurrentFrame : f = UpdateFrame(u)
      BY <3>3, FramesMade
    <3>5. state' = Append(state, f) /\ state \in Seq(CurrentFrame)
      BY <1>2, <1>9, <2>6, <3>1, <3>4, FramesNow DEF ForwarderEmit
    <3>6. ~Older(f, n) /\ (u.event_sequence = n => AtEnd(f, n))
      BY <3>4 DEF Older, AtEnd, UpdateFrame
    <3>7. /\ Clean(state, n) => Clean(state', n)
          /\ Ends(state, n) \/ u.event_sequence = n => Ends(state', n)
      BY <3>5, <3>6, FrameAdded
    <3>8. Arrives(n) => Arrives(n)'
      BY <1>1, <1>5, <3>7 DEF Arrives
    <3>9. CASE Following
      <4>1. PICK t \in Live :
               /\ ~subscribers[t].resync_required
               /\ \/ subscribers[t].queue # << >>
                  \/ forwarder[t].at = "emit" /\ subscribers[t].position = n
                  \/ Arrives(n)
        BY <1>4, <3>9 DEF Following
      <4>2. CASE subscribers[t].queue # << >> \/ Arrives(n) \/ t # s
        BY <1>1, <1>4, <1>6, <2>1, <2>2, <2>3, <3>8, <4>1, <4>2 DEF Following
      <4>3. CASE t = s /\ subscribers[t].position = n
        <5>1. handler.at = "idle"
          BY <1>2, <2>1, <4>1, <4>3, LiveNow
        <5>2. handler.frames = << >>
          BY <5>1 DEF TaskInv, Idle
        <5>3. Ends(state', n)
          BY <3>3, <3>7, <4>3
        <5>4. Arrives(n)'
          BY <1>1, <5>2, <5>3, CleanEmpty DEF Arrives
        <5> QED
          BY <1>1, <1>4, <2>1, <2>2, <4>1, <5>4 DEF Following
      <4> QED
        BY <4>1, <4>2, <4>3
    <3> QED
      BY <1>2, <2>5, <3>9
  <2>7. CASE ~StateRoom
    <3>1. state' = state /\ forwarder'[s].at = "gap"
      BY <1>3, <1>9, <2>7 DEF ForwarderEmit, Forwarder
    <3>2. s \in Live => Recovering'
      BY <2>2, <3>1 DEF Recovering
    <3>3. Arrives(n) => Arrives(n)'
      BY <1>1, <1>5, <3>1 DEF Arrives
    <3>4. s \notin Live /\ Following => Following'
      BY <1>1, <1>4, <1>6, <2>1, <2>2, <2>3, <3>3 DEF Following
    <3> QED
      BY <1>2, <2>5, <3>2, <3>4
  <2> QED
    BY <2>6, <2>7
<1>10. CASE ForwarderResync(s)
  <2>1. /\ UNCHANGED <<control, state, current, subscribers>> /\ forwarder'[s].at = "gap"
        /\ \A t \in Sub : t # s => forwarder'[t] = forwarder[t]
    BY <1>3, <1>10 DEF ForwarderResync, actorVars, laneVars, Forwarder
  <2>2. Live' = Live
    BY <1>1, <2>1 DEF Live
  <2>3. s \in Live => Recovering'
    BY <2>1, <2>2 DEF Recovering
  <2>4. Arrives(n) => Arrives(n)'
    BY <1>1, <1>5, <2>1 DEF Arrives
  <2>5. s \notin Live /\ Recovering => Recovering'
    BY <1>1, <1>6, <2>1, <2>2 DEF Recovering
  <2>6. s \notin Live /\ Following => Following'
    BY <1>1, <1>4, <1>6, <2>1, <2>2, <2>4 DEF Following
  <2> QED
    BY <1>2, <2>3, <2>5, <2>6
<1>11. CASE ForwarderGap(s) \/ ForwarderClosed(s) \/ ForwarderAborted(s)
  <2>1. /\ EndForwarder(s) /\ state' = state /\ forwarder[s].at # "off"
    BY <1>11 DEF ForwarderGap, ForwarderClosed, ForwarderAborted, laneVars
  <2>2. /\ current' = current \ {s}
        /\ \A t \in Sub : t # s => /\ subscribers'[t] = subscribers[t]
                                   /\ forwarder'[t] = forwarder[t]
    BY <1>3, <2>1 DEF EndForwarder, DropSubscription
  <2>3. /\ control \in Seq(ControlFrame)
        /\ control' = control \/ control' = Append(control, GapFrame)
    BY <1>11, DaemonNow DEF ForwarderGap, ForwarderClosed, ForwarderAborted, laneVars
  <2>4. HasGap(control) => HasGap(control')
    BY <2>3, FramesMade, GapAdded
  <2>5. CASE s \in Live
    <3>1. /\ subscribers[s].incarnation = snapshot.incarnation
          /\ ~subscribers[s].resync_required => subscribers[s].attached
          /\ handler.at = "idle" => ~forwarder[s].aborted
          /\ handler.at # "idle" => forwarder[s].at = "off"
      BY <1>2, <2>5, LiveNow
    <3>2. ~ForwarderClosed(s)
      BY <3>1 DEF ForwarderClosed, RecvClosed
    <3>3. ~ForwarderAborted(s)
      BY <2>1, <3>1 DEF ForwarderAborted
    <3>4. control' = Append(control, GapFrame)
      BY <1>2, <1>11, <3>1, <3>2, <3>3 DEF ForwarderGap
    <3>5. HasGap(control')
      BY <2>3, <3>4, FramesMade, GapAdded
    <3> QED
      BY <3>5 DEF Recovering
  <2>6. CASE s \notin Live
    <3>1. Live' = Live
      BY <1>1, <2>2, <2>6 DEF Live
    <3>2. Arrives(n) => Arrives(n)'
      BY <1>1, <1>5, <2>1 DEF Arrives
    <3>3. \A t \in Live : subscribers'[t] = subscribers[t] /\ forwarder'[t] = forwarder[t]
      BY <1>6, <2>2, <2>6
    <3>4. Recovering => Recovering'
      BY <1>1, <2>4, <3>1, <3>3 DEF Recovering
    <3>5. Following => Following'
      BY <1>1, <1>4, <3>1, <3>2, <3>3 DEF Following
    <3> QED
      BY <1>2, <3>4, <3>5
  <2> QED
    BY <2>5, <2>6
<1> QED
  BY <1>7, <1>8, <1>9, <1>10, <1>11 DEF Forward

LEMMA QuietInitInv == Init => QuietInv
<1> SUFFICES ASSUME Init PROVE QuietInv
  OBVIOUS
<1>1. ReplicationInv
  BY ReplicationInitInv
<1>2. /\ inbound = << >> /\ control = << >> /\ state = << >> /\ wire = << >>
      /\ handler = Idle /\ current = {} /\ forwarder = [s \in Sub |-> NoForwarder]
      /\ connected = FALSE /\ lapses = {}
  BY DEF Init
<1>3. RequestInv
  BY <1>2 DEF RequestInv, Untouched
<1>4. TaskInv
  <2>1. \A s \in Sub : forwarder[s].at = "off"
    BY <1>2 DEF NoForwarder
  <2>2. handler.at = "idle"
    BY <1>2 DEF Idle
  <2> QED
    BY <1>2, <2>1, <2>2 DEF TaskInv
<1>5. FollowInv
  BY <1>2 DEF FollowInv, Serving
<1> QED
  BY <1>1, <1>3, <1>4, <1>5 DEF QuietInv

LEMMA QuietNextInv == QuietInv /\ [Next]_vars => QuietInv'
<1> SUFFICES ASSUME QuietInv, [Next]_vars PROVE QuietInv'
  OBVIOUS
<1>1. ReplicationInv /\ RequestInv /\ TaskInv /\ FollowInv
  BY DEF QuietInv
<1>2. ReplicationInv'
  BY <1>1, ReplicationNextInv
<1>3. CASE AgentUpdates \/ AgentStops \/ AgentLaunches
  <2>1. RequestInv'
    BY <1>1, <1>3, RequestStill
       DEF AgentUpdates, AgentStops, AgentLaunches, laneVars, serverVars, clientVars, boundVars
  <2>2. TaskInv'
    BY <1>1, <1>3, TaskStillSteps
  <2>3. FollowInv'
    BY <1>1, <1>3, FollowAgent, FollowEnds
  <2> QED
    BY <1>2, <2>1, <2>2, <2>3 DEF QuietInv
<1>4. CASE DaemonRestarts \/ Disconnect
  <2>1. Hangup
    BY <1>4 DEF DaemonRestarts, Disconnect
  <2> QED
    BY <1>1, <1>2, <2>1, RequestHangup, TaskHangup, FollowEnds DEF QuietInv
<1>5. CASE Handle
  <2>1. FollowInv'
    BY <1>1, <1>5, FollowSubscribe, FollowHandler, FollowEnds DEF Handle
  <2> QED
    BY <1>1, <1>2, <1>5, <2>1, RequestHandle, TaskHandle DEF QuietInv
<1>6. CASE \E s \in Sub : Forward(s)
  BY <1>1, <1>2, <1>6, RequestForward, TaskForward, FollowForward DEF QuietInv
<1>7. CASE Write \/ ClientReceive
  BY <1>1, <1>2, <1>7, RequestClient, TaskStillSteps, FollowWrite, FollowReceive DEF QuietInv
<1>8. CASE ClientSubscribe \/ ClientUnsubscribe \/ Connect
  BY <1>1, <1>2, <1>8, RequestClient, TaskStillSteps, FollowAsks, FollowEnds DEF QuietInv
<1>9. CASE UNCHANGED vars
  <2>1. /\ UNCHANGED <<running, snapshot, subscribers, connected, inbound, control, state, wire,
                       handler, current, forwarder, desired, replica, resync, relaunches,
                       lapses>>
    BY <1>9 DEF vars, actorVars, laneVars, serverVars, clientVars, boundVars
  <2>2. FollowInv'
    BY <1>1, <2>1 DEF FollowInv, Serving, Recovering, Following, Live, Arrives, UpToDate
  <2> QED
    BY <1>1, <1>2, <1>9, <2>1, <2>2, RequestStill, TaskStillSteps DEF QuietInv
<1> QED
  BY <1>3, <1>4, <1>5, <1>6, <1>7, <1>8, <1>9 DEF Next

\* The inductive invariant behind QuietMeansCurrent: as long as nothing has
\* lapsed, a client that is served is about to be told to ask for a snapshot, or
\* its live subscription still brings it to the present.
THEOREM QuietInvariant == Spec => []QuietInv
  BY QuietInitInv, QuietNextInv, PTL DEF Spec

\* When nothing is under way any more, a connected client that wants the agent
\* has its current state and no mark, for any number of subscriptions, all
\* capacities, however full lanes and channels ran, and however often the
\* connection was lost, as long as no start was dropped, the user did not
\* unsubscribe on this connection, and the agent was not relaunched on it
\* (server.rs: subscribe, emit_update, send_slow_consumer_gap; client.rs:
\* handle_server_frame; reducer.rs: apply).
THEOREM QuietMeansCurrentCorrect == Spec => []QuietMeansCurrent
<1>1. QuietInv => QuietMeansCurrent
  <2> SUFFICES ASSUME QuietInv, connected, desired, running, Quiet, lapses = {}, relaunches = 0,
                      \A s \in replica : s.incarnation = snapshot.incarnation
               PROVE  replica = {snapshot} /\ ~resync
    BY DEF QuietMeansCurrent
  <2>1. ReplicationInv /\ TaskInv /\ (Recovering \/ Following)
    BY DEF QuietInv, FollowInv, Serving
  <2>2. /\ inbound = << >> /\ control = << >> /\ state = << >> /\ wire = << >> /\ handler = Idle
        /\ \A s \in Sub : \/ forwarder[s].at = "off"
                          \/ /\ forwarder[s].at = "recv" /\ subscribers[s].queue = << >>
                             /\ ~subscribers[s].resync_required
    BY DEF Quiet
  <2>3. handler.at = "idle" /\ handler.frames = << >>
    BY <2>2 DEF Idle
  <2>4. \A s \in Live : /\ forwarder[s].at = "recv" /\ subscribers[s].queue = << >>
                        /\ ~subscribers[s].resync_required
    BY <2>1, <2>2, <2>3, LiveNow
  <2>5. ~Recovering
    BY <2>2, <2>4, NoGapInNothing DEF Recovering
  <2>6. Arrives(snapshot.event_sequence)
    BY <2>1, <2>4, <2>5 DEF Following
  <2>7. UpToDate(snapshot.event_sequence)
    BY <2>2, <2>3, <2>6, CleanEmpty DEF Arrives
  <2>8. ASSUME NEW s \in replica PROVE s = snapshot
    <3>1. s.event_sequence = snapshot.event_sequence
      BY <2>7 DEF UpToDate
    <3>2. s = hist[s.event_sequence + 1]
      BY <2>1 DEF ReplicationInv, Faithful, ClientCurrent, CurrentSnapshot
    <3>3. hist[snapshot.event_sequence + 1] = snapshot
      BY <2>1 DEF ReplicationInv, ActorInv, HistoryOK
    <3> QED
      BY <3>1, <3>2, <3>3
  <2> QED
    BY <2>7, <2>8 DEF UpToDate
<1> QED
  BY <1>1, QuietInvariant, PTL
=============================================================================

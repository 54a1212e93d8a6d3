------------------------- MODULE AgentActorProofs -------------------------
(***************************************************************************)
(* Proofs about AgentActor, for every value of its constants: the actor's  *)
(* state keeps its shape and bounds, the replay window is the newest       *)
(* updates without a hole, no subscriber misses an update unknowingly, and *)
(* a subscription is started with a replay exactly when one is right.      *)
(***************************************************************************)
EXTENDS AgentRuns, WellFoundedInduction, TLAPS

---------------------------------------------------------------------------
\* The inductive invariant.  Besides the properties it says how the two ends
\* of a subscription channel and the actor's life are related.

\* The actor keeps the sender of a subscription only while it runs, the
\* receiver is open and it has not been flagged (ActorState::record, and the
\* return of run_agent_actor); no subscription is of a later actor.
Attachment ==
    \A s \in Sub :
       LET sub == subscribers[s]
       IN /\ sub.incarnation <= snapshot.incarnation
          /\ sub.checked => sub.open
          /\ sub.attached => /\ running
                             /\ sub.open
                             /\ ~sub.resync_required
                             /\ sub.incarnation = snapshot.incarnation

\* StreamComplete of one subscription, in its two parts.
QueueOK(sub, now, h) ==
    \A i \in DOMAIN sub.queue :
       /\ sub.queue[i].event_sequence = sub.position + i
       /\ sub.queue[i].incarnation = sub.incarnation
       /\ sub.incarnation = now.incarnation => Authentic(sub.queue[i], h)

ReachesSnapshot(sub, alive, now) ==
    (alive /\ sub.incarnation = now.incarnation /\ ~sub.resync_required)
       => /\ sub.attached
          /\ sub.position + Len(sub.queue) = now.event_sequence

ActorInv ==
    /\ ActorTypeOK
    /\ HistoryOK
    /\ Attachment
    /\ ReplayWindow
    /\ StreamComplete

---------------------------------------------------------------------------
\* Applying an update.

\* The update that follows snapshot s: what apply_change and publish_event
\* build.
Successor(s, u) ==
    /\ u \in Update
    /\ u.incarnation = s.incarnation
    /\ u.event_sequence = s.event_sequence + 1
    /\ u.kind = "delta" => u.base_revision = s.revision

\* AgentSnapshot::apply_update keeps the incarnation, takes the update's
\* event sequence and stays a snapshot.
LEMMA ApplyUpdateType ==
    ASSUME NEW s \in Snapshot, NEW u \in Update
    PROVE  /\ ApplyUpdate(s, u) \in Snapshot
           /\ ApplyUpdate(s, u).incarnation = s.incarnation
           /\ ApplyUpdate(s, u).event_sequence = u.event_sequence
<1>1. CASE u.kind = "delta"
  <2>1. u \in Delta
    BY <1>1 DEF Update, Event
  <2>2. ApplyChange(s.body, u.change) \in Body
    BY <2>1, BodyAssumption DEF Snapshot, Delta
  <2>3. ApplyUpdate(s, u) =
           [incarnation |-> s.incarnation, revision |-> u.revision,
            event_sequence |-> u.event_sequence, body |-> ApplyChange(s.body, u.change)]
    BY <1>1 DEF ApplyUpdate, Snapshot
  <2> QED
    BY <2>1, <2>2, <2>3 DEF Snapshot, Delta
<1>2. CASE u.kind # "delta"
  <2>1. u.event_sequence \in Counter
    BY DEF Update, Delta, Event
  <2> QED
    BY <1>2, <2>1 DEF ApplyUpdate, Snapshot
<1> QED
  BY <1>1, <1>2

---------------------------------------------------------------------------
\* Recording an update.

\* What ActorState::record does to one subscriber: nothing when its sender is
\* gone, else it queues the update or, without room, flags and drops it.
LEMMA DeliverCases ==
    ASSUME NEW sub \in Subscription, NEW u \in Update,
           Len(sub.queue) <= SubscriberCapacity
    PROVE  LET new == Deliver(sub, u)
           IN /\ new \in Subscription
              /\ Len(new.queue) <= SubscriberCapacity
              /\ new.open = sub.open /\ new.checked = sub.checked
              /\ new.incarnation = sub.incarnation /\ new.position = sub.position
              /\ \/ ~sub.attached /\ new = sub
                 \/ /\ sub.attached /\ new.attached
                    /\ new.resync_required = sub.resync_required
                    /\ new.queue = Append(sub.queue, u)
                 \/ /\ sub.attached /\ ~new.attached
                    /\ new.resync_required
                    /\ new.queue = sub.queue
<1>1. CASE ~sub.attached
  BY <1>1 DEF Deliver
<1>2. CASE sub.attached /\ Len(sub.queue) < SubscriberCapacity
  <2>1. Deliver(sub, u) = [sub EXCEPT !.queue = Append(sub.queue, u)]
    BY <1>2 DEF Deliver
  <2>2. /\ sub.queue \in Seq(Update)
        /\ Append(sub.queue, u) \in Seq(Update)
        /\ Len(Append(sub.queue, u)) = Len(sub.queue) + 1
        /\ Len(sub.queue) \in Nat
    BY DEF Subscription
  <2>3. /\ Deliver(sub, u) \in Subscription
        /\ Deliver(sub, u).queue = Append(sub.queue, u)
    BY <2>1, <2>2 DEF Subscription
  <2>4. /\ Deliver(sub, u).open = sub.open
        /\ Deliver(sub, u).checked = sub.checked
        /\ Deliver(sub, u).attached = sub.attached
        /\ Deliver(sub, u).resync_required = sub.resync_required
        /\ Deliver(sub, u).incarnation = sub.incarnation
        /\ Deliver(sub, u).position = sub.position
    BY <2>1 DEF Subscription
  <2>5. Len(Deliver(sub, u).queue) <= SubscriberCapacity
    BY <1>2, <2>2, <2>3, CapacityAssumption
  <2> QED
    BY <1>2, <2>3, <2>4, <2>5
<1>3. CASE sub.attached /\ ~(Len(sub.queue) < SubscriberCapacity)
  <2>1. Deliver(sub, u) = [sub EXCEPT !.resync_required = TRUE, !.attached = FALSE]
    BY <1>3 DEF Deliver
  <2> QED
    BY <1>3, <2>1 DEF Subscription
<1> QED
  BY <1>1, <1>2, <1>3

\* The replay window after a push: one longer, or full and shifted by one, and
\* ending with the new update.
LEMMA PushReplayShape ==
    ASSUME replay \in Seq(Update), Len(replay) <= ReplayCapacity, NEW u \in Update
    PROVE  /\ PushReplay(u) \in Seq(Update)
           /\ Len(PushReplay(u)) = IF Len(replay) = ReplayCapacity
                                   THEN ReplayCapacity ELSE Len(replay) + 1
           /\ PushReplay(u)[Len(PushReplay(u))] = u
           /\ \A i \in 1 .. Len(PushReplay(u)) - 1 :
                 PushReplay(u)[i] = IF Len(replay) = ReplayCapacity
                                    THEN replay[i + 1] ELSE replay[i]
<1>1. CASE Len(replay) = ReplayCapacity
  <2>1. PushReplay(u) = Append(Tail(replay), u)
    BY <1>1 DEF PushReplay
  <2>2. replay # << >>
    BY <1>1, CapacityAssumption
  <2>3. /\ Tail(replay) \in Seq(Update)
        /\ Len(Tail(replay)) = Len(replay) - 1
        /\ \A i \in 1 .. Len(replay) - 1 : Tail(replay)[i] = replay[i + 1]
    BY <2>2
  <2> QED
    BY <1>1, <2>1, <2>3, CapacityAssumption
<1>2. CASE Len(replay) # ReplayCapacity
  <2>1. PushReplay(u) = Append(replay, u)
    BY <1>2 DEF PushReplay
  <2> QED
    BY <1>2, <2>1, CapacityAssumption
<1> QED
  BY <1>1, <1>2

\* An update of the past stays authentic when the history grows.
LEMMA AuthenticStable ==
    ASSUME NEW h \in Seq(Snapshot), NEW next \in Snapshot,
           NEW w, w.event_sequence \in Nat, Authentic(w, h)
    PROVE  Authentic(w, Append(h, next))
<1> DEFINE n == w.event_sequence
<1>1. n \in 1 .. Len(h) - 1 /\ Len(h) \in Nat
  BY DEF Authentic
<1>2. /\ Append(h, next)[n] = h[n]
      /\ Append(h, next)[n + 1] = h[n + 1]
      /\ Len(Append(h, next)) = Len(h) + 1
  BY <1>1
<1>3. n \in 1 .. Len(Append(h, next)) - 1
  BY <1>1, <1>2
<1> QED
  BY <1>2, <1>3 DEF Authentic

\* Recording the successor of the snapshot, the common part of
\* ActorState::apply_change and publish_event, keeps the invariant.
LEMMA RecordKeepsInv ==
    ASSUME ActorInv, running, running' = running,
           NEW u, Successor(snapshot, u),
           snapshot' = ApplyUpdate(snapshot, u),
           Record(u),
           hist' = Append(hist, snapshot')
    PROVE  ActorInv'
<1> USE DEF ActorInv
<1>1. /\ snapshot \in Snapshot /\ u \in Update
      /\ snapshot.event_sequence \in Nat
      /\ u.event_sequence \in Nat
      /\ hist \in Seq(Snapshot)
  BY CapacityAssumption DEF ActorTypeOK, Successor, Snapshot, Counter
<1>2. /\ snapshot' \in Snapshot
      /\ snapshot'.incarnation = snapshot.incarnation
      /\ snapshot'.event_sequence = snapshot.event_sequence + 1
  BY <1>1, ApplyUpdateType DEF Successor
<1>0. /\ snapshot.event_sequence \in Nat
      /\ snapshot'.event_sequence = snapshot.event_sequence + 1
      /\ u.event_sequence = snapshot.event_sequence + 1
  BY <1>1, <1>2 DEF Successor
<1>3. /\ replay' \in Seq(Update)
      /\ Len(replay') <= ReplayCapacity
      /\ Len(replay') = IF Len(replay) = ReplayCapacity
                        THEN ReplayCapacity ELSE Len(replay) + 1
      /\ replay'[Len(replay')] = u
      /\ \A i \in 1 .. Len(replay') - 1 :
            replay'[i] = IF Len(replay) = ReplayCapacity THEN replay[i + 1] ELSE replay[i]
  <2>1. replay \in Seq(Update) /\ Len(replay) <= ReplayCapacity /\ Len(replay) \in Nat
    BY DEF ActorTypeOK
  <2>2. replay' = PushReplay(u)
    BY DEF Record
  <2>3. Len(replay') = IF Len(replay) = ReplayCapacity
                       THEN ReplayCapacity ELSE Len(replay) + 1
    BY <1>1, <2>1, <2>2, PushReplayShape
  <2>4. Len(replay') <= ReplayCapacity
    BY <2>1, <2>3, CapacityAssumption
  <2> QED
    BY <1>1, <2>1, <2>2, <2>3, <2>4, PushReplayShape
<1>4. \A s \in Sub : subscribers'[s] = Deliver(subscribers[s], u)
  BY DEF Record
<1>5. \A s \in Sub : subscribers[s] \in Subscription /\ Len(subscribers[s].queue) <= SubscriberCapacity
  BY DEF ActorTypeOK
<1>6. ActorTypeOK'
  <2>1. subscribers' \in [Sub -> Subscription]
    BY <1>1, <1>5, DeliverCases DEF Record
  <2>2. \A s \in Sub : Len(subscribers'[s].queue) <= SubscriberCapacity
    BY <1>1, <1>4, <1>5, DeliverCases
  <2>3. hist' \in Seq(Snapshot)
    BY <1>1, <1>2
  <2>4. running' \in BOOLEAN
    BY DEF ActorTypeOK
  <2> QED
    BY <1>2, <1>3, <2>1, <2>2, <2>3, <2>4 DEF ActorTypeOK
<1>7. HistoryOK'
  BY <1>1, <1>2 DEF HistoryOK
<1>8. Authentic(u, hist')
  <2>1. /\ Len(hist) = snapshot.event_sequence + 1
        /\ hist[Len(hist)] = snapshot
    BY DEF HistoryOK
  <2>2. /\ hist'[u.event_sequence] = snapshot
        /\ hist'[u.event_sequence + 1] = snapshot'
    BY <1>1, <2>1 DEF Successor
  <2>3. u.event_sequence \in 1 .. Len(hist') - 1
    BY <1>1, <2>1 DEF Successor
  <2> QED
    BY <2>2, <2>3 DEF Authentic, Successor
<1>9. \A w \in Update : Authentic(w, hist) => Authentic(w, hist')
  <2> SUFFICES ASSUME NEW w \in Update, Authentic(w, hist)
               PROVE  Authentic(w, hist')
    OBVIOUS
  <2>1. w.event_sequence \in Nat
    BY CapacityAssumption DEF Update, Delta, Event, Counter
  <2> QED
    BY <1>1, <1>2, <2>1, AuthenticStable
<1>10. Attachment'
  <2> SUFFICES ASSUME NEW s \in Sub
               PROVE  LET sub == subscribers'[s]
                      IN /\ sub.incarnation <= snapshot'.incarnation
                         /\ sub.checked => sub.open
                         /\ sub.attached => /\ running'
                                            /\ sub.open
                                            /\ ~sub.resync_required
                                            /\ sub.incarnation = snapshot'.incarnation
    BY DEF Attachment
  <2>1. LET sub == subscribers[s]
        IN /\ sub.incarnation <= snapshot.incarnation
           /\ sub.checked => sub.open
           /\ sub.attached => /\ running
                              /\ sub.open
                              /\ ~sub.resync_required
                              /\ sub.incarnation = snapshot.incarnation
    BY DEF Attachment
  <2> QED
    BY <1>1, <1>2, <1>4, <1>5, <2>1, DeliverCases
<1>11. ReplayWindow'
  <2>0. Len(replay) \in Nat /\ Len(replay') \in Nat /\ ReplayCapacity \in Nat
    BY <1>3, CapacityAssumption DEF ActorTypeOK
  <2>1. /\ Len(replay) \in Nat
        /\ Len(replay) = IF snapshot.event_sequence < ReplayCapacity
                         THEN snapshot.event_sequence ELSE ReplayCapacity
        /\ \A i \in 1 .. Len(replay) :
              /\ replay[i].event_sequence = snapshot.event_sequence - Len(replay) + i
              /\ replay[i].incarnation = snapshot.incarnation
              /\ replay[i] \in Update
              /\ Authentic(replay[i], hist)
    BY DEF ReplayWindow, ActorTypeOK
  <2>2. Len(replay') = IF snapshot'.event_sequence < ReplayCapacity
                       THEN snapshot'.event_sequence ELSE ReplayCapacity
    BY <1>1, <1>2, <1>3, <2>1, CapacityAssumption
  <2>3. ASSUME NEW i \in 1 .. Len(replay')
        PROVE  /\ replay'[i].event_sequence = snapshot'.event_sequence - Len(replay') + i
               /\ replay'[i].incarnation = snapshot'.incarnation
               /\ Authentic(replay'[i], hist')
    <3>1. CASE i = Len(replay')
      <4>1. replay'[i] = u
        BY <1>3, <3>1
      <4> QED
        BY <1>1, <1>2, <1>3, <1>8, <3>1, <4>1 DEF Successor
    <3>2. CASE i # Len(replay')
      <4>1. PICK j \in 1 .. Len(replay) : /\ replay'[i] = replay[j]
                                          /\ j = Len(replay) + i - Len(replay') + 1
        <5>1. CASE Len(replay) = ReplayCapacity
          <6>1. i + 1 \in 1 .. Len(replay) /\ replay'[i] = replay[i + 1]
            BY <1>3, <2>0, <3>2, <5>1
          <6>2. i + 1 = Len(replay) + i - Len(replay') + 1
            BY <1>3, <2>0, <5>1
          <6> QED
            BY <6>1, <6>2
        <5>2. CASE Len(replay) # ReplayCapacity
          <6>1. i \in 1 .. Len(replay) /\ replay'[i] = replay[i]
            BY <1>3, <2>0, <3>2, <5>2
          <6>2. i = Len(replay) + i - Len(replay') + 1
            BY <1>3, <2>0, <5>2
          <6> QED
            BY <6>1, <6>2
        <5> QED
          BY <5>1, <5>2
      <4>2. /\ replay[j].event_sequence = snapshot.event_sequence - Len(replay) + j
            /\ replay[j].incarnation = snapshot.incarnation
            /\ Authentic(replay[j], hist')
        BY <1>9, <2>1
      <4>3. snapshot.event_sequence - Len(replay) + j = snapshot'.event_sequence - Len(replay') + i
        BY <1>0, <2>0, <4>1
      <4> QED
        BY <1>2, <4>1, <4>2, <4>3
    <3> QED
      BY <3>1, <3>2
  <2>4. DOMAIN replay' = 1 .. Len(replay')
    BY <1>3
  <2> QED
    BY <2>2, <2>3, <2>4 DEF ReplayWindow
<1>12. StreamComplete'
  <2> SUFFICES ASSUME NEW s \in Sub, subscribers'[s].open
               PROVE  /\ QueueOK(subscribers'[s], snapshot', hist')
                      /\ ReachesSnapshot(subscribers'[s], running', snapshot')
    BY DEF StreamComplete, QueueOK, ReachesSnapshot
  <2> DEFINE old == subscribers[s]
             new == subscribers'[s]
  <2>1. /\ new.open = old.open
        /\ new.incarnation = old.incarnation /\ new.position = old.position
        /\ \/ ~old.attached /\ new = old
           \/ /\ old.attached /\ new.attached
              /\ new.resync_required = old.resync_required
              /\ new.queue = Append(old.queue, u)
           \/ /\ old.attached /\ ~new.attached
              /\ new.resync_required
              /\ new.queue = old.queue
    <3>1. /\ new = Deliver(old, u)
          /\ old \in Subscription
          /\ Len(old.queue) <= SubscriberCapacity
      BY <1>4, <1>5
    <3>2. u \in Update
      BY <1>1
    <3> HIDE DEF old, new
    <3> QED
      BY <3>1, <3>2, DeliverCases, Zenon
  <2>2. /\ old.queue \in Seq(Update) /\ old.position \in Nat
        /\ old.open /\ QueueOK(old, snapshot, hist)
        /\ ReachesSnapshot(old, running, snapshot)
        /\ old.attached => ~old.resync_required /\ old.incarnation = snapshot.incarnation
    BY <1>5, <2>1, CapacityAssumption
       DEF StreamComplete, QueueOK, ReachesSnapshot, Attachment, Subscription, Counter
  <2>2a. new.position = old.position /\ old.position \in Nat /\ Len(old.queue) \in Nat
    BY <2>1, <2>2
  <2>3. ASSUME NEW i \in DOMAIN old.queue
        PROVE  /\ old.queue[i].event_sequence = old.position + i
               /\ old.queue[i].incarnation = old.incarnation
               /\ old.incarnation = snapshot'.incarnation => Authentic(old.queue[i], hist')
    <3>1. old.queue[i] \in Update
      BY <2>2
    <3> QED
      BY <1>2, <1>9, <2>2, <3>1 DEF QueueOK
  <2>4. CASE ~old.attached
    BY <1>2, <2>1, <2>2, <2>3, <2>4 DEF QueueOK, ReachesSnapshot
  <2>5. CASE old.attached /\ new.queue = old.queue /\ new.resync_required
    BY <2>1, <2>3, <2>5 DEF QueueOK, ReachesSnapshot
  <2>6. CASE old.attached /\ new.attached /\ new.queue = Append(old.queue, u)
             /\ new.resync_required = old.resync_required
    <3>1. old.position + Len(old.queue) = snapshot.event_sequence
      BY <2>2, <2>6 DEF ReachesSnapshot
    <3>1a. old.position + (Len(old.queue) + 1) = snapshot.event_sequence + 1
      <4> DEFINE p == old.position
                 n == Len(old.queue)
                 e == snapshot.event_sequence
      <4>1. p \in Nat /\ n \in Nat /\ p + n = e
        BY <2>2a, <3>1
      <4> HIDE DEF p, n, e
      <4>2. p + (n + 1) = e + 1
        BY <4>1
      <4> QED
        BY <4>2 DEF p, n, e
    <3>2. ReachesSnapshot(new, running', snapshot')
      <4>1. Len(new.queue) = Len(old.queue) + 1 /\ Len(old.queue) \in Nat
        BY <1>1, <2>2, <2>6
      <4>2. new.position + Len(new.queue) = snapshot'.event_sequence
        <5>1. new.position + Len(new.queue) = old.position + (Len(old.queue) + 1)
          BY <2>2a, <4>1
        <5> QED
          BY <1>0, <3>1a, <5>1
      <4> QED
        BY <2>6, <4>2 DEF ReachesSnapshot
    <3>3. ASSUME NEW i \in DOMAIN new.queue
          PROVE  /\ new.queue[i].event_sequence = new.position + i
                 /\ new.queue[i].incarnation = new.incarnation
                 /\ new.incarnation = snapshot'.incarnation => Authentic(new.queue[i], hist')
      <4>1. CASE i \in DOMAIN old.queue
        BY <2>1, <2>2, <2>3, <2>6, <4>1
      <4>2. CASE i \notin DOMAIN old.queue
        <5>1. i = Len(old.queue) + 1 /\ new.queue[i] = u
          BY <1>1, <2>2, <2>6, <4>2
        <5>2. u.event_sequence = new.position + i
          <6> HIDE DEF old, new
          <6> QED
            BY <1>0, <2>2a, <3>1a, <5>1
        <5>3. u.incarnation = new.incarnation
          BY <2>1, <2>2, <2>6 DEF Successor
        <5> QED
          BY <1>8, <5>1, <5>2, <5>3
      <4> QED
        BY <4>1, <4>2
    <3> QED
      BY <3>2, <3>3 DEF QueueOK
  <2> QED
    BY <2>1, <2>4, <2>5, <2>6
<1> QED
  BY <1>6, <1>7, <1>10, <1>11, <1>12

---------------------------------------------------------------------------
\* Steps that touch only subscriptions.

\* What the invariant says of one subscription.
SubscriptionInv(sub, alive, now, h) ==
    /\ sub \in Subscription
    /\ Len(sub.queue) <= SubscriberCapacity
    /\ sub.incarnation <= now.incarnation
    /\ sub.checked => sub.open
    /\ sub.attached => /\ alive
                       /\ sub.open
                       /\ ~sub.resync_required
                       /\ sub.incarnation = now.incarnation
    /\ sub.open => QueueOK(sub, now, h) /\ ReachesSnapshot(sub, alive, now)

\* The invariant holds of each subscription.
LEMMA SubscriptionInvHolds ==
    ASSUME ActorInv, NEW s \in Sub
    PROVE  SubscriptionInv(subscribers[s], running, snapshot, hist)
<1>1. /\ subscribers[s] \in Subscription
      /\ Len(subscribers[s].queue) <= SubscriberCapacity
  BY DEF ActorInv, ActorTypeOK
<1>2. LET sub == subscribers[s]
      IN /\ sub.incarnation <= snapshot.incarnation
         /\ sub.checked => sub.open
         /\ sub.attached => /\ running
                            /\ sub.open
                            /\ ~sub.resync_required
                            /\ sub.incarnation = snapshot.incarnation
  BY DEF ActorInv, Attachment
<1>3. subscribers[s].open => /\ QueueOK(subscribers[s], snapshot, hist)
                             /\ ReachesSnapshot(subscribers[s], running, snapshot)
  BY DEF ActorInv, StreamComplete, QueueOK, ReachesSnapshot
<1> QED
  BY <1>1, <1>2, <1>3 DEF SubscriptionInv

\* A step that leaves the actor's own state alone keeps the invariant if it
\* keeps that of each subscription.
LEMMA SubscribersStep ==
    ASSUME ActorInv,
           UNCHANGED <<running, snapshot, replay, hist>>,
           subscribers' = [s \in Sub |-> subscribers'[s]],
           \A s \in Sub : SubscriptionInv(subscribers'[s], running, snapshot, hist)
    PROVE  ActorInv'
<1>1. ActorTypeOK'
  BY DEF ActorInv, ActorTypeOK, SubscriptionInv
<1>2. HistoryOK'
  BY DEF ActorInv, HistoryOK
<1>3. Attachment'
  BY DEF Attachment, SubscriptionInv
<1>4. ReplayWindow'
  BY DEF ActorInv, ReplayWindow
<1>5. StreamComplete'
  BY DEF StreamComplete, SubscriptionInv, QueueOK, ReachesSnapshot
<1> QED
  BY <1>1, <1>2, <1>3, <1>4, <1>5 DEF ActorInv

\* A subscription that nobody has opened, or that its owner has dropped.
LEMMA NoSubscriptionInv ==
    ASSUME NEW alive, NEW h, NEW now \in Snapshot
    PROVE  SubscriptionInv(NoSubscription, alive, now, h)
<1>1. NoSubscription \in Subscription
  BY CapacityAssumption DEF NoSubscription, Subscription, Counter
<1>2. Len(NoSubscription.queue) <= SubscriberCapacity
  BY CapacityAssumption DEF NoSubscription
<1> QED
  BY <1>1, <1>2 DEF SubscriptionInv, NoSubscription, Snapshot

\* A new subscription starts at the snapshot with an empty channel.
LEMMA SubscribeKeepsInv ==
    ASSUME ActorInv, NEW s \in Sub, subscribe(s)
    PROVE  ActorInv'
<1> DEFINE new == NewSubscription
<1>1. snapshot \in Snapshot /\ subscribers \in [Sub -> Subscription]
  BY DEF ActorInv, ActorTypeOK
<1>2. new = [open |-> TRUE, attached |-> TRUE, checked |-> FALSE, resync_required |-> FALSE,
             queue |-> << >>, incarnation |-> snapshot.incarnation,
             position |-> snapshot.event_sequence]
  BY DEF NewSubscription
<1> HIDE DEF new
<1>3. SubscriptionInv(new, running, snapshot, hist)
  <2>1. new \in Subscription
    BY <1>1, <1>2 DEF Subscription, Snapshot
  <2>2. Len(new.queue) <= SubscriberCapacity /\ new.incarnation <= snapshot.incarnation
    BY <1>1, <1>2, CapacityAssumption DEF Snapshot
  <2>3. QueueOK(new, snapshot, hist)
    BY <1>2 DEF QueueOK
  <2>4. ReachesSnapshot(new, running, snapshot)
    BY <1>1, <1>2, CapacityAssumption DEF ReachesSnapshot, Snapshot, Counter
  <2>5. running
    BY DEF subscribe
  <2> QED
    BY <1>2, <2>1, <2>2, <2>3, <2>4, <2>5 DEF SubscriptionInv
<1>4. \A t \in Sub : subscribers'[t] = IF t = s THEN new ELSE subscribers[t]
  BY <1>1 DEF subscribe, new
<1>5. \A t \in Sub : SubscriptionInv(subscribers'[t], running, snapshot, hist)
  BY <1>3, <1>4, SubscriptionInvHolds
<1>6. subscribers' = [t \in Sub |-> subscribers'[t]]
  BY <1>1 DEF subscribe
<1> QED
  BY <1>5, <1>6, SubscribersStep DEF subscribe

\* Passing the first test of recv changes no channel.
LEMMA RecvCheckKeepsInv ==
    ASSUME ActorInv, NEW s \in Sub, RecvCheck(s)
    PROVE  ActorInv'
<1> DEFINE old == subscribers[s]
           new == [old EXCEPT !.checked = TRUE]
<1>1. subscribers \in [Sub -> Subscription]
  BY DEF ActorInv, ActorTypeOK
<1>2. /\ new \in Subscription
      /\ new.open = old.open /\ new.attached = old.attached
      /\ new.resync_required = old.resync_required /\ new.queue = old.queue
      /\ new.incarnation = old.incarnation /\ new.position = old.position
  BY <1>1 DEF Subscription
<1>3. SubscriptionInv(new, running, snapshot, hist)
  <2>1. SubscriptionInv(old, running, snapshot, hist) /\ old.open
    BY SubscriptionInvHolds DEF RecvCheck
  <2> HIDE DEF new
  <2> QED
    BY <1>2, <2>1 DEF SubscriptionInv, QueueOK, ReachesSnapshot
<1>4. \A t \in Sub : subscribers'[t] = IF t = s THEN new ELSE subscribers[t]
  BY <1>1 DEF RecvCheck
<1>5. \A t \in Sub : SubscriptionInv(subscribers'[t], running, snapshot, hist)
  BY <1>3, <1>4, SubscriptionInvHolds
<1>6. subscribers' = [t \in Sub |-> subscribers'[t]]
  BY <1>1 DEF RecvCheck
<1> QED
  BY <1>5, <1>6, SubscribersStep DEF RecvCheck

\* Receiving moves the position by the one update it takes from the channel.
LEMMA RecvUpdateKeepsInv ==
    ASSUME ActorInv, NEW s \in Sub, RecvUpdate(s)
    PROVE  ActorInv'
<1> DEFINE old == subscribers[s]
           new == Received(old)
<1>1. /\ subscribers \in [Sub -> Subscription] /\ snapshot \in Snapshot
      /\ old \in Subscription
      /\ old.queue \in Seq(Update) /\ old.queue # << >>
      /\ old.position \in Nat /\ SubscriberCapacity \in Nat
  BY CapacityAssumption DEF ActorInv, ActorTypeOK, RecvUpdate, Subscription, Counter
<1>2. SubscriptionInv(old, running, snapshot, hist)
  BY SubscriptionInvHolds
<1>3. old.open
  BY <1>2 DEF RecvUpdate, SubscriptionInv
<1>4. /\ Tail(old.queue) \in Seq(Update)
      /\ Len(old.queue) \in Nat
      /\ Len(Tail(old.queue)) = Len(old.queue) - 1
      /\ \A i \in 1 .. Len(old.queue) - 1 : Tail(old.queue)[i] = old.queue[i + 1]
      /\ 1 \in DOMAIN old.queue
      /\ Head(old.queue) = old.queue[1]
  BY <1>1
<1>5. \A i \in DOMAIN old.queue :
         /\ old.queue[i] \in Update
         /\ old.queue[i].event_sequence = old.position + i
         /\ old.queue[i].incarnation = old.incarnation
         /\ old.incarnation = snapshot.incarnation => Authentic(old.queue[i], hist)
  BY <1>1, <1>2, <1>3 DEF SubscriptionInv, QueueOK
<1>6. /\ Head(old.queue).event_sequence = old.position + 1
      /\ Head(old.queue).event_sequence \in Counter
  BY <1>4, <1>5 DEF Update, Delta, Event
<1>7. /\ new \in Subscription
      /\ new.open = old.open /\ new.attached = old.attached /\ ~new.checked
      /\ new.resync_required = old.resync_required /\ new.incarnation = old.incarnation
      /\ new.queue = Tail(old.queue)
      /\ new.position = old.position + 1
  BY <1>1, <1>4, <1>6 DEF Subscription, Received
<1> HIDE DEF new
<1>8. QueueOK(new, snapshot, hist)
  <2> SUFFICES ASSUME NEW i \in DOMAIN new.queue
               PROVE  /\ new.queue[i].event_sequence = new.position + i
                      /\ new.queue[i].incarnation = new.incarnation
                      /\ new.incarnation = snapshot.incarnation => Authentic(new.queue[i], hist)
    BY DEF QueueOK
  <2>1. i \in 1 .. Len(old.queue) - 1 /\ new.queue[i] = old.queue[i + 1]
    BY <1>4, <1>7
  <2>2. i + 1 \in DOMAIN old.queue /\ i \in Nat
    BY <1>1, <1>4, <2>1
  <2>3. old.position + (i + 1) = old.position + 1 + i
    BY <1>1, <2>2
  <2> QED
    BY <1>5, <1>7, <2>1, <2>2, <2>3
<1>9. ReachesSnapshot(new, running, snapshot)
  <2> SUFFICES ASSUME running, new.incarnation = snapshot.incarnation, ~new.resync_required
               PROVE  new.attached /\ new.position + Len(new.queue) = snapshot.event_sequence
    BY DEF ReachesSnapshot
  <2>1. old.attached /\ old.position + Len(old.queue) = snapshot.event_sequence
    BY <1>2, <1>3, <1>7 DEF SubscriptionInv, ReachesSnapshot
  <2>2. old.position + 1 + (Len(old.queue) - 1) = old.position + Len(old.queue)
    BY <1>1, <1>4
  <2> QED
    BY <1>4, <1>7, <2>1, <2>2
<1>10. SubscriptionInv(new, running, snapshot, hist)
  <2>1. Len(new.queue) <= SubscriberCapacity
    BY <1>1, <1>2, <1>4, <1>7 DEF SubscriptionInv
  <2> QED
    BY <1>2, <1>7, <1>8, <1>9, <2>1 DEF SubscriptionInv
<1>11. \A t \in Sub : subscribers'[t] = IF t = s THEN new ELSE subscribers[t]
  BY <1>1 DEF RecvUpdate, new
<1>12. \A t \in Sub : SubscriptionInv(subscribers'[t], running, snapshot, hist)
  BY <1>10, <1>11, SubscriptionInvHolds
<1>13. subscribers' = [t \in Sub |-> subscribers'[t]]
  BY <1>1 DEF RecvUpdate
<1> QED
  BY <1>12, <1>13, SubscribersStep DEF RecvUpdate

\* A dropped subscription is promised nothing.
LEMMA DropSubscriptionKeepsInv ==
    ASSUME ActorInv, NEW s \in Sub, DropSubscription(s)
    PROVE  ActorInv'
<1>1. subscribers \in [Sub -> Subscription] /\ snapshot \in Snapshot
  BY DEF ActorInv, ActorTypeOK
<1>2. \A t \in Sub : subscribers'[t] = IF t = s THEN NoSubscription ELSE subscribers[t]
  BY <1>1 DEF DropSubscription
<1>3. \A t \in Sub : SubscriptionInv(subscribers'[t], running, snapshot, hist)
  BY <1>1, <1>2, SubscriptionInvHolds, NoSubscriptionInv
<1>4. subscribers' = [t \in Sub |-> subscribers'[t]]
  BY <1>1 DEF DropSubscription
<1> QED
  BY <1>3, <1>4, SubscribersStep DEF DropSubscription

---------------------------------------------------------------------------
\* The actor's life.

\* A stopped actor detaches every subscriber.
LEMMA ShutdownKeepsInv ==
    ASSUME ActorInv, shutdown
    PROVE  ActorInv'
<1>1. subscribers \in [Sub -> Subscription] /\ snapshot \in Snapshot
  BY DEF ActorInv, ActorTypeOK
<1>2. ASSUME NEW s \in Sub
      PROVE  /\ subscribers'[s] \in Subscription
             /\ ~subscribers'[s].attached
             /\ subscribers'[s].open = subscribers[s].open
             /\ subscribers'[s].checked = subscribers[s].checked
             /\ subscribers'[s].queue = subscribers[s].queue
             /\ subscribers'[s].incarnation = subscribers[s].incarnation
             /\ subscribers'[s].position = subscribers[s].position
  <2>1. subscribers'[s] = [subscribers[s] EXCEPT !.attached = FALSE]
    BY DEF shutdown, Detached
  <2> QED
    BY <1>1, <2>1 DEF Subscription
<1>3. ActorTypeOK'
  <2>1. subscribers' \in [Sub -> Subscription]
    BY <1>2 DEF shutdown, Detached
  <2>2. \A s \in Sub : Len(subscribers'[s].queue) <= SubscriberCapacity
    BY <1>2 DEF ActorInv, ActorTypeOK
  <2> QED
    BY <2>1, <2>2 DEF ActorInv, ActorTypeOK, shutdown
<1>4. HistoryOK' /\ ReplayWindow'
  BY DEF ActorInv, HistoryOK, ReplayWindow, shutdown
<1>5. Attachment'
  BY <1>2 DEF ActorInv, Attachment, shutdown
<1>6. StreamComplete'
  BY <1>2 DEF ActorInv, StreamComplete, shutdown
<1> QED
  BY <1>3, <1>4, <1>5, <1>6 DEF ActorInv

\* A fresh actor: its history is its own, and every open subscription is of an
\* earlier one.
LEMMA SpawnKeepsInv ==
    ASSUME ActorInv, NEW b \in SpawnBody, spawn(b)
    PROVE  ActorInv'
<1>1. /\ subscribers \in [Sub -> Subscription] /\ snapshot \in Snapshot
      /\ snapshot.incarnation \in Nat
  BY DEF ActorInv, ActorTypeOK, Snapshot
<1>2. /\ snapshot' = [incarnation |-> snapshot.incarnation + 1, revision |-> 0,
                      event_sequence |-> 0, body |-> b]
      /\ snapshot' \in Snapshot
  BY <1>1, BodyAssumption, CapacityAssumption DEF spawn, Fresh, Snapshot, Counter
<1>3. replay' = << >> /\ hist' = <<snapshot'>> /\ running' = TRUE /\ subscribers' = subscribers
  BY DEF spawn
<1>4. ActorTypeOK'
  BY <1>2, <1>3, CapacityAssumption DEF ActorInv, ActorTypeOK
<1>5. HistoryOK'
  BY <1>2, <1>3 DEF HistoryOK
<1>6. ReplayWindow'
  BY <1>2, <1>3, CapacityAssumption DEF ReplayWindow
<1>7. \A s \in Sub : /\ subscribers[s].incarnation \in Nat
                     /\ subscribers[s].incarnation <= snapshot.incarnation
                     /\ subscribers[s].incarnation # snapshot'.incarnation
                     /\ subscribers[s].incarnation <= snapshot'.incarnation
                     /\ ~subscribers[s].attached
  BY <1>1, <1>2 DEF ActorInv, Attachment, Subscription, spawn
<1>8. Attachment'
  BY <1>3, <1>7 DEF ActorInv, Attachment
<1>9. StreamComplete'
  BY <1>3, <1>7 DEF ActorInv, StreamComplete
<1> QED
  BY <1>4, <1>5, <1>6, <1>8, <1>9 DEF ActorInv

---------------------------------------------------------------------------
\* The two commands that record an update.

\* A state change is recorded as the delta that leads to the new snapshot.
LEMMA ApplyChangeKeepsInv ==
    ASSUME ActorInv, NEW c \in Change, apply_change_command(c)
    PROVE  ActorInv'
<1> DEFINE delta == [kind           |-> "delta",
                     incarnation    |-> snapshot.incarnation,
                     event_sequence |-> snapshot.event_sequence + 1,
                     base_revision  |-> snapshot.revision,
                     revision       |-> snapshot.revision + 1,
                     change         |-> c]
<1>1. /\ snapshot.incarnation \in Nat
      /\ snapshot.event_sequence \in Counter /\ snapshot.event_sequence + 1 \in Counter
      /\ snapshot.revision \in Counter /\ snapshot.revision + 1 \in Counter
  BY CapacityAssumption
     DEF ActorInv, ActorTypeOK, Snapshot, Counter, apply_change_command, RevisionLeft, SequenceLeft
<1>2. Successor(snapshot, delta)
  BY <1>1 DEF Successor, Update, Delta
<1>3. /\ running /\ running' = running
      /\ snapshot' = ApplyUpdate(snapshot, delta)
      /\ Record(delta)
      /\ hist' = Append(hist, snapshot')
  BY DEF apply_change_command
<1> HIDE DEF delta
<1> QED
  BY <1>2, <1>3, RecordKeepsInv

\* An event is recorded as the update that leads to the new snapshot.
LEMMA PublishEventKeepsInv ==
    ASSUME ActorInv, publish_event
    PROVE  ActorInv'
<1> DEFINE event == [kind           |-> "event",
                     incarnation    |-> snapshot.incarnation,
                     event_sequence |-> snapshot.event_sequence + 1]
<1>1. /\ snapshot.incarnation \in Nat
      /\ snapshot.event_sequence \in Counter /\ snapshot.event_sequence + 1 \in Counter
  BY CapacityAssumption DEF ActorInv, ActorTypeOK, Snapshot, Counter, publish_event, SequenceLeft
<1>2. Successor(snapshot, event)
  BY <1>1 DEF Successor, Update, Event
<1>3. /\ running /\ running' = running
      /\ snapshot' = ApplyUpdate(snapshot, event)
      /\ Record(event)
      /\ hist' = Append(hist, snapshot')
  BY DEF publish_event
<1> HIDE DEF event
<1> QED
  BY <1>2, <1>3, RecordKeepsInv

---------------------------------------------------------------------------
\* The theorems.

\* A new actor has an empty window, no subscriber and one snapshot of history.
LEMMA ActorInitInv == ActorInit => ActorInv
<1> SUFFICES ASSUME ActorInit PROVE ActorInv
  OBVIOUS
<1>1. PICK b \in SpawnBody : snapshot = Fresh(1, b)
  BY DEF ActorInit
<1>2. /\ snapshot \in Snapshot /\ snapshot.event_sequence = 0 /\ snapshot.incarnation = 1
  BY <1>1, BodyAssumption, CapacityAssumption DEF Fresh, Snapshot, Counter
<1>3. replay = << >> /\ hist = <<snapshot>> /\ running = TRUE
  BY DEF ActorInit
<1>4. \A s \in Sub : /\ subscribers[s] = NoSubscription
                     /\ SubscriptionInv(subscribers[s], running, snapshot, hist)
  BY <1>2, NoSubscriptionInv DEF ActorInit
<1>5. ActorTypeOK
  <2>1. subscribers \in [Sub -> Subscription]
    BY <1>4 DEF ActorInit, SubscriptionInv
  <2>2. QED
    <3>1. \A s \in Sub : Len(subscribers[s].queue) <= SubscriberCapacity
      BY <1>4 DEF SubscriptionInv
    <3>2. replay \in Seq(Update) /\ Len(replay) <= ReplayCapacity
      BY <1>3, CapacityAssumption
    <3>3. hist \in Seq(Snapshot) /\ running \in BOOLEAN
      BY <1>2, <1>3
    <3> QED
      BY <1>2, <2>1, <3>1, <3>2, <3>3 DEF ActorTypeOK
<1>6. HistoryOK
  BY <1>2, <1>3 DEF HistoryOK
<1>7. Attachment
  BY <1>4 DEF Attachment, SubscriptionInv
<1>8. ReplayWindow
  BY <1>2, <1>3, CapacityAssumption DEF ReplayWindow
<1>9. StreamComplete
  BY <1>4 DEF StreamComplete, NoSubscription
<1> QED
  BY <1>5, <1>6, <1>7, <1>8, <1>9 DEF ActorInv

\* Every step keeps the invariant.
LEMMA ActorNextInv == ActorInv /\ [ActorNext]_actorVars => ActorInv'
<1> SUFFICES ASSUME ActorInv, [ActorNext]_actorVars PROVE ActorInv'
  OBVIOUS
<1>1. CASE \E c \in Change : apply_change_command(c)
  BY <1>1, ApplyChangeKeepsInv
<1>2. CASE publish_event
  BY <1>2, PublishEventKeepsInv
<1>3. CASE \E s \in Sub : subscribe(s)
  BY <1>3, SubscribeKeepsInv
<1>4. CASE \E s \in Sub : RecvCheck(s)
  BY <1>4, RecvCheckKeepsInv
<1>5. CASE \E s \in Sub : RecvUpdate(s)
  BY <1>5, RecvUpdateKeepsInv
<1>6. CASE \E s \in Sub : DropSubscription(s)
  BY <1>6, DropSubscriptionKeepsInv
<1>7. CASE shutdown
  BY <1>7, ShutdownKeepsInv
<1>8. CASE \E b \in SpawnBody : spawn(b)
  BY <1>8, SpawnKeepsInv
<1>9. CASE UNCHANGED actorVars
  BY <1>9 DEF actorVars, ActorInv, ActorTypeOK, HistoryOK, Attachment, ReplayWindow,
              StreamComplete
<1> QED
  BY <1>1, <1>2, <1>3, <1>4, <1>5, <1>6, <1>7, <1>8, <1>9 DEF ActorNext

\* The invariant holds in every state of the actor.
THEOREM ActorInvariant == ActorSpec => []ActorInv
  BY ActorInitInv, ActorNextInv, PTL DEF ActorSpec

\* The actor's counters stay within u64 and its buffers within their
\* capacities (ActorState, AgentActorConfig).
THEOREM ActorTypeCorrect == ActorSpec => []ActorTypeOK
<1>1. ActorInv => ActorTypeOK
  BY DEF ActorInv
<1> QED
  BY <1>1, ActorInvariant, PTL

\* The replay window is always the newest updates of the running actor,
\* contiguous up to its snapshot (ActorState::record).
THEOREM ReplayWindowCorrect == ActorSpec => []ReplayWindow
<1>1. ActorInv => ReplayWindow
  BY DEF ActorInv
<1> QED
  BY <1>1, ActorInvariant, PTL

\* No subscriber misses an update unknowingly, however many there are, however
\* slow they are and whatever the capacities (ActorState::record,
\* AgentSubscription::recv).
THEOREM StreamCorrect == ActorSpec => []StreamComplete
<1>1. ActorInv => StreamComplete
  BY DEF ActorInv
<1> QED
  BY <1>1, ActorInvariant, PTL

---------------------------------------------------------------------------
\* Induction, in terms of sets.

LEMMA LeastNatural ==
    ASSUME NEW T \in SUBSET Nat, T # {}
    PROVE  \E x \in T : \A y \in T : x <= y
<1> DEFINE R == OpToRel(<, Nat)
<1>1. IsWellFoundedOn(R, Nat)
  BY NatLessThanWellFounded
<1>2. \A x, y \in Nat : x < y => <<x, y>> \in R
  BY DEF OpToRel
<1> HIDE DEF R
<1>3. PICK x \in T : \A y \in T : ~ (<<y, x>> \in R)
  BY <1>1, WFMin
<1>4. \A y \in T : y \in Nat /\ x \in Nat /\ ~(y < x)
  BY <1>2, <1>3
<1>5. \A y \in T : x <= y
  BY <1>4
<1> QED
  BY <1>5

LEMMA SetInduction ==
    ASSUME NEW S, 0 \in S, \A n \in Nat : n \in S => n + 1 \in S
    PROVE  Nat \subseteq S
<1> DEFINE T == Nat \ S
<1> SUFFICES ASSUME T # {} PROVE FALSE
  OBVIOUS
<1>1. PICK x \in T : \A y \in T : x <= y
  BY LeastNatural
<1>2. x # 0 /\ x - 1 \in Nat /\ x - 1 \notin T
  BY <1>1
<1>3. (x - 1) + 1 \in S
  BY <1>2
<1> QED
  BY <1>1, <1>2, <1>3

---------------------------------------------------------------------------
\* Starting a subscription.

\* The snapshots of this incarnation had no later revision than the current one.
RevisionsGrow == \A i \in DOMAIN hist : hist[i].revision <= snapshot.revision

\* A step that appends a snapshot whose revision is no earlier.
LEMMA AppendKeepsRevisions ==
    ASSUME ActorInv, RevisionsGrow, hist' = Append(hist, snapshot'),
           snapshot'.revision \in Nat, snapshot.revision <= snapshot'.revision
    PROVE  RevisionsGrow'
<1>1. hist \in Seq(Snapshot) /\ Len(hist) \in Nat /\ DOMAIN hist = 1 .. Len(hist)
  BY DEF ActorInv, ActorTypeOK
<1>2. /\ DOMAIN hist' = 1 .. Len(hist) + 1
      /\ \A i \in DOMAIN hist : hist'[i] = hist[i]
      /\ hist'[Len(hist) + 1] = snapshot'
  BY <1>1
<1>3. (\A i \in DOMAIN hist : hist[i].revision \in Nat) /\ snapshot.revision \in Nat
  <2>1. \A i \in DOMAIN hist : hist[i] \in Snapshot
    BY <1>1
  <2>2. \A s \in Snapshot : s.revision \in Nat
    BY CapacityAssumption DEF Snapshot, Counter
  <2> QED
    BY <2>1, <2>2 DEF ActorInv, ActorTypeOK
<1> SUFFICES ASSUME NEW i \in DOMAIN hist' PROVE hist'[i].revision <= snapshot'.revision
  BY DEF RevisionsGrow
<1>4. CASE i \in DOMAIN hist
  BY <1>2, <1>3, <1>4 DEF RevisionsGrow
<1>5. CASE i = Len(hist) + 1
  BY <1>2, <1>5
<1> QED
  BY <1>1, <1>2, <1>4, <1>5

LEMMA NextRevisions == ActorInv /\ RevisionsGrow /\ [ActorNext]_actorVars => RevisionsGrow'
<1> SUFFICES ASSUME ActorInv, RevisionsGrow, [ActorNext]_actorVars PROVE RevisionsGrow'
  OBVIOUS
<1>0. snapshot \in Snapshot /\ snapshot.revision \in Nat
  BY CapacityAssumption DEF ActorInv, ActorTypeOK, Snapshot, Counter
<1>1. ASSUME NEW c \in Change, apply_change_command(c) PROVE RevisionsGrow'
  <2>1. snapshot'.revision = snapshot.revision + 1 /\ hist' = Append(hist, snapshot')
    BY <1>0, <1>1 DEF apply_change_command, ApplyUpdate, Snapshot
  <2> QED
    BY <1>0, <2>1, AppendKeepsRevisions
<1>2. CASE publish_event
  <2>1. snapshot'.revision = snapshot.revision /\ hist' = Append(hist, snapshot')
    BY <1>0, <1>2 DEF publish_event, ApplyUpdate, Snapshot
  <2> QED
    BY <1>0, <2>1, AppendKeepsRevisions
<1>3. ASSUME NEW s \in Sub, subscribe(s) \/ RecvCheck(s) \/ RecvUpdate(s) \/ DropSubscription(s)
      PROVE  RevisionsGrow'
  BY <1>3 DEF subscribe, RecvCheck, RecvUpdate, DropSubscription, RevisionsGrow
<1>4. CASE shutdown \/ UNCHANGED actorVars
  BY <1>4 DEF shutdown, actorVars, RevisionsGrow
<1>5. ASSUME NEW b \in SpawnBody, spawn(b) PROVE RevisionsGrow'
  <2>1. hist' = <<snapshot'>> /\ snapshot'.revision = 0
    BY <1>5 DEF spawn, Fresh
  <2> QED
    BY <2>1 DEF RevisionsGrow
<1> QED
  BY <1>1, <1>2, <1>3, <1>4, <1>5 DEF ActorNext

LEMMA InitRevisions == ActorInit => RevisionsGrow
<1> SUFFICES ASSUME ActorInit PROVE RevisionsGrow
  OBVIOUS
<1>1. hist = <<snapshot>> /\ snapshot.revision = 0
  BY DEF ActorInit, Fresh
<1> QED
  BY <1>1 DEF RevisionsGrow

\* A part of the window: the updates from some position on.
TakenFrom(us, k) ==
    \A i \in DOMAIN us : i + k \in DOMAIN replay /\ us[i] = replay[i + k]

\* What the code's filter takes of the window, by where the cursor is.
LEMMA UpdatesAfterIs ==
    ASSUME ActorInv, NEW n \in Counter,
           NEW base, base = snapshot.event_sequence - Len(replay),
           NEW from, from = IF n < base THEN base ELSE n,
           NEW us, us = UpdatesAfter(n)
    PROVE  /\ us \in Seq(Update)
           /\ from <= snapshot.event_sequence => Len(us) = snapshot.event_sequence - from
           /\ from > snapshot.event_sequence => Len(us) = 0
           /\ TakenFrom(us, from - base)
<1>1. PICK now, L : now = snapshot.event_sequence /\ L = Len(replay)
  OBVIOUS
<1>2. /\ now \in Nat /\ n \in Nat /\ L \in Nat /\ L <= now /\ replay \in Seq(Update)
      /\ DOMAIN replay = 1 .. L /\ base = now - L
  BY <1>1, CapacityAssumption DEF ActorInv, ActorTypeOK, ReplayWindow, Snapshot, Counter
<1>3. from \in Nat /\ from - base \in Nat /\ base \in Nat
  BY <1>2
<1>4. CASE replay = << >>
  <2>1. us = << >> /\ L = 0
    BY <1>1, <1>4 DEF UpdatesAfter
  <2>2. us \in Seq(Update) /\ Len(us) = 0 /\ DOMAIN us = {}
    BY <2>1
  <2>3. from <= now => now - from = 0
    BY <1>2, <2>1
  <2> QED
    BY <1>1, <2>2, <2>3 DEF TakenFrom
<1>5. CASE replay # << >>
  <2>1. L > 0 /\ 1 \in DOMAIN replay /\ replay[1].event_sequence = base + 1
    BY <1>1, <1>2, <1>5 DEF ActorInv, ReplayWindow
  <2>2. PICK k : k = from - base + 1
    OBVIOUS
  <2>3. us = SubSeq(replay, IF n < base + 1 THEN 1 ELSE n - (base + 1) + 2, L)
    BY <1>1, <1>5, <2>1 DEF UpdatesAfter
  <2>4. (IF n < base + 1 THEN 1 ELSE n - (base + 1) + 2) = k /\ k \in Nat /\ k >= 1
    <3>1. CASE n < base
      <4>1. from = base
        BY <3>1
      <4>2. k = 1
        BY <1>3, <2>2, <4>1
      <4> QED
        BY <1>2, <1>3, <3>1, <4>2
    <3>2. CASE ~(n < base)
      <4>1. from = n
        BY <3>2
      <4>2. k = n - base + 1 /\ n >= base
        BY <1>2, <1>3, <2>2, <3>2, <4>1
      <4> QED
        BY <1>2, <1>3, <4>2
    <3> QED
      BY <3>1, <3>2
  <2>5. us = SubSeq(replay, k, L)
    BY <2>3, <2>4
  <2>6. CASE k <= L
    <3>1. k \in 1 .. Len(replay) + 1 /\ L \in k - 1 .. Len(replay)
      BY <1>1, <1>2, <2>4, <2>6
    <3>2. /\ us \in Seq(Update)
          /\ Len(us) = L - k + 1
          /\ DOMAIN us = 1 .. L - k + 1
          /\ \A i \in 1 .. L - k + 1 : us[i] = replay[k + i - 1]
      BY <1>2, <2>4, <2>5, <2>6, <3>1
    <3>3. from <= now /\ L - k + 1 = now - from
      <4>1. from = k - 1 + base
        BY <1>3, <2>2, <2>4
      <4>2. now = base + L
        BY <1>2, <1>3
      <4>3. now \in Int /\ L \in Int /\ k \in Int /\ base \in Int
        BY <1>2, <1>3, <2>4
      <4>4. k - 1 + base <= base + L /\ L - k + 1 = (base + L) - (k - 1 + base)
        BY <2>6, <4>3
      <4> QED
        BY <4>1, <4>2, <4>4
    <3>4. ASSUME NEW i \in 1 .. L - k + 1
          PROVE  i + (from - base) \in 1 .. L /\ k + i - 1 = i + (from - base)
      <4>1. from - base = k - 1
        BY <1>3, <2>2, <2>4
      <4>2. i \in Nat /\ i >= 1 /\ i + k - 1 <= L
        BY <1>2, <2>4
      <4> QED
        BY <1>2, <2>4, <4>1, <4>2
    <3> QED
      BY <1>1, <1>2, <3>2, <3>3, <3>4 DEF TakenFrom
  <2>7. CASE k > L
    <3>1. us = << >>
      BY <1>2, <2>4, <2>5, <2>7
    <3>2. us \in Seq(Update) /\ Len(us) = 0 /\ DOMAIN us = {}
      BY <3>1
    <3>3. from >= now
      BY <1>2, <1>3, <2>2, <2>7
    <3> QED
      BY <1>1, <1>2, <1>3, <3>2, <3>3 DEF TakenFrom
  <2> QED
    BY <1>2, <2>4, <2>6, <2>7
<1> QED
  BY <1>4, <1>5

\* The loop of replay_reaches_snapshot, one update at a time.
LEMMA RevisionAfterStep ==
    ASSUME NEW cursor, NEW us, NEW n \in Nat
    PROVE  /\ RevisionAfter(cursor, us, 0) = cursor.revision
           /\ us[n + 1].kind = "delta" =>
                 RevisionAfter(cursor, us, n + 1) = us[n + 1].revision
           /\ us[n + 1].kind # "delta" =>
                 RevisionAfter(cursor, us, n + 1) = RevisionAfter(cursor, us, n)
<1> DEFINE D(m) == {i \in 1 .. m : us[i].kind = "delta"}
<1>1. RevisionAfter(cursor, us, 0) = cursor.revision
  <2>1. D(0) = {}
    OBVIOUS
  <2> QED
    BY <2>1 DEF RevisionAfter
<1>2. ASSUME us[n + 1].kind = "delta"
      PROVE  RevisionAfter(cursor, us, n + 1) = us[n + 1].revision
  <2>1. n + 1 \in D(n + 1) /\ \A j \in D(n + 1) : j \in Nat /\ j <= n + 1
    BY <1>2
  <2>2. \A i \in D(n + 1) : (\A j \in D(n + 1) : j <= i) <=> i = n + 1
    BY <2>1
  <2>3. (CHOOSE i \in D(n + 1) : \A j \in D(n + 1) : j <= i) = n + 1
    <3> HIDE DEF D
    <3> QED
      BY <2>1, <2>2
  <2>4. D(n + 1) # {}
    BY <2>1
  <2> QED
    BY <2>3, <2>4 DEF RevisionAfter
<1>3. ASSUME us[n + 1].kind # "delta"
      PROVE  RevisionAfter(cursor, us, n + 1) = RevisionAfter(cursor, us, n)
  <2>1. \A i : i \in 1 .. n + 1 <=> i \in 1 .. n \/ i = n + 1
    OBVIOUS
  <2>2. D(n + 1) = D(n)
    BY <1>3, <2>1
  <2> DEFINE F(E) == IF E = {} THEN cursor.revision
                     ELSE us[CHOOSE i \in E : \A j \in E : j <= i].revision
  <2>3. RevisionAfter(cursor, us, n + 1) = F(D(n + 1)) /\ RevisionAfter(cursor, us, n) = F(D(n))
    BY DEF RevisionAfter
  <2> HIDE DEF D, F
  <2> QED
    BY <2>2, <2>3
<1> QED
  BY <1>1, <1>2, <1>3

\* Updates of this incarnation that follow event sequence n.
Follows(us, n) ==
    \A i \in DOMAIN us : us[i].event_sequence = n + i /\ Authentic(us[i], hist)

\* What an update does to the revision, as the history has it.
LEMMA RevisionInHistory ==
    ASSUME ActorInv, NEW u \in Update, Authentic(u, hist), NEW k, u.event_sequence = k
    PROVE  /\ u.kind = "delta" => /\ hist[k + 1].revision = u.revision
                                  /\ hist[k].revision = u.base_revision
           /\ u.kind # "delta" => hist[k + 1].revision = hist[k].revision
<1>1. k \in 1 .. Len(hist) - 1 /\ hist[k + 1] = ApplyUpdate(hist[k], u)
  BY DEF Authentic
<1>2. hist[k] \in Snapshot
  BY <1>1 DEF ActorInv, ActorTypeOK
<1> QED
  BY <1>1, <1>2 DEF Authentic, ApplyUpdate, Snapshot

\* A sum, bracketed either way.
LEMMA SumOrder == \A e, n \in Nat : e + (n + 1) = e + n + 1
  OBVIOUS

\* From a cursor this incarnation has been at, the loop computes its revisions.
LEMMA ChainForward ==
    ASSUME ActorInv, NEW cursor \in Cursor, Genuine(cursor),
           NEW us \in Seq(Update), Follows(us, cursor.event_sequence)
    PROVE  \A n \in 0 .. Len(us) :
              RevisionAfter(cursor, us, n) = hist[cursor.event_sequence + n + 1].revision
<1>1. PICK e : e = cursor.event_sequence /\ e \in Nat
  BY CapacityAssumption DEF Cursor, Counter
<1>2. PICK len \in Nat : len = Len(us) /\ DOMAIN us = 1 .. len
  OBVIOUS
<1> DEFINE S == {n \in Nat : n <= len => RevisionAfter(cursor, us, n) = hist[e + n + 1].revision}
<1>3. 0 \in S
  <2>1. cursor.revision = hist[e + 0 + 1].revision
    BY <1>1 DEF Genuine
  <2> QED
    BY <2>1, RevisionAfterStep
<1>4. ASSUME NEW n \in Nat, n \in S PROVE n + 1 \in S
  <2> SUFFICES ASSUME n + 1 <= len
               PROVE  RevisionAfter(cursor, us, n + 1) = hist[e + (n + 1) + 1].revision
    OBVIOUS
  <2>1. RevisionAfter(cursor, us, n) = hist[e + n + 1].revision
    BY <1>4
  <2>2. PICK u : u = us[n + 1]
    OBVIOUS
  <2>3. n + 1 \in DOMAIN us /\ u \in Update /\ u.event_sequence = e + n + 1 /\ Authentic(u, hist)
    <3>1. n + 1 \in DOMAIN us
      BY <1>2
    <3>2. u \in Update
      BY <2>2, <3>1
    <3>3. u.event_sequence = cursor.event_sequence + (n + 1) /\ Authentic(u, hist)
      BY <2>2, <3>1 DEF Follows
    <3>4. e + (n + 1) = e + n + 1
      BY <1>1, SumOrder
    <3> QED
      BY <1>1, <3>1, <3>2, <3>3, <3>4
  <2>4. /\ u.kind = "delta" => hist[e + n + 1 + 1].revision = u.revision
        /\ u.kind # "delta" => hist[e + n + 1 + 1].revision = hist[e + n + 1].revision
    BY <2>3, RevisionInHistory
  <2>5. e + n + 1 + 1 = e + (n + 1) + 1
    BY <1>1
  <2> QED
    BY <2>1, <2>2, <2>4, <2>5, RevisionAfterStep
<1>5. Nat \subseteq S
  <2> HIDE DEF S
  <2> QED
    BY <1>3, <1>4, SetInduction
<1> QED
  BY <1>1, <1>2, <1>5

\* A loop that ends at the snapshot's revision started at one that this
\* incarnation had.
LEMMA ChainBackward ==
    ASSUME ActorInv, NEW cursor \in Cursor,
           NEW us \in Seq(Update), Follows(us, cursor.event_sequence),
           \A i \in DOMAIN us : us[i].kind = "delta" =>
              us[i].base_revision = RevisionAfter(cursor, us, i - 1),
           RevisionAfter(cursor, us, Len(us)) = snapshot.revision,
           cursor.event_sequence + Len(us) = snapshot.event_sequence
    PROVE  cursor.revision = hist[cursor.event_sequence + 1].revision
<1>1. PICK e : e = cursor.event_sequence /\ e \in Nat
  BY CapacityAssumption DEF Cursor, Counter
<1>2. PICK len \in Nat : len = Len(us) /\ DOMAIN us = 1 .. len
  OBVIOUS
<1> DEFINE S == {n \in Nat : n <= len =>
                    \/ cursor.revision = hist[e + 1].revision
                    \/ /\ RevisionAfter(cursor, us, n) = cursor.revision
                       /\ hist[e + n + 1].revision = hist[e + 1].revision}
<1>3. 0 \in S
  <2>1. hist[e + 0 + 1].revision = hist[e + 1].revision
    BY <1>1
  <2> QED
    BY <2>1, RevisionAfterStep
<1>4. ASSUME NEW n \in Nat, n \in S PROVE n + 1 \in S
  <2> SUFFICES ASSUME n + 1 <= len, cursor.revision # hist[e + 1].revision
               PROVE  /\ RevisionAfter(cursor, us, n + 1) = cursor.revision
                      /\ hist[e + (n + 1) + 1].revision = hist[e + 1].revision
    OBVIOUS
  <2>1. /\ RevisionAfter(cursor, us, n) = cursor.revision
        /\ hist[e + n + 1].revision = hist[e + 1].revision
    BY <1>4
  <2> HIDE DEF S
  <2>2. PICK u : u = us[n + 1]
    OBVIOUS
  <2>3. n + 1 \in DOMAIN us
    BY <1>2
  <2>4. /\ u \in Update /\ u.event_sequence = e + n + 1 /\ Authentic(u, hist)
        /\ u.kind = "delta" => u.base_revision = RevisionAfter(cursor, us, n)
    <3>1. (n + 1) - 1 = n
      OBVIOUS
    <3>2. u.kind = "delta" => u.base_revision = RevisionAfter(cursor, us, (n + 1) - 1)
      BY <2>2, <2>3
    <3>3. u \in Update /\ u.event_sequence = e + (n + 1) /\ Authentic(u, hist)
      BY <1>1, <2>2, <2>3 DEF Follows
    <3>4. e + (n + 1) = e + n + 1
      BY <1>1, SumOrder
    <3> QED
      BY <3>1, <3>2, <3>3, <3>4
  <2>5. /\ u.kind = "delta" => hist[e + n + 1].revision = u.base_revision
        /\ u.kind # "delta" => hist[e + n + 1 + 1].revision = hist[e + n + 1].revision
    BY <2>4, RevisionInHistory
  <2>6. u.kind # "delta"
    BY <2>1, <2>4, <2>5
  <2>7. e + n + 1 + 1 = e + (n + 1) + 1
    BY <1>1, SumOrder
  <2> QED
    BY <2>1, <2>2, <2>5, <2>6, <2>7, RevisionAfterStep
<1>5. Nat \subseteq S
  <2> HIDE DEF S
  <2> QED
    BY <1>3, <1>4, SetInduction
<1>6. hist[e + len + 1].revision = snapshot.revision
  BY <1>1, <1>2 DEF ActorInv, HistoryOK
<1>7. \/ cursor.revision = hist[e + 1].revision
      \/ snapshot.revision = cursor.revision /\ snapshot.revision = hist[e + 1].revision
  BY <1>2, <1>5, <1>6
<1> QED
  BY <1>1, <1>7

LEMMA WindowOrder ==
    \A now, L, base, e \in Nat :
       now = base + L => /\ base <= now /\ now - base = L
                         /\ e >= base <=> ~(e < base)
                         /\ e > now => e >= base
  OBVIOUS

\* Where the window begins, the cursor of a client, and what is taken for it.
LEMMA WindowFacts ==
    ASSUME ActorInv, NEW cursor \in Cursor,
           NEW e, e = cursor.event_sequence, NEW now, now = snapshot.event_sequence,
           NEW L, L = Len(replay), NEW base, base = now - L,
           NEW us, us = UpdatesAfter(e)
    PROVE  /\ e \in Nat /\ now \in Nat /\ L \in Nat /\ base \in Nat /\ now = base + L
           /\ us \in Seq(Update) /\ Len(us) \in Nat /\ DOMAIN us = 1 .. Len(us)
           /\ DOMAIN replay = 1 .. L
           /\ \A j \in DOMAIN replay : /\ replay[j].event_sequence = base + j
                                       /\ Authentic(replay[j], hist)
           /\ e < base => Len(us) = L /\ TakenFrom(us, 0)
           /\ e >= base /\ e <= now => Len(us) = now - e
           /\ e > now => Len(us) = 0
           /\ e >= base => TakenFrom(us, e - base)
<1>1. /\ e \in Nat /\ now \in Nat /\ L \in Nat /\ L <= now /\ e \in Counter
      /\ DOMAIN replay = 1 .. L
  BY CapacityAssumption DEF ActorInv, ActorTypeOK, ReplayWindow, Snapshot, Counter, Cursor
<1>2. base \in Nat /\ now = base + L
  BY <1>1
<1>10. e \in Nat /\ now \in Nat /\ L \in Nat /\ base \in Nat /\ now = base + L
  BY <1>1, <1>2
<1>3. \A j \in DOMAIN replay : /\ replay[j].event_sequence = base + j
                               /\ Authentic(replay[j], hist)
  BY DEF ActorInv, ReplayWindow
<1>4. PICK from : from = IF e < base THEN base ELSE e
  OBVIOUS
<1>5. /\ us \in Seq(Update)
      /\ from <= now => Len(us) = now - from
      /\ from > now => Len(us) = 0
      /\ TakenFrom(us, from - base)
  BY <1>1, <1>4, UpdatesAfterIs
<1>6. Len(us) \in Nat /\ DOMAIN us = 1 .. Len(us)
  BY <1>5
<1>7. ASSUME e < base
      PROVE  Len(us) = L /\ TakenFrom(us, 0)
  <2>1. from = base
    BY <1>4, <1>7
  <2>2. base <= now /\ now - base = L
    BY ONLY <1>10, WindowOrder
  <2>3. base - base = 0
    BY ONLY <1>10
  <2> QED
    BY <1>5, <2>1, <2>2, <2>3
<1>8. ASSUME e >= base
      PROVE  (e <= now => Len(us) = now - e) /\ TakenFrom(us, e - base)
  <2>1. ~(e < base)
    BY <1>8, <1>10, WindowOrder
  <2>2. from = e
    BY <1>4, <2>1
  <2> QED
    BY <1>5, <2>2
<1>9. ASSUME e > now PROVE Len(us) = 0
  <2>1. e >= base /\ ~(e < base)
    BY <1>9, <1>10, WindowOrder
  <2> QED
    BY <1>4, <1>5, <1>9, <2>1
<1> QED
  BY <1>1, <1>2, <1>3, <1>5, <1>6, <1>7, <1>8, <1>9

LEMMA FollowsCursor ==
    ASSUME ActorInv, NEW cursor \in Cursor,
           cursor.event_sequence >= snapshot.event_sequence - Len(replay)
    PROVE  Follows(UpdatesAfter(cursor.event_sequence), cursor.event_sequence)
<1>1. PICK e, now, L, us : /\ e = cursor.event_sequence /\ now = snapshot.event_sequence
                           /\ L = Len(replay) /\ us = UpdatesAfter(e)
  OBVIOUS
<1>2. PICK base : base = now - L
  OBVIOUS
<1>0. e >= base
  BY <1>1, <1>2
<1>3. /\ e \in Nat /\ base \in Nat /\ DOMAIN us = 1 .. Len(us)
      /\ \A j \in DOMAIN replay : /\ replay[j].event_sequence = base + j
                                  /\ Authentic(replay[j], hist)
      /\ TakenFrom(us, e - base)
  BY <1>0, <1>1, <1>2, WindowFacts
<1>4. \A i \in DOMAIN us : base + (i + (e - base)) = e + i
  BY <1>3
<1>5. \A i \in DOMAIN us : us[i].event_sequence = e + i /\ Authentic(us[i], hist)
  BY <1>3, <1>4 DEF TakenFrom
<1> QED
  BY <1>1, <1>5 DEF Follows

\* A replay that reaches the snapshot starts at a cursor this incarnation has
\* been at and that the window still reaches back to.
LEMMA ReachesOnly ==
    ASSUME ActorInv, NEW cursor \in Cursor, cursor.agent_id = "self",
           cursor.event_sequence <= snapshot.event_sequence,
           replay_reaches_snapshot(cursor, UpdatesAfter(cursor.event_sequence))
    PROVE  /\ Genuine(cursor)
           /\ cursor.event_sequence >= snapshot.event_sequence - Len(replay)
           /\ snapshot.event_sequence < U64Max
<1>1. PICK e, now, L, us : /\ e = cursor.event_sequence /\ now = snapshot.event_sequence
                           /\ L = Len(replay) /\ us = UpdatesAfter(e)
  OBVIOUS
<1>2. PICK base : base = now - L
  OBVIOUS
<1>3. /\ e \in Nat /\ now \in Nat /\ L \in Nat /\ base \in Nat /\ now = base + L
      /\ us \in Seq(Update) /\ Len(us) \in Nat
      /\ e < base => Len(us) = L
  BY <1>1, <1>2, WindowFacts
<1>4. /\ e + 1 + Len(us) <= U64Max /\ e + Len(us) = now
      /\ RevisionAfter(cursor, us, Len(us)) = snapshot.revision
      /\ \A i \in DOMAIN us : us[i].kind = "delta"
                                => us[i].base_revision = RevisionAfter(cursor, us, i - 1)
  BY <1>1 DEF replay_reaches_snapshot
<1>5. e >= base
  BY <1>3, <1>4
<1>6. Follows(us, e)
  BY <1>1, <1>2, <1>5, FollowsCursor
<1>7. cursor.revision = hist[e + 1].revision
  BY <1>1, <1>3, <1>4, <1>6, ChainBackward
<1>8. now < U64Max
  BY <1>3, <1>4, CapacityAssumption
<1>9. Len(hist) = now + 1
  BY <1>1 DEF ActorInv, HistoryOK
<1>10. e < Len(hist)
  BY <1>1, <1>3, <1>9
<1> QED
  BY <1>1, <1>2, <1>5, <1>7, <1>8, <1>10 DEF Genuine

\* And every such cursor is answered with a replay, short of the last sequence.
LEMMA ReachesAlways ==
    ASSUME ActorInv, NEW cursor \in Cursor, Genuine(cursor),
           cursor.event_sequence >= snapshot.event_sequence - Len(replay),
           snapshot.event_sequence < U64Max
    PROVE  replay_reaches_snapshot(cursor, UpdatesAfter(cursor.event_sequence))
<1>1. PICK e, now, L, us : /\ e = cursor.event_sequence /\ now = snapshot.event_sequence
                           /\ L = Len(replay) /\ us = UpdatesAfter(e)
  OBVIOUS
<1>2. PICK base : base = now - L
  OBVIOUS
<1>3. /\ e \in Nat /\ now \in Nat /\ us \in Seq(Update) /\ Len(us) \in Nat
      /\ DOMAIN us = 1 .. Len(us)
      /\ e >= base /\ e <= now => Len(us) = now - e
  BY <1>1, <1>2, WindowFacts
<1>4. e <= now /\ hist[now + 1] = snapshot
  BY <1>1, <1>3 DEF Genuine, ActorInv, HistoryOK
<1>5. Len(us) = now - e
  BY <1>1, <1>2, <1>3, <1>4
<1>6. Follows(us, e)
  BY <1>1, FollowsCursor
<1>7. \A n \in 0 .. Len(us) : RevisionAfter(cursor, us, n) = hist[e + n + 1].revision
  BY <1>1, <1>3, <1>6, ChainForward
<1>8. e + Len(us) = now /\ e + 1 + Len(us) <= U64Max
  BY <1>1, <1>3, <1>5, CapacityAssumption
<1>9. RevisionAfter(cursor, us, Len(us)) = snapshot.revision
  <2>1. Len(us) \in 0 .. Len(us)
    BY <1>3
  <2> QED
    BY <1>4, <1>7, <1>8, <2>1
<1>10. ASSUME NEW i \in DOMAIN us
       PROVE  /\ us[i].event_sequence = e + i
              /\ us[i].kind = "delta" => us[i].base_revision = RevisionAfter(cursor, us, i - 1)
  <2>1. /\ us[i] \in Update /\ us[i].event_sequence = e + i /\ Authentic(us[i], hist)
        /\ i - 1 \in 0 .. Len(us) /\ e + (i - 1) + 1 = e + i
    BY <1>3, <1>6 DEF Follows
  <2>2. us[i].kind = "delta" => us[i].base_revision = hist[e + i].revision
    BY <2>1 DEF Authentic
  <2>3. RevisionAfter(cursor, us, i - 1) = hist[e + i].revision
    BY <1>7, <2>1
  <2> QED
    BY <2>1, <2>2, <2>3
<1> QED
  BY <1>1, <1>8, <1>9, <1>10 DEF replay_reaches_snapshot

\* When a cursor is answered with a replay, and with which.
StartOK(cursor) ==
    LET start == subscription_start(cursor)
        missed == snapshot.event_sequence - cursor.event_sequence
    IN /\ start.kind = "replay" <=>
             /\ Genuine(cursor)
             /\ \/ missed = 0
                \/ missed <= Len(replay) /\ snapshot.event_sequence < U64Max
       /\ start.kind = "replay" =>
             /\ Len(start.updates) = missed
             /\ \A i \in DOMAIN start.updates :
                   start.updates[i] = replay[Len(replay) - missed + i]

\* What the filter takes for a cursor.
FilterOK(after, n) ==
    /\ {after[i] : i \in DOMAIN after} =
          {replay[i] : i \in {j \in DOMAIN replay : replay[j].event_sequence > n}}
    /\ \A i, j \in DOMAIN after : i < j => after[i].event_sequence < after[j].event_sequence

LEMMA StartCorrect ==
    ASSUME ActorInv, RevisionsGrow, NEW cursor \in Cursor
    PROVE  StartOK(cursor)
<1>1. PICK e, now, L, us : /\ e = cursor.event_sequence /\ now = snapshot.event_sequence
                           /\ L = Len(replay) /\ us = UpdatesAfter(e)
  OBVIOUS
<1>2. PICK base : base = now - L
  OBVIOUS
<1>3. /\ e \in Nat /\ now \in Nat /\ L \in Nat /\ base \in Nat /\ now = base + L
      /\ Len(us) \in Nat /\ DOMAIN us = 1 .. Len(us)
      /\ e >= base /\ e <= now => Len(us) = now - e
      /\ e >= base => TakenFrom(us, e - base)
  BY <1>1, <1>2, WindowFacts
<1>4. PICK start : start = subscription_start(cursor)
  OBVIOUS
<1>5. PICK missed : missed = now - e
  OBVIOUS
<1> DEFINE Far == \/ cursor.agent_id # "self"
                  \/ cursor.revision > snapshot.revision
                  \/ e > now
           Due == missed = 0 \/ (missed <= L /\ now < U64Max)
<1>6. SUFFICES /\ start.kind = "replay" <=> Genuine(cursor) /\ Due
               /\ start.kind = "replay" =>
                     /\ Len(start.updates) = missed
                     /\ \A i \in DOMAIN start.updates : start.updates[i] = replay[L - missed + i]
  BY <1>1, <1>4, <1>5 DEF StartOK
<1>7. Len(hist) = now + 1 /\ DOMAIN hist = 1 .. now + 1 /\ hist[now + 1] = snapshot
      /\ \A i \in DOMAIN hist : hist[i].revision \in Nat /\ snapshot.revision \in Nat
                                /\ hist[i].revision <= snapshot.revision
  <2>1. hist \in Seq(Snapshot) /\ snapshot \in Snapshot
    BY DEF ActorInv, ActorTypeOK
  <2>2. \A s \in Snapshot : s.revision \in Nat
    BY CapacityAssumption DEF Snapshot, Counter
  <2>3. \A i \in DOMAIN hist : hist[i] \in Snapshot
    BY <2>1
  <2>4. Len(hist) = now + 1 /\ DOMAIN hist = 1 .. Len(hist) /\ hist[Len(hist)] = snapshot
    BY <1>1, <2>1 DEF ActorInv, HistoryOK
  <2> QED
    BY <2>1, <2>2, <2>3, <2>4 DEF RevisionsGrow
<1>8. CASE Far
  <2>1. start.kind = "resync_required"
    BY <1>1, <1>4, <1>8 DEF subscription_start, ResyncStart
  <2>2. ~Genuine(cursor)
    <3> SUFFICES ASSUME Genuine(cursor) PROVE FALSE
      OBVIOUS
    <3>1. cursor.agent_id = "self" /\ e < now + 1 /\ cursor.revision = hist[e + 1].revision
      BY <1>1, <1>7 DEF Genuine
    <3>2. e <= now /\ e + 1 \in DOMAIN hist
      BY <1>3, <1>7, <3>1
    <3>3. cursor.revision <= snapshot.revision /\ cursor.revision \in Nat /\ snapshot.revision \in Nat
      BY <1>7, <3>1, <3>2
    <3> QED
      BY <1>3, <1>8, <3>1, <3>2, <3>3
  <2> QED
    BY <2>1, <2>2
<1>9. CASE ~Far /\ cursor = CursorOf(snapshot)
  <2>1. start = ReplayStart(<< >>)
    BY <1>1, <1>4, <1>9 DEF subscription_start
  <2>2. start.kind = "replay" /\ start.updates = << >>
    BY <2>1 DEF ReplayStart
  <2>3. e = now /\ cursor.revision = snapshot.revision /\ cursor.agent_id = "self"
    BY <1>1, <1>9 DEF CursorOf
  <2>4. missed = 0 /\ e < now + 1
    BY <1>3, <1>5, <2>3
  <2>5. Genuine(cursor)
    BY <1>1, <1>7, <2>3, <2>4 DEF Genuine
  <2> QED
    BY <2>2, <2>4, <2>5
<1>10. CASE ~Far /\ cursor # CursorOf(snapshot)
  <2>1. cursor.agent_id = "self" /\ e <= now
    BY <1>3, <1>10
  <2>2. start = IF replay_reaches_snapshot(cursor, us) THEN ReplayStart(us) ELSE ResyncStart
    BY <1>1, <1>4, <1>10 DEF subscription_start
  <2>3. start.kind = "replay" <=> replay_reaches_snapshot(cursor, us)
    BY <2>2 DEF ReplayStart, ResyncStart
  <2>4. start.kind = "replay" => start.updates = us
    BY <2>2 DEF ReplayStart, ResyncStart
  <2>5. ASSUME start.kind = "replay"
        PROVE  Genuine(cursor) /\ e >= base /\ now < U64Max
    BY <1>1, <1>2, <2>1, <2>3, <2>5, ReachesOnly
  <2>6. ASSUME e >= base PROVE missed <= L /\ L - missed = e - base
    BY <1>3, <1>5, <2>6
  <2>7. ASSUME Genuine(cursor), Due PROVE start.kind = "replay"
    <3>1. e # now
      <4> SUFFICES ASSUME e = now PROVE FALSE
        OBVIOUS
      <4>1. cursor.revision = snapshot.revision
        BY <1>1, <1>7, <2>7 DEF Genuine
      <4>2. cursor = [agent_id |-> "self", revision |-> snapshot.revision,
                      event_sequence |-> snapshot.event_sequence]
        BY <1>1, <2>1, <4>1 DEF Cursor
      <4> QED
        BY <1>10, <4>2 DEF CursorOf
    <3>2. missed # 0
      BY <1>3, <1>5, <3>1
    <3>3. missed <= L /\ now < U64Max
      BY <2>7, <3>2
    <3>4. e >= base
      BY <1>3, <1>5, <3>3
    <3> QED
      BY <1>1, <1>2, <2>3, <2>7, <3>3, <3>4, ReachesAlways
  <2>8. ASSUME start.kind = "replay"
        PROVE  /\ Len(start.updates) = missed
               /\ \A i \in DOMAIN start.updates : start.updates[i] = replay[L - missed + i]
    <3>1. e >= base /\ Len(us) = missed /\ L - missed = e - base
      BY <1>3, <1>5, <2>1, <2>5, <2>6, <2>8
    <3>2. TakenFrom(us, e - base)
      BY <1>3, <3>1
    <3>3. \A i \in DOMAIN us : i + (e - base) = (e - base) + i
      BY <1>3
    <3>4. \A i \in DOMAIN us : us[i] = replay[L - missed + i]
      BY <3>1, <3>2, <3>3 DEF TakenFrom
    <3> QED
      BY <2>4, <2>8, <3>1, <3>4
  <2> QED
    BY <2>5, <2>6, <2>7, <2>8
<1> QED
  BY <1>8, <1>9, <1>10

\* Sums and differences that the filter's proof needs.
LEMMA FilterSums ==
    ASSUME NEW e \in Nat, NEW now \in Nat, NEW L \in Nat, NEW base \in Nat, now = base + L
    PROVE  /\ e < base \/ e >= base
           /\ base + 0 = base
           /\ e >= base => e - base \in Nat /\ base + (e - base) >= e
           /\ \A j \in 1 .. L : j - 0 = j
           /\ \A j \in 1 .. L : base + j > e => e <= now
           /\ \A j \in 1 .. L : base + j > e /\ e >= base => j - (e - base) \in 1 .. (now - e)
           /\ \A k \in Nat : base + k >= e => \A n \in Nat : \A i \in 1 .. n : base + (i + k) > e
           /\ \A k \in Nat : \A j \in 1 .. L : (j - k) + k = j
           /\ \A k, n \in Nat : \A i, j \in 1 .. n : i < j => base + (i + k) < base + (j + k)
<1>1. e < base \/ e >= base
  OBVIOUS
<1>2. base + 0 = base
  OBVIOUS
<1>3. e >= base => e - base \in Nat /\ base + (e - base) >= e
  OBVIOUS
<1>4. \A j \in 1 .. L : j - 0 = j
  OBVIOUS
<1>5. \A j \in 1 .. L : base + j > e => e <= now
  OBVIOUS
<1>6. \A j \in 1 .. L : base + j > e /\ e >= base => j - (e - base) \in 1 .. (now - e)
  OBVIOUS
<1>7. \A k \in Nat : base + k >= e => \A n \in Nat : \A i \in 1 .. n : base + (i + k) > e
  OBVIOUS
<1>8. \A k \in Nat : \A j \in 1 .. L : (j - k) + k = j
  OBVIOUS
<1>9. \A k, n \in Nat : \A i, j \in 1 .. n : i < j => base + (i + k) < base + (j + k)
  OBVIOUS
<1> QED
  BY <1>1, <1>2, <1>3, <1>4, <1>5, <1>6, <1>7, <1>8, <1>9

LEMMA FilterCorrect ==
    ASSUME ActorInv, NEW cursor \in Cursor
    PROVE  FilterOK(UpdatesAfter(cursor.event_sequence), cursor.event_sequence)
<1>1. PICK e, now, L, us : /\ e = cursor.event_sequence /\ now = snapshot.event_sequence
                           /\ L = Len(replay) /\ us = UpdatesAfter(e)
  OBVIOUS
<1>2. PICK base : base = now - L
  OBVIOUS
<1>3. /\ e \in Nat /\ now \in Nat /\ L \in Nat /\ base \in Nat /\ now = base + L
      /\ Len(us) \in Nat /\ DOMAIN us = 1 .. Len(us) /\ DOMAIN replay = 1 .. L
      /\ \A j \in DOMAIN replay : replay[j].event_sequence = base + j
      /\ e < base => Len(us) = L /\ TakenFrom(us, 0)
      /\ e >= base /\ e <= now => Len(us) = now - e
      /\ e > now => Len(us) = 0
      /\ e >= base => TakenFrom(us, e - base)
  BY <1>1, <1>2, WindowFacts
<1>10. /\ e < base \/ e >= base
       /\ base + 0 = base
       /\ e >= base => e - base \in Nat /\ base + (e - base) >= e
       /\ \A j \in 1 .. L : j - 0 = j
       /\ \A j \in 1 .. L : base + j > e => e <= now
       /\ \A j \in 1 .. L : base + j > e /\ e >= base => j - (e - base) \in 1 .. (now - e)
       /\ \A k \in Nat : base + k >= e => \A n \in Nat : \A i \in 1 .. n : base + (i + k) > e
       /\ \A k \in Nat : \A j \in 1 .. L : (j - k) + k = j
       /\ \A k, n \in Nat : \A i, j \in 1 .. n : i < j => base + (i + k) < base + (j + k)
  <2> HIDE <1>1, <1>2
  <2>1. e \in Nat /\ now \in Nat /\ L \in Nat /\ base \in Nat /\ now = base + L
    BY <1>3
  <2> QED
    BY ONLY <2>1, FilterSums
<1>4. PICK k \in Nat : /\ TakenFrom(us, k) /\ base + k >= e
                       /\ \A j \in DOMAIN replay : base + j > e => j - k \in DOMAIN us
  <2>1. CASE e < base
    <3>1. TakenFrom(us, 0) /\ base >= e /\ DOMAIN us = DOMAIN replay
      BY <1>3, <2>1
    <3>2. base + 0 >= e /\ \A j \in DOMAIN replay : j - 0 \in DOMAIN us
      BY <1>3, <1>10, <3>1
    <3> QED
      BY <3>1, <3>2
  <2>2. CASE e >= base
    <3>1. e - base \in Nat /\ TakenFrom(us, e - base)
      BY <1>3, <1>10, <2>2, Zenon
    <3>2. ASSUME NEW j \in DOMAIN replay, base + j > e PROVE j - (e - base) \in DOMAIN us
      <4>1. j \in 1 .. L
        BY <1>3, Zenon
      <4>2. e <= now
        BY <1>10, <3>2, <4>1, Zenon
      <4>3. Len(us) = now - e
        BY <1>3, <2>2, <4>2, Zenon
      <4>4. j - (e - base) \in 1 .. (now - e)
        BY <1>10, <2>2, <3>2, <4>1, Zenon
      <4> QED
        BY <1>3, <4>3, <4>4, Zenon
    <3>3. base + (e - base) >= e
      BY <1>10, <2>2, Zenon
    <3> QED
      BY <3>1, <3>2, <3>3
  <2> QED
    BY <1>10, <2>1, <2>2, Zenon
<1>5. ASSUME NEW i \in DOMAIN us
      PROVE  /\ i + k \in DOMAIN replay /\ us[i] = replay[i + k] /\ base + (i + k) > e
             /\ us[i].event_sequence = base + (i + k)
  <2>1. i + k \in DOMAIN replay /\ us[i] = replay[i + k]
    BY <1>4 DEF TakenFrom
  <2>2. base + (i + k) > e
    BY <1>3, <1>4, <1>10, Zenon
  <2> QED
    BY <1>3, <2>1, <2>2
<1>6. ASSUME NEW j \in DOMAIN replay, base + j > e
      PROVE  \E i \in DOMAIN us : us[i] = replay[j]
  <2>1. j - k \in DOMAIN us
    BY <1>4, <1>6
  <2>2. us[j - k] = replay[(j - k) + k]
    BY <1>5, <2>1
  <2>3. (j - k) + k = j
    BY <1>3, <1>4, <1>10, Zenon
  <2> QED
    BY <2>1, <2>2, <2>3
<1>7. {us[i] : i \in DOMAIN us} =
         {replay[i] : i \in {j \in DOMAIN replay : replay[j].event_sequence > e}}
  <2>1. \A i \in DOMAIN us : i + k \in {j \in DOMAIN replay : replay[j].event_sequence > e}
    BY <1>3, <1>5
  <2>2. \A j \in DOMAIN replay : replay[j].event_sequence > e =>
                                   \E i \in DOMAIN us : us[i] = replay[j]
    BY <1>3, <1>6
  <2>3. \A i \in DOMAIN us : us[i] = replay[i + k]
    BY <1>5
  <2> QED
    BY <2>1, <2>2, <2>3
<1>8. ASSUME NEW i \in DOMAIN us, NEW j \in DOMAIN us, i < j
      PROVE  us[i].event_sequence < us[j].event_sequence
  <2>1. us[i].event_sequence = base + (i + k) /\ us[j].event_sequence = base + (j + k)
    BY <1>5
  <2>2. base + (i + k) < base + (j + k)
    BY <1>3, <1>4, <1>8, <1>10, Zenon
  <2> QED
    BY <2>1, <2>2
<1> QED
  BY <1>1, <1>7, <1>8 DEF FilterOK

\* subscription_start is exact, for any capacity of the window and any cursor a
\* client may present: a replay is given if and only if the cursor is one this
\* incarnation has been at and the window reaches back to it, and it is then the
\* updates from there to the snapshot (subscription_start,
\* replay_reaches_snapshot).
THEOREM StartIsExactCorrect == ActorSpec => []StartIsExact
<1>1. ActorInv /\ RevisionsGrow => StartIsExact
  <2> SUFFICES ASSUME ActorInv, RevisionsGrow PROVE StartIsExact
    OBVIOUS
  <2>1. \A cursor \in Cursor :
           StartOK(cursor) /\ FilterOK(UpdatesAfter(cursor.event_sequence), cursor.event_sequence)
    BY StartCorrect, FilterCorrect
  <2> QED
    BY <2>1 DEF StartIsExact, StartOK, FilterOK
<1>2. ActorSpec => []RevisionsGrow
  BY ActorInvariant, InitRevisions, NextRevisions, PTL DEF ActorSpec
<1> QED
  BY <1>1, <1>2, ActorInvariant, PTL

---------------------------------------------------------------------------
\* The runs of a snapshot.

\* What one more run does to what is kept.
KeepOne(q, run, id) == IF run.run_id # id THEN Append(q, run) ELSE q

\* The function that Kept chooses, as a predicate, and that it exists.
Keeping(g, runs, id, n) ==
    g = [m \in 0 .. n |-> IF m = 0 THEN << >> ELSE KeepOne(g[m - 1], runs[m], id)]

LEMMA KeptExists ==
    ASSUME NEW runs, NEW id
    PROVE  \A n \in Nat : \E g : Keeping(g, runs, id, n)
<1> DEFINE Good(g, n) == g = [m \in 0 .. n |-> IF m = 0 THEN << >>
                                               ELSE KeepOne(g[m - 1], runs[m], id)]
           S == {n \in Nat : \E g : Good(g, n)}
<1>1. 0 \in S
  <2>1. Good([m \in 0 .. 0 |-> << >>], 0)
    OBVIOUS
  <2> QED
    BY <2>1
<1>2. ASSUME NEW n \in Nat, n \in S PROVE n + 1 \in S
  <2>1. PICK g : Good(g, n)
    BY <1>2
  <2>2. PICK h : h = [m \in 0 .. n + 1 |-> IF m \in 0 .. n THEN g[m]
                                            ELSE KeepOne(g[n], runs[m], id)]
    OBVIOUS
  <2>3. DOMAIN h = 0 .. n + 1 /\ \A m \in 0 .. n : h[m] = g[m]
    BY <2>2
  <2>4. h[n + 1] = KeepOne(g[n], runs[n + 1], id)
    BY <2>2
  <2>5. ASSUME NEW m \in 0 .. n + 1
        PROVE  h[m] = IF m = 0 THEN << >> ELSE KeepOne(h[m - 1], runs[m], id)
    <3>1. CASE m \in 0 .. n
      <4>1. g[m] = IF m = 0 THEN << >> ELSE KeepOne(g[m - 1], runs[m], id)
        BY <2>1, <3>1
      <4>2. m # 0 => m - 1 \in 0 .. n
        BY <3>1
      <4> QED
        BY <2>3, <3>1, <4>1, <4>2
    <3>2. CASE m = n + 1
      <4>1. m # 0 /\ m - 1 = n /\ n \in 0 .. n
        BY <3>2
      <4> QED
        BY <2>3, <2>4, <3>2, <4>1
    <3> QED
      BY <3>1, <3>2
  <2>6. Good(h, n + 1)
    BY <2>2, <2>5
  <2> QED
    BY <2>6
<1>3. Nat \subseteq S
  <2> HIDE DEF S
  <2> QED
    BY <1>1, <1>2, SetInduction
<1> QED
  BY <1>3 DEF Keeping

\* So it is computed run by run.
LEMMA KeptIs ==
    ASSUME NEW R, NEW runs \in Seq(R), NEW id
    PROVE  /\ Kept(runs, id)[0] = << >>
           /\ \A n \in 1 .. Len(runs) :
                 Kept(runs, id)[n] = KeepOne(Kept(runs, id)[n - 1], runs[n], id)
<1> DEFINE Good(g) == g = [n \in 0 .. Len(runs) |->
                             IF n = 0 THEN << >>
                             ELSE IF runs[n].run_id # id THEN Append(g[n - 1], runs[n])
                             ELSE g[n - 1]]
<1>1. PICK g : Good(g)
  <2>1. Len(runs) \in Nat
    OBVIOUS
  <2>2. PICK g : Keeping(g, runs, id, Len(runs))
    BY <2>1, KeptExists
  <2>3. Good(g)
    BY <2>2, Zenon DEF Keeping, KeepOne
  <2> HIDE DEF Good
  <2> QED
    BY <2>3
<1>2. Kept(runs, id) = CHOOSE h : Good(h)
  BY DEF Kept
<1> HIDE DEF Good
<1>3. Good(Kept(runs, id))
  BY <1>1, <1>2
<1>4. PICK k : k = Kept(runs, id)
  OBVIOUS
<1>5. Good(k)
  BY <1>3, <1>4
<1>6. \A n \in 0 .. Len(runs) :
         k[n] = IF n = 0 THEN << >>
                ELSE IF runs[n].run_id # id THEN Append(k[n - 1], runs[n])
                ELSE k[n - 1]
  BY <1>5, Zenon DEF Good
<1>7. Len(runs) \in Nat /\ 0 \in 0 .. Len(runs)
      /\ \A n \in 1 .. Len(runs) : n \in 0 .. Len(runs) /\ n # 0
  OBVIOUS
<1>8. k[0] = << >> /\ \A n \in 1 .. Len(runs) : k[n] = KeepOne(k[n - 1], runs[n], id)
  BY <1>6, <1>7, Zenon DEF KeepOne
<1> QED
  BY <1>4, <1>8

\* Every run that is kept is one of the first n, in the order of the list.
KeptOK(q, runs, id, n, R) ==
    /\ q \in Seq(R)
    /\ \A i \in DOMAIN q : \E j \in 1 .. n : q[i] = runs[j] /\ q[i].run_id # id
    /\ \A i, j \in DOMAIN q : q[i].run_id = q[j].run_id => i = j

LEMMA KeepOneOK ==
    ASSUME NEW R, NEW runs \in Seq(R), NEW id, NEW n \in Nat, n + 1 <= Len(runs),
           \A i, j \in DOMAIN runs : runs[i].run_id = runs[j].run_id => i = j,
           NEW q, KeptOK(q, runs, id, n, R)
    PROVE  KeptOK(KeepOne(q, runs[n + 1], id), runs, id, n + 1, R)
<1>1. n + 1 \in DOMAIN runs /\ \A j \in 1 .. n : j \in DOMAIN runs /\ j # n + 1 /\ j \in 1 .. n + 1
  OBVIOUS
<1>2. PICK run \in R : run = runs[n + 1]
  BY <1>1
<1>3. q \in Seq(R) /\ \A i \in DOMAIN q : \E j \in 1 .. n : q[i] = runs[j] /\ q[i].run_id # id
  BY DEF KeptOK
<1>4. CASE run.run_id = id
  <2>1. KeepOne(q, run, id) = q
    BY <1>4 DEF KeepOne
  <2>2. \A i \in DOMAIN q : \E j \in 1 .. n + 1 : q[i] = runs[j] /\ q[i].run_id # id
    BY <1>1, <1>3
  <2> QED
    BY <1>2, <2>1, <2>2 DEF KeptOK
<1>5. CASE run.run_id # id
  <2>1. PICK p : p = Append(q, run)
    OBVIOUS
  <2>2. KeepOne(q, run, id) = p
    BY <1>5, <2>1 DEF KeepOne
  <2>3. PICK l \in Nat : l = Len(q) /\ DOMAIN q = 1 .. l
    BY <1>3
  <2>4. /\ p \in Seq(R) /\ DOMAIN p = 1 .. l + 1 /\ p[l + 1] = run
        /\ \A i \in DOMAIN q : p[i] = q[i]
    BY <1>3, <2>1, <2>3
  <2>5. \A i \in DOMAIN p : i \in DOMAIN q \/ i = l + 1
    BY <2>3, <2>4
  <2>6. \A i \in DOMAIN q : q[i].run_id # run.run_id
    BY <1>1, <1>2, <1>3
  <2>7. \A i \in DOMAIN p : \E j \in 1 .. n + 1 : p[i] = runs[j] /\ p[i].run_id # id
    <3>1. \A i \in DOMAIN q : \E j \in 1 .. n + 1 : p[i] = runs[j] /\ p[i].run_id # id
      BY <1>1, <1>3, <2>4
    <3>2. n + 1 \in 1 .. n + 1
      OBVIOUS
    <3> QED
      BY <1>2, <1>5, <2>4, <2>5, <3>1, <3>2
  <2>8. \A i, j \in DOMAIN p : p[i].run_id = p[j].run_id => i = j
    BY <2>4, <2>5, <2>6 DEF KeptOK
  <2> QED
    BY <1>2, <2>2, <2>4, <2>7, <2>8 DEF KeptOK
<1> QED
  BY <1>4, <1>5

\* retain keeps runs of the list, none with the id, and each once.
LEMMA RetainOK ==
    ASSUME NEW R, NEW runs \in Seq(R), NEW id,
           \A i, j \in DOMAIN runs : runs[i].run_id = runs[j].run_id => i = j
    PROVE  KeptOK(Retain(runs, id), runs, id, Len(runs), R)
<1> DEFINE k == Kept(runs, id)
           S == {n \in Nat : n <= Len(runs) => KeptOK(k[n], runs, id, n, R)}
<1>1. k[0] = << >> /\ \A n \in 1 .. Len(runs) : k[n] = KeepOne(k[n - 1], runs[n], id)
  BY KeptIs
<1> HIDE DEF k
<1>2. 0 \in S
  <2>1. KeptOK(<< >>, runs, id, 0, R)
    BY DEF KeptOK
  <2> QED
    BY <1>1, <2>1
<1>3. ASSUME NEW n \in Nat, n \in S PROVE n + 1 \in S
  <2> SUFFICES ASSUME n + 1 <= Len(runs) PROVE KeptOK(k[n + 1], runs, id, n + 1, R)
    OBVIOUS
  <2>1. KeptOK(k[n], runs, id, n, R)
    BY <1>3
  <2>2. n + 1 \in 1 .. Len(runs) /\ (n + 1) - 1 = n
    OBVIOUS
  <2>3. k[n + 1] = KeepOne(k[n], runs[n + 1], id)
    BY <1>1, <2>2
  <2>4. PICK q : q = k[n]
    OBVIOUS
  <2> QED
    BY <2>1, <2>3, <2>4, KeepOneOK
<1>4. Nat \subseteq S
  <2> HIDE DEF S
  <2> QED
    BY <1>2, <1>3, SetInduction
<1>5. KeptOK(k[Len(runs)], runs, id, Len(runs), R)
  <2>1. Len(runs) \in Nat /\ Len(runs) <= Len(runs)
    OBVIOUS
  <2> QED
    BY <1>4, <2>1
<1> QED
  BY <1>5 DEF k, Retain

\* The fields of a body.
BodyFields == {"lifecycle", "session", "active_run", "recent_runs", "interaction",
               "available_commands"}

\* A run that ends is listed in place of what was listed under its id, and is
\* active no longer; one that goes on is the active one and is not listed.
LEMMA UpsertKeepsRuns ==
    ASSUME NEW body, DOMAIN body = BodyFields, body.recent_runs \in Seq(Run),
           WellFormed(body), NEW run \in Run
    PROVE  WellFormed(RunUpserted(body, run))
<1>1. PICK runs, kept : runs = body.recent_runs /\ kept = Retain(runs, run.run_id)
  OBVIOUS
<1>2. \A i, j \in DOMAIN runs : runs[i].run_id = runs[j].run_id => i = j
  BY <1>1 DEF WellFormed
<1>3. runs \in Seq(Run)
  BY <1>1
<1>4. /\ kept \in Seq(Run)
      /\ \A i \in DOMAIN kept : \E j \in 1 .. Len(runs) :
            kept[i] = runs[j] /\ kept[i].run_id # run.run_id
      /\ \A i, j \in DOMAIN kept : kept[i].run_id = kept[j].run_id => i = j
  <2>1. KeptOK(Retain(runs, run.run_id), runs, run.run_id, Len(runs), Run)
    BY <1>2, <1>3, RetainOK
  <2> QED
    BY <1>1, <2>1 DEF KeptOK
<1>5. \A i \in DOMAIN kept : \E j \in DOMAIN runs :
         kept[i] = runs[j] /\ kept[i].run_id # run.run_id
  BY <1>3, <1>4
<1>6. \A i \in DOMAIN kept : is_terminal(kept[i])
  BY <1>1, <1>5 DEF WellFormed
<1>7. \A r \in body.active_run : ~is_terminal(r) /\ \A i \in DOMAIN kept : kept[i].run_id # r.run_id
  BY <1>1, <1>5 DEF WellFormed
<1>8. \A q, r \in body.active_run : q = r
  BY DEF WellFormed
<1>9. CASE is_terminal(run)
  <2>1. PICK next : next = RunUpserted(body, run)
    OBVIOUS
  <2>2. PICK list : list = Append(kept, run)
    OBVIOUS
  <2>3. /\ next.recent_runs = list
        /\ next.active_run = {r \in body.active_run : r.run_id # run.run_id}
    BY <1>1, <1>9, <2>1, <2>2 DEF RunUpserted, BodyFields
  <2>4. PICK l \in Nat : l = Len(kept) /\ DOMAIN kept = 1 .. l
    BY <1>4
  <2>5. DOMAIN list = 1 .. l + 1 /\ list[l + 1] = run /\ \A i \in DOMAIN kept : list[i] = kept[i]
    BY <1>4, <2>2, <2>4
  <2>6. \A i \in DOMAIN list : i \in DOMAIN kept \/ i = l + 1
    BY <2>4, <2>5
  <2>7. \A i \in DOMAIN list : is_terminal(list[i])
    BY <1>6, <1>9, <2>5, <2>6
  <2>8. \A i, j \in DOMAIN list : list[i].run_id = list[j].run_id => i = j
    BY <1>4, <2>5, <2>6
  <2>9. \A r \in next.active_run :
           ~is_terminal(r) /\ \A i \in DOMAIN list : list[i].run_id # r.run_id
    BY <1>7, <2>3, <2>5, <2>6
  <2> QED
    BY <1>8, <2>1, <2>3, <2>7, <2>8, <2>9 DEF WellFormed
<1>10. CASE ~is_terminal(run)
  <2>1. PICK next : next = RunUpserted(body, run)
    OBVIOUS
  <2>2. next.recent_runs = kept /\ next.active_run = {run}
    BY <1>1, <1>10, <2>1 DEF RunUpserted, BodyFields
  <2> QED
    BY <1>4, <1>5, <1>6, <1>10, <2>1, <2>2 DEF WellFormed
<1> QED
  BY <1>9, <1>10

\* A run that is removed is neither listed nor active.
LEMMA RemoveKeepsRuns ==
    ASSUME NEW body, DOMAIN body = BodyFields, body.recent_runs \in Seq(Run),
           WellFormed(body), NEW id
    PROVE  WellFormed(RunRemoved(body, id))
<1>1. PICK runs, kept : runs = body.recent_runs /\ kept = Retain(runs, id)
  OBVIOUS
<1>2. \A i, j \in DOMAIN runs : runs[i].run_id = runs[j].run_id => i = j
  BY <1>1 DEF WellFormed
<1>3. runs \in Seq(Run)
  BY <1>1
<1>4. KeptOK(kept, runs, id, Len(runs), Run)
  BY <1>1, <1>2, <1>3, RetainOK
<1>5. \A i \in DOMAIN kept : \E j \in DOMAIN runs : kept[i] = runs[j]
  BY <1>3, <1>4 DEF KeptOK
<1>6. \A i, j \in DOMAIN kept : kept[i].run_id = kept[j].run_id => i = j
  BY <1>4 DEF KeptOK
<1>7. PICK next : next = RunRemoved(body, id)
  OBVIOUS
<1>8. next.recent_runs = kept /\ next.active_run \subseteq body.active_run
  BY <1>1, <1>7 DEF RunRemoved, BodyFields
<1>9. \A i \in DOMAIN kept : is_terminal(kept[i])
  BY <1>1, <1>5 DEF WellFormed
<1>10. \A r \in body.active_run : ~is_terminal(r) /\ \A i \in DOMAIN kept : kept[i].run_id # r.run_id
  BY <1>1, <1>5 DEF WellFormed
<1> QED
  BY <1>6, <1>7, <1>8, <1>9, <1>10 DEF WellFormed

\* apply_change keeps the runs of a body in order.
LEMMA ApplyChangeKeepsRuns ==
    ASSUME NEW body \in Body, NEW change \in Change, WellFormed(body)
    PROVE  WellFormed(ApplyChange(body, change))
<1>1. DOMAIN body = BodyFields /\ body.recent_runs \in Seq(Run)
  BY ProgramAssumption DEF InitialAgentBody, BodyFields
<1>2. ApplyChange(body, change) = apply_change(body, change)
  BY ProgramAssumption
<1>3. CASE change.kind = "run_upserted"
  <2>1. change.run \in Run
    BY <1>3, ProgramAssumption
  <2>2. apply_change(body, change) = RunUpserted(body, change.run)
    BY <1>3 DEF apply_change
  <2> QED
    BY <1>1, <1>2, <2>1, <2>2, UpsertKeepsRuns
<1>4. CASE change.kind = "run_removed"
  <2>1. apply_change(body, change) = RunRemoved(body, change.run_id)
    BY <1>4 DEF apply_change
  <2> QED
    BY <1>1, <1>2, <2>1, RemoveKeepsRuns
<1>5. CASE change.kind \notin {"run_upserted", "run_removed"}
  <2>1. PICK next : next = apply_change(body, change)
    OBVIOUS
  <2>2. change.kind \in {"lifecycle_changed", "session_changed", "session_cleared",
                         "interaction_changed", "available_commands_changed"}
    BY <1>5, ProgramAssumption
  <2>3. next.recent_runs = body.recent_runs /\ next.active_run = body.active_run
    BY <1>1, <2>1, <2>2 DEF apply_change, BodyFields
  <2> QED
    BY <1>2, <2>1, <2>3 DEF WellFormed
<1> QED
  BY <1>3, <1>4, <1>5

LEMMA NextRuns == ActorInv /\ RunsWellFormed /\ [ActorNext]_actorVars => RunsWellFormed'
<1> SUFFICES ASSUME ActorInv, RunsWellFormed, [ActorNext]_actorVars PROVE RunsWellFormed'
  OBVIOUS
<1>0. snapshot \in Snapshot /\ snapshot.body \in Body
  BY DEF ActorInv, ActorTypeOK, Snapshot
<1>1. ASSUME NEW c \in Change, apply_change_command(c) PROVE RunsWellFormed'
  <2>1. snapshot'.body = ApplyChange(snapshot.body, c)
    BY <1>0, <1>1 DEF apply_change_command, ApplyUpdate, Snapshot
  <2> QED
    BY <1>0, <2>1, ApplyChangeKeepsRuns DEF RunsWellFormed
<1>2. CASE publish_event
  <2>1. snapshot'.body = snapshot.body
    BY <1>0, <1>2 DEF publish_event, ApplyUpdate, Snapshot
  <2> QED
    BY <2>1 DEF RunsWellFormed
<1>3. ASSUME NEW s \in Sub, subscribe(s) \/ RecvCheck(s) \/ RecvUpdate(s) \/ DropSubscription(s)
      PROVE  RunsWellFormed'
  BY <1>3 DEF subscribe, RecvCheck, RecvUpdate, DropSubscription, RunsWellFormed
<1>4. CASE shutdown \/ UNCHANGED actorVars
  BY <1>4 DEF shutdown, actorVars, RunsWellFormed
<1>5. ASSUME NEW b \in SpawnBody, spawn(b) PROVE RunsWellFormed'
  <2>1. snapshot'.body = b /\ b.active_run = {} /\ b.recent_runs = << >>
    BY <1>5, ProgramAssumption DEF spawn, Fresh
  <2> QED
    BY <2>1 DEF RunsWellFormed, WellFormed
<1> QED
  BY <1>1, <1>2, <1>3, <1>4, <1>5 DEF ActorNext

LEMMA InitRuns == ActorInit => RunsWellFormed
<1> SUFFICES ASSUME ActorInit PROVE RunsWellFormed
  OBVIOUS
<1>1. snapshot.body.active_run = {} /\ snapshot.body.recent_runs = << >>
  BY ProgramAssumption DEF ActorInit, Fresh
<1> QED
  BY <1>1 DEF RunsWellFormed, WellFormed

\* At most one run is active and it has not ended; the recent ones have, each is
\* listed once, and none of them is active: for any runs, with the program's
\* apply_change, whatever is upserted and removed in whichever order (state.rs).
THEOREM RunsCorrect == ActorSpec => []RunsWellFormed
  BY ActorInvariant, InitRuns, NextRuns, PTL DEF ActorSpec
=============================================================================

--------------------------- MODULE RuntimeProofs ---------------------------
(***************************************************************************)
(* Proofs about Runtime, for any number of callers, all capacities and a   *)
(* child that does whatever it likes: every frame the actor takes reaches  *)
(* exactly one place, a response the child has written is not lost when it *)
(* exits, and no command stays in `pending` without a caller.              *)
(***************************************************************************)
EXTENDS Runtime, TLAPS

---------------------------------------------------------------------------
\* The inductive invariant.

TypeInv == TypeOK /\ Len(written) <= MaxFrames

Gone(c) == [kind |-> "cancel", who |-> c]

\* A message in the actor's channel: its caller has sent it, its sender is
\* nowhere else, and a Cancel is the last its caller does.
MessageOK(m) ==
    /\ m.kind = "cancel" => m.who \in Command /\ call[m.who].at = "done"
    /\ m.kind # "cancel" => /\ m.kind = Kind(m.who)
                            /\ call[m.who].at \notin {"idle", "send"}
                            /\ m.who \notin pending \cup actor.serves

\* Of two messages of one caller the first is its call and the second its
\* Cancel: that is why a Cancel finds the command in `pending`.
ChannelOK ==
    /\ \A i \in DOMAIN channel : MessageOK(channel[i])
    /\ \A i, j \in DOMAIN channel : (i < j /\ channel[i].who = channel[j].who) =>
          channel[i].kind # "cancel" /\ channel[j].kind = "cancel"

\* A caller's sender is in one place at most, and nowhere once the actor has
\* returned.
PlacesOK ==
    /\ \A c \in pending \cup actor.serves : call[c].at \notin {"idle", "send"}
    /\ pending \cap actor.serves = {}
    /\ \A c, d \in actor.serves : c = d
    /\ actor.at \in {"loop", "kill", "ended"} => actor.serves = {}
    /\ actor.at = "write" => actor.serves \subseteq Command \cup Message
    /\ actor.at = "ended" => pending = {} /\ channel = << >> /\ ~alive
    /\ status = "running" <=> actor.at # "ended"

\* A sender that is held has a caller that waits, or one that has announced
\* that it does not; and while the actor runs, a caller that waits has its
\* sender held.
WaitOK ==
    \A c \in Caller :
       /\ SenderHeld(c) => \/ call[c].at \in {"wait", "cancel"}
                           \/ \E i \in DOMAIN channel : channel[i] = Gone(c)
       /\ (call[c].at = "wait" /\ actor.at # "ended") => SenderHeld(c)
       /\ call[c].at = "cancel" => c \in Command

\* What has been written to the child is no longer in the actor's hands, and
\* the child answers only what it has read.
Sent(c) == c \in read \/ \E i \in DOMAIN stdin : stdin[i] = c

ReadOK ==
    /\ \A c \in Caller : Sent(c) =>
          /\ call[c].at \notin {"idle", "send"}
          /\ c \notin actor.serves
          /\ \A i \in DOMAIN channel : channel[i].who = c => channel[i].kind = "cancel"
          /\ actor.at = "ended" => call[c].at # "wait"
    /\ \A n \in DOMAIN written : /\ written[n].to \subseteq read
                                 /\ written[n].bad => written[n].to = {}

\* The parts of EveryFrameRouted that are about frames, and what they rest on:
\* the end is announced last, and no frame that was taken answers a command
\* that still waits.
FramesOK ==
    /\ {events[i] : i \in FrameEvents} \cup answered = {n \in 1 .. handled : ~written[n].bad}
    /\ {events[i] : i \in FrameEvents} \cap answered = {}
    /\ \A i, j \in FrameEvents : i < j => events[i] < events[j]
    /\ \A i \in FrameEvents, j \in DOMAIN events \ FrameEvents : i < j
    /\ \A m, n \in answered : m # n => written[m].to # written[n].to
    /\ actor.at # "ended" => \A i \in DOMAIN events : events[i] # Ended
    /\ \A n \in 1 .. handled : written[n].to \cap pending = {}

\* A reply with a response is of the frame that answers the caller.
RepliesOK ==
    \A c \in Caller, n \in Nat : Response(n) \in call[c].reply =>
        n \in answered /\ c \in written[n].to

\* A command is told that the runtime stopped only after it has, and then no
\* frame the child wrote answers it, unless the output was cut short.
StoppedOK ==
    \A c \in Command : Other("runtime_stopped") \in call[c].reply =>
        /\ actor.at = "ended"
        /\ (status = "exited" /\ \A n \in DOMAIN written : ~written[n].bad) =>
              \A n \in DOMAIN written : c \notin written[n].to

RuntimeInv ==
    TypeInv /\ ChannelOK /\ PlacesOK /\ WaitOK /\ ReadOK /\ FramesOK /\ RepliesOK /\ StoppedOK

---------------------------------------------------------------------------
\* Lemmas about calls and replies.

Call == [at : {"idle", "send", "wait", "cancel", "done"}, reply : SUBSET Result]

LEMMA CallShape ==
    ASSUME TypeInv
    PROVE  /\ call \in [Caller -> Call]
           /\ \A c \in Caller : call[c].at \in {"idle", "send", "wait", "cancel", "done"}
  BY DEF TypeInv, TypeOK, Call

LEMMA ChannelShape ==
    ASSUME TypeInv
    PROVE  /\ channel \in Seq(ActorMessage) /\ Len(channel) \in Nat
           /\ DOMAIN channel = 1 .. Len(channel)
           /\ \A i \in DOMAIN channel : /\ channel[i] \in ActorMessage
                                        /\ channel[i].who \in Caller
                                        /\ channel[i].kind \in {"request", "shutdown", "cancel"}
<1>1. channel \in Seq(ActorMessage)
  BY DEF TypeInv, TypeOK
<1>2. \A i \in DOMAIN channel : channel[i] \in ActorMessage
  BY <1>1
<1> QED
  BY <1>1, <1>2 DEF ActorMessage

LEMMA ResultKinds ==
    /\ \A k, n : Other(k) # Response(n) \/ k = "response"
    /\ \A j, k : j # k => Other(j) # Other(k)
    /\ \A m, n : m # n => Response(m) # Response(n)
    /\ \A n \in 1 .. MaxFrames : Response(n) \in Result
    /\ \A k \in {"sent", "exit", "runtime_stopped", "timed_out", "frame_too_large", "transport"} :
          Other(k) \in Result /\ \A n : Other(k) # Response(n)
<1>1. \A k, n : Other(k).kind = k /\ Response(n).kind = "response" /\ Response(n).frame = n
  BY DEF Other, Response
<1>2. /\ \A n \in 1 .. MaxFrames : Response(n) \in Result
      /\ \A k \in {"sent", "exit", "runtime_stopped", "timed_out", "frame_too_large",
                   "transport"} : Other(k) \in Result
  BY DEF Result
<1> QED
  BY <1>1, <1>2

LEMMA Disjoint ==
    /\ \A c \in Stopper : c \notin Command /\ c \notin Message
    /\ \A c \in Command : c \notin Message /\ c \notin Stopper
    /\ \A c \in Caller : c \in Command \/ c \in Message \/ c \in Stopper
    /\ Command \subseteq Caller /\ Message \subseteq Caller /\ Stopper \subseteq Caller
  BY RuntimeAssumption DEF Caller

\* What a reply does to each call.
LEMMA ReplyShape ==
    ASSUME NEW calls \in [Caller -> Call], NEW cs, NEW value \in Result
    PROVE  LET new == Reply(calls, cs, value)
           IN /\ new \in [Caller -> Call]
              /\ \A c \in Caller :
                    \/ c \in cs /\ calls[c].at = "wait" /\ new[c].at = "done" /\ new[c].reply = {value}
                    \/ (c \notin cs \/ calls[c].at # "wait") /\ new[c] = calls[c]
<1> DEFINE done == [at |-> "done", reply |-> {value}]
<1>1. done \in Call /\ done.at = "done" /\ done.reply = {value}
  BY DEF Call
<1>2. Reply(calls, cs, value) =
         [c \in Caller |-> IF c \in cs /\ calls[c].at = "wait" THEN done ELSE calls[c]]
  BY DEF Reply
<1> HIDE DEF done
<1> QED
  BY <1>1, <1>2

LEMMA ReturnShape ==
    ASSUME TypeInv, NEW c \in Caller, NEW k, Other(k) \in Result, Return(c, k)
    PROVE  \E new \in Call : /\ call' = [call EXCEPT ![c] = new]
                             /\ new.at = "done" /\ new.reply = {Other(k)}
<1> DEFINE done == [at |-> "done", reply |-> {Other(k)}]
<1>1. done \in Call /\ done.at = "done" /\ done.reply = {Other(k)}
  BY DEF Call
<1>2. call' = [call EXCEPT ![c] = done]
  BY DEF Return
<1> HIDE DEF done
<1> QED
  BY <1>1, <1>2

LEMMA RuntimeUnchanged ==
    ASSUME RuntimeInv, UNCHANGED vars PROVE RuntimeInv'
<1>1. UNCHANGED <<call, handles, channel, actor, pending, reader_open, status, events, stdin,
                  alive, read, written, handled, answered>>
  BY DEF vars, callerVars, childVars, loopVars
<1>2. TypeInv' /\ ChannelOK' /\ PlacesOK'
  BY <1>1 DEF RuntimeInv, TypeInv, TypeOK, ChannelOK, MessageOK, PlacesOK
<1>3. WaitOK' /\ ReadOK'
  BY <1>1 DEF RuntimeInv, WaitOK, SenderHeld, ReadOK, Sent
<1>4. FramesOK' /\ RepliesOK' /\ StoppedOK'
  BY <1>1 DEF RuntimeInv, FramesOK, FrameEvents, RepliesOK, StoppedOK
<1> QED
  BY <1>2, <1>3, <1>4 DEF RuntimeInv

---------------------------------------------------------------------------
\* Steps of the callers.

\* A caller moves on by itself: it is not done, it does not go back to before
\* its message was sent, it does not leave its sender behind, and if it says
\* that the runtime stopped, it has and the command was never written.
LEMMA CallerMoves ==
    ASSUME RuntimeInv, NEW c \in Caller, NEW new \in Call,
           call' = [call EXCEPT ![c] = new],
           UNCHANGED <<handles, channel, actor, pending, reader_open, status, events, stdin,
                       alive, read, written, handled, answered>>,
           call[c].at # "done",
           new.at \in {"idle", "send"} => call[c].at \in {"idle", "send"},
           new.at # "wait",
           SenderHeld(c) => new.at = "cancel",
           new.at = "cancel" => c \in Command,
           \/ new.reply = call[c].reply
           \/ \E k \in {"exit", "timed_out", "runtime_stopped"} :
                 /\ new.reply = {Other(k)}
                 /\ (k = "runtime_stopped" /\ c \in Command) => actor.at = "ended" /\ ~Sent(c)
    PROVE  RuntimeInv'
<1>1. /\ call' \in [Caller -> Call]
      /\ \A d \in Caller : call'[d] = IF d = c THEN new ELSE call[d]
  BY CallShape DEF RuntimeInv
<1>2. TypeInv'
  BY <1>1 DEF RuntimeInv, TypeInv, TypeOK, Call
<1>3. ChannelOK'
  <2>1. ASSUME NEW i \in DOMAIN channel PROVE MessageOK(channel[i])'
    <3>1. channel[i].who \in Caller /\ MessageOK(channel[i])
      BY ChannelShape DEF RuntimeInv, ChannelOK
    <3> QED
      BY <1>1, <3>1 DEF MessageOK, Kind
  <2> QED
    BY <2>1 DEF RuntimeInv, ChannelOK
<1>4. pending \cup actor.serves \subseteq Caller
  BY Disjoint DEF RuntimeInv, TypeInv, TypeOK
<1>5. PlacesOK'
  BY <1>1, <1>4 DEF RuntimeInv, PlacesOK
<1>6. WaitOK'
  <2>1. \A d \in Caller : SenderHeld(d)' = SenderHeld(d)
    BY DEF SenderHeld
  <2> QED
    BY <1>1, <2>1 DEF RuntimeInv, WaitOK
<1>7. ReadOK'
  <2>1. \A d \in Caller : Sent(d)' = Sent(d)
    BY DEF Sent
  <2> QED
    BY <1>1, <2>1 DEF RuntimeInv, ReadOK
<1>8. FramesOK'
  BY DEF RuntimeInv, FramesOK, FrameEvents
<1>9. RepliesOK'
  BY <1>1, ResultKinds DEF RuntimeInv, RepliesOK
<1>10. StoppedOK'
  <2> SUFFICES ASSUME NEW d \in Command, Other("runtime_stopped") \in call'[d].reply
               PROVE  /\ actor.at = "ended"
                      /\ (status = "exited" /\ \A n \in DOMAIN written : ~written[n].bad) =>
                            \A n \in DOMAIN written : d \notin written[n].to
    BY DEF StoppedOK
  <2>1. CASE Other("runtime_stopped") \in call[d].reply
    BY <2>1 DEF RuntimeInv, StoppedOK
  <2>2. CASE Other("runtime_stopped") \notin call[d].reply
    <3>1. d = c
      BY <1>1, <2>2, Disjoint
    <3>2. actor.at = "ended" /\ ~Sent(d)
      BY <1>1, <2>2, <3>1, ResultKinds
    <3> QED
      BY <3>2 DEF RuntimeInv, ReadOK, Sent
  <2> QED
    BY <2>1, <2>2
<1> QED
  BY <1>2, <1>3, <1>5, <1>6, <1>7, <1>8, <1>9, <1>10 DEF RuntimeInv

LEMMA BeginKeepsInv ==
    ASSUME RuntimeInv, NEW c \in Caller, Begin(c) PROVE RuntimeInv'
<1>1. /\ UNCHANGED <<handles, channel, actor, pending, reader_open, status, events, stdin,
                     alive, read, written, handled, answered>>
      /\ call[c].at = "idle"
  BY DEF Begin, loopVars, childVars
<1>2. ~SenderHeld(c)
  BY <1>1 DEF RuntimeInv, WaitOK, ChannelOK, MessageOK, PlacesOK, SenderHeld
<1>3. CASE c \in Stopper /\ status # "running"
  <2>1. PICK k \in {"exit", "runtime_stopped"} : Return(c, k)
    BY <1>3 DEF Begin
  <2>2. PICK new \in Call : /\ call' = [call EXCEPT ![c] = new]
                            /\ new.at = "done" /\ new.reply = {Other(k)}
    BY <2>1, ReturnShape, ResultKinds DEF RuntimeInv
  <2>3. c \notin Command
    BY <1>3, Disjoint
  <2> QED
    BY <1>1, <1>2, <2>1, <2>2, <2>3, CallerMoves
<1>4. CASE ~(c \in Stopper /\ status # "running")
  <2> DEFINE new == [call[c] EXCEPT !.at = "send"]
  <2>1. new \in Call /\ new.at = "send" /\ new.reply = call[c].reply
    BY CallShape DEF RuntimeInv, Call
  <2>2. call' = [call EXCEPT ![c] = new]
    BY <1>4, CallShape DEF Begin, RuntimeInv
  <2> HIDE DEF new
  <2> QED
    BY <1>1, <1>2, <2>1, <2>2, CallerMoves
<1> QED
  BY <1>3, <1>4

LEMMA SendFailsKeepsInv ==
    ASSUME RuntimeInv, NEW c \in Caller, SendFails(c) PROVE RuntimeInv'
<1>1. /\ UNCHANGED <<handles, channel, actor, pending, reader_open, status, events, stdin,
                     alive, read, written, handled, answered>>
      /\ call[c].at = "send" /\ actor.at = "ended"
  BY DEF SendFails, loopVars, childVars
<1>2. ~SenderHeld(c)
  BY <1>1 DEF RuntimeInv, WaitOK, ChannelOK, MessageOK, PlacesOK, SenderHeld
<1>3. ~Sent(c)
  BY <1>1 DEF RuntimeInv, ReadOK
<1>4. PICK k \in {"exit", "runtime_stopped"} : Return(c, k)
  BY DEF SendFails
<1>5. PICK new \in Call : /\ call' = [call EXCEPT ![c] = new]
                          /\ new.at = "done" /\ new.reply = {Other(k)}
  BY <1>4, ReturnShape, ResultKinds DEF RuntimeInv
<1> QED
  BY <1>1, <1>2, <1>3, <1>4, <1>5, CallerMoves

\* The oneshot of a caller that waits is dropped only when the actor has
\* returned with the message still in its channel.
LEMMA SenderDroppedKeepsInv ==
    ASSUME RuntimeInv, NEW c \in Caller, SenderDropped(c) PROVE RuntimeInv'
<1>1. /\ UNCHANGED <<handles, channel, actor, pending, reader_open, status, events, stdin,
                     alive, read, written, handled, answered>>
      /\ call[c].at = "wait" /\ ~SenderHeld(c) /\ Return(c, "runtime_stopped")
  BY DEF SenderDropped, loopVars, childVars
<1>2. actor.at = "ended"
  BY <1>1 DEF RuntimeInv, WaitOK
<1>3. ~Sent(c)
  BY <1>1, <1>2 DEF RuntimeInv, ReadOK
<1>4. PICK new \in Call : /\ call' = [call EXCEPT ![c] = new]
                          /\ new.at = "done" /\ new.reply = {Other("runtime_stopped")}
  BY <1>1, ReturnShape, ResultKinds DEF RuntimeInv
<1> QED
  BY <1>1, <1>2, <1>3, <1>4, CallerMoves

LEMMA TimeoutKeepsInv ==
    ASSUME RuntimeInv, NEW c \in Caller, Timeout(c) PROVE RuntimeInv'
<1> DEFINE new == [call[c] EXCEPT !.at = "cancel"]
<1>1. /\ UNCHANGED <<handles, channel, actor, pending, reader_open, status, events, stdin,
                     alive, read, written, handled, answered>>
      /\ call[c].at = "wait" /\ c \in Command
  BY DEF Timeout, loopVars, childVars
<1>2. new \in Call /\ new.at = "cancel" /\ new.reply = call[c].reply
  BY CallShape DEF RuntimeInv, Call
<1>3. call' = [call EXCEPT ![c] = new]
  BY CallShape DEF Timeout, RuntimeInv
<1> HIDE DEF new
<1> QED
  BY <1>1, <1>2, <1>3, CallerMoves

---------------------------------------------------------------------------
\* Steps that use the channel.

LEMMA AppendShape ==
    ASSUME NEW S, NEW q \in Seq(S), NEW x \in S
    PROVE  /\ Len(q) \in Nat /\ DOMAIN q = 1 .. Len(q)
           /\ Append(q, x) \in Seq(S) /\ Len(Append(q, x)) = Len(q) + 1
           /\ DOMAIN Append(q, x) = 1 .. Len(q) + 1
           /\ Append(q, x)[Len(q) + 1] = x
           /\ \A i \in 1 .. Len(q) : Append(q, x)[i] = q[i]
  OBVIOUS

LEMMA TailShape ==
    ASSUME NEW S, NEW q \in Seq(S), q # << >>
    PROVE  /\ Len(q) \in Nat /\ Len(q) > 0 /\ DOMAIN q = 1 .. Len(q)
           /\ Tail(q) \in Seq(S) /\ Len(Tail(q)) = Len(q) - 1
           /\ DOMAIN Tail(q) = 1 .. Len(q) - 1
           /\ Head(q) = q[1] /\ Head(q) \in S
           /\ \A i \in 1 .. Len(q) - 1 : Tail(q)[i] = q[i + 1]
  OBVIOUS

\* A caller that has not sent its message has nothing anywhere.
LEMMA Absent ==
    ASSUME RuntimeInv, NEW c \in Caller, call[c].at \in {"idle", "send"}
    PROVE  /\ c \notin pending \cup actor.serves /\ ~SenderHeld(c) /\ ~Sent(c)
           /\ \A i \in DOMAIN channel : channel[i].who # c
<1>1. \A i \in DOMAIN channel : channel[i].who # c
  BY DEF RuntimeInv, ChannelOK, MessageOK
<1>2. c \notin pending \cup actor.serves
  BY DEF RuntimeInv, PlacesOK
<1> QED
  BY <1>1, <1>2 DEF RuntimeInv, ReadOK, SenderHeld

LEMMA SendKeepsInv ==
    ASSUME RuntimeInv, NEW c \in Caller, Send(c) PROVE RuntimeInv'
<1> DEFINE new == [call[c] EXCEPT !.at = "wait"]
           m == [kind |-> Kind(c), who |-> c]
           last == Len(channel) + 1
<1>1. /\ UNCHANGED <<handles, actor, pending, reader_open, status, events, stdin,
                     alive, read, written, handled, answered>>
      /\ call[c].at = "send" /\ actor.at # "ended" /\ Len(channel) < ActorCapacity
      /\ channel' = Append(channel, m)
  BY DEF Send, ChannelRoom, loopVars, childVars
<1>2. new \in Call /\ new.at = "wait" /\ new.reply = call[c].reply
  BY CallShape DEF RuntimeInv, Call
<1>3. call' = [call EXCEPT ![c] = new]
  BY CallShape DEF Send, RuntimeInv
<1> HIDE DEF new
<1>4. /\ call' \in [Caller -> Call]
      /\ \A d \in Caller : call'[d] = IF d = c THEN new ELSE call[d]
  BY <1>2, <1>3, CallShape DEF RuntimeInv
<1>5. /\ m \in ActorMessage /\ m.who = c /\ m.kind = Kind(c) /\ Kind(c) # "cancel"
  BY DEF ActorMessage, Kind
<1> HIDE DEF m
<1>6. /\ Len(channel) \in Nat /\ DOMAIN channel = 1 .. Len(channel)
      /\ channel' \in Seq(ActorMessage) /\ Len(channel') = Len(channel) + 1
      /\ DOMAIN channel' = 1 .. last /\ channel'[last] = m /\ last \in DOMAIN channel'
      /\ \A i \in DOMAIN channel : channel'[i] = channel[i] /\ i < last /\ i \in DOMAIN channel'
  BY <1>1, <1>5, AppendShape, ChannelShape DEF RuntimeInv
<1>7. \A i \in DOMAIN channel' : i = last \/ i \in DOMAIN channel
  BY <1>6
<1> HIDE DEF last
<1>8. /\ c \notin pending \cup actor.serves /\ ~SenderHeld(c) /\ ~Sent(c)
      /\ \A i \in DOMAIN channel : channel[i].who # c
  BY <1>1, Absent
<1>9. TypeInv'
  <2>1. Len(channel') <= ActorCapacity
    BY <1>1, <1>6, RuntimeAssumption
  <2> QED
    BY <1>1, <1>4, <1>6, <2>1 DEF RuntimeInv, TypeInv, TypeOK, Call
<1>10. ChannelOK'
  <2>1. ASSUME NEW i \in DOMAIN channel' PROVE MessageOK(channel[i])'
    <3>1. CASE i = last
      BY <1>1, <1>2, <1>4, <1>5, <1>6, <1>8, <3>1 DEF MessageOK, Kind
    <3>2. CASE i \in DOMAIN channel
      <4>1. /\ channel[i].who \in Caller /\ channel[i].who # c /\ MessageOK(channel[i])
            /\ channel'[i] = channel[i]
        BY <1>6, <1>8, <3>2, ChannelShape DEF RuntimeInv, ChannelOK
      <4> QED
        BY <1>1, <1>4, <4>1 DEF MessageOK, Kind
    <3> QED
      BY <1>7, <3>1, <3>2
  <2>2. ASSUME NEW i \in DOMAIN channel', NEW j \in DOMAIN channel', i < j,
               channel'[i].who = channel'[j].who
        PROVE  channel'[i].kind # "cancel" /\ channel'[j].kind = "cancel"
    <3>1. i \in DOMAIN channel /\ i \in Nat /\ j \in Nat
      BY <1>6, <2>2 DEF last
    <3>2. j # last
      BY <1>5, <1>6, <1>8, <2>2, <3>1
    <3> QED
      BY <1>6, <1>7, <2>2, <3>1, <3>2 DEF RuntimeInv, ChannelOK
  <2> QED
    BY <2>1, <2>2 DEF ChannelOK
<1>11. PlacesOK'
  <2>1. pending \cup actor.serves \subseteq Caller
    BY Disjoint DEF RuntimeInv, TypeInv, TypeOK
  <2> QED
    BY <1>1, <1>2, <1>4, <2>1 DEF RuntimeInv, PlacesOK
<1>12. \A d \in Caller : SenderHeld(d)' <=> d = c \/ SenderHeld(d)
  BY <1>1, <1>5, <1>6, <1>7 DEF SenderHeld
<1>13. WaitOK'
  BY <1>1, <1>2, <1>4, <1>6, <1>12 DEF RuntimeInv, WaitOK
<1>14. ReadOK'
  <2>1. \A d \in Caller : Sent(d)' = Sent(d)
    BY <1>1 DEF Sent
  <2>2. ASSUME NEW d \in Caller, Sent(d)
        PROVE  /\ call'[d] = call[d]
               /\ \A i \in DOMAIN channel' : channel'[i].who = d => channel'[i].kind = "cancel"
    BY <1>4, <1>5, <1>6, <1>7, <1>8, <2>2 DEF RuntimeInv, ReadOK
  <2> QED
    BY <1>1, <2>1, <2>2 DEF RuntimeInv, ReadOK
<1>15. FramesOK'
  BY <1>1 DEF RuntimeInv, FramesOK, FrameEvents
<1>16. RepliesOK' /\ StoppedOK'
  <2>1. \A d \in Caller : call'[d].reply = call[d].reply
    BY <1>2, <1>4
  <2>2. RepliesOK'
    BY <1>1, <2>1 DEF RuntimeInv, RepliesOK
  <2>3. StoppedOK'
    BY <1>1, <2>1, Disjoint DEF RuntimeInv, StoppedOK
  <2> QED
    BY <2>2, <2>3
<1> QED
  BY <1>9, <1>10, <1>11, <1>13, <1>14, <1>15, <1>16 DEF RuntimeInv

\* A command that timed out announces it, behind its own request.
LEMMA CancelKeepsInv ==
    ASSUME RuntimeInv, NEW c \in Caller, Cancel(c) PROVE RuntimeInv'
<1> DEFINE last == Len(channel) + 1
<1>1. /\ UNCHANGED <<handles, actor, pending, reader_open, status, events, stdin,
                     alive, read, written, handled, answered>>
      /\ call[c].at = "cancel" /\ Return(c, "timed_out")
  BY DEF Cancel, loopVars, childVars
<1>2. PICK new \in Call : /\ call' = [call EXCEPT ![c] = new]
                          /\ new.at = "done" /\ new.reply = {Other("timed_out")}
  BY <1>1, ReturnShape, ResultKinds DEF RuntimeInv
<1>3. c \in Command
  BY <1>1 DEF RuntimeInv, WaitOK
<1>4. CASE actor.at = "ended"
  <2>1. channel' = channel /\ ~SenderHeld(c)
    BY <1>4 DEF Cancel, RuntimeInv, PlacesOK, SenderHeld
  <2> QED
    BY <1>1, <1>2, <2>1, CallerMoves
<1>5. CASE actor.at # "ended"
  <2>1. Len(channel) < ActorCapacity /\ channel' = Append(channel, Gone(c))
    BY <1>5 DEF Cancel, SendCancel, ChannelRoom, Gone
  <2>2. /\ call' \in [Caller -> Call]
        /\ \A d \in Caller : call'[d] = IF d = c THEN new ELSE call[d]
    BY <1>2, CallShape DEF RuntimeInv
  <2>3. Gone(c) \in ActorMessage /\ Gone(c).who = c /\ Gone(c).kind = "cancel"
    BY DEF ActorMessage, Gone
  <2>4. /\ Len(channel) \in Nat /\ DOMAIN channel = 1 .. Len(channel)
        /\ channel' \in Seq(ActorMessage) /\ Len(channel') = Len(channel) + 1
        /\ DOMAIN channel' = 1 .. last /\ channel'[last] = Gone(c)
        /\ last \in DOMAIN channel'
        /\ \A i \in DOMAIN channel : channel'[i] = channel[i] /\ i < last /\ i \in DOMAIN channel'
    BY <2>1, <2>3, AppendShape, ChannelShape DEF RuntimeInv
  <2>5. \A i \in DOMAIN channel' : i = last \/ i \in DOMAIN channel
    BY <2>4
  <2> HIDE DEF last
  <2>6. \A i \in DOMAIN channel : channel[i].who = c => channel[i].kind # "cancel"
    BY <1>1 DEF RuntimeInv, ChannelOK, MessageOK
  <2>7. TypeInv'
    <3>1. Len(channel') <= ActorCapacity
      BY <2>1, <2>4, RuntimeAssumption
    <3> QED
      BY <1>1, <2>2, <2>4, <3>1 DEF RuntimeInv, TypeInv, TypeOK, Call
  <2>8. ChannelOK'
    <3>1. ASSUME NEW i \in DOMAIN channel' PROVE MessageOK(channel[i])'
      <4>1. CASE i = last
        BY <1>1, <1>2, <1>3, <2>2, <2>3, <2>4, <4>1 DEF MessageOK, Kind
      <4>2. CASE i \in DOMAIN channel
        <5>1. channel[i].who \in Caller /\ MessageOK(channel[i]) /\ channel'[i] = channel[i]
          BY <2>4, <4>2, ChannelShape DEF RuntimeInv, ChannelOK
        <5> QED
          BY <1>1, <1>2, <2>2, <5>1 DEF MessageOK, Kind
      <4> QED
        BY <2>5, <4>1, <4>2
    <3>2. ASSUME NEW i \in DOMAIN channel', NEW j \in DOMAIN channel', i < j,
                 channel'[i].who = channel'[j].who
          PROVE  channel'[i].kind # "cancel" /\ channel'[j].kind = "cancel"
      <4>1. i \in DOMAIN channel /\ i \in Nat /\ j \in Nat
        BY <2>4, <3>2 DEF last
      <4>2. CASE j = last
        BY <2>3, <2>4, <2>6, <3>2, <4>1, <4>2
      <4>3. CASE j # last
        BY <2>4, <2>5, <3>2, <4>1, <4>3 DEF RuntimeInv, ChannelOK
      <4> QED
        BY <4>2, <4>3
    <3> QED
      BY <3>1, <3>2 DEF ChannelOK
  <2>9. PlacesOK'
    <3>1. pending \cup actor.serves \subseteq Caller
      BY Disjoint DEF RuntimeInv, TypeInv, TypeOK
    <3> QED
      BY <1>1, <1>2, <1>5, <2>2, <3>1 DEF RuntimeInv, PlacesOK
  <2>10. \A d \in Caller : SenderHeld(d)' <=> SenderHeld(d)
    BY <1>1, <2>3, <2>4, <2>5 DEF SenderHeld
  <2>11. WaitOK'
    BY <1>1, <1>2, <2>2, <2>4, <2>10 DEF RuntimeInv, WaitOK
  <2>12. ReadOK'
    <3>1. \A d \in Caller : Sent(d)' = Sent(d)
      BY <1>1 DEF Sent
    <3>2. ASSUME NEW d \in Caller, Sent(d)
          PROVE  /\ \A i \in DOMAIN channel' : channel'[i].who = d => channel'[i].kind = "cancel"
                 /\ call'[d].at \notin {"idle", "send", "wait"} \/ call'[d] = call[d]
      BY <1>2, <2>2, <2>3, <2>4, <2>5, <3>2 DEF RuntimeInv, ReadOK
    <3> QED
      BY <1>1, <3>1, <3>2 DEF RuntimeInv, ReadOK
  <2>13. FramesOK'
    BY <1>1 DEF RuntimeInv, FramesOK, FrameEvents
  <2>14. RepliesOK'
    BY <1>1, <1>2, <2>2, ResultKinds DEF RuntimeInv, RepliesOK
  <2>15. StoppedOK'
    BY <1>1, <1>2, <2>2, ResultKinds, Disjoint DEF RuntimeInv, StoppedOK
  <2> QED
    BY <2>7, <2>8, <2>9, <2>11, <2>12, <2>13, <2>14, <2>15 DEF RuntimeInv
<1> QED
  BY <1>4, <1>5

\* Taking the first message leaves the others in their order.
LEMMA TakeShape ==
    ASSUME RuntimeInv, channel # << >>, channel' = Tail(channel)
    PROVE  LET head == Head(channel)
           IN /\ head.who \in Caller /\ head.kind \in {"request", "shutdown", "cancel"}
              /\ MessageOK(head) /\ \E j \in DOMAIN channel : channel[j] = head
              /\ channel' \in Seq(ActorMessage) /\ Len(channel') <= ActorCapacity
              /\ \A i \in DOMAIN channel' :
                    \E j \in DOMAIN channel :
                       /\ channel'[i] = channel[j] /\ MessageOK(channel[j])
                       /\ channel[j].who = head.who =>
                             head.kind # "cancel" /\ channel[j].kind = "cancel"
              /\ \A j \in DOMAIN channel : \/ channel[j] = head
                                           \/ \E i \in DOMAIN channel' : channel'[i] = channel[j]
              /\ \A i, j \in DOMAIN channel' : (i < j /\ channel'[i].who = channel'[j].who) =>
                    channel'[i].kind # "cancel" /\ channel'[j].kind = "cancel"
<1> DEFINE head == Head(channel)
<1>1. /\ Len(channel) \in Nat /\ Len(channel) > 0 /\ DOMAIN channel = 1 .. Len(channel)
      /\ channel' \in Seq(ActorMessage) /\ Len(channel') = Len(channel) - 1
      /\ DOMAIN channel' = 1 .. Len(channel) - 1
      /\ head = channel[1]
      /\ \A i \in 1 .. Len(channel) - 1 : channel'[i] = channel[i + 1]
  BY TailShape, ChannelShape DEF RuntimeInv
<1> HIDE DEF head
<1>2. 1 \in DOMAIN channel /\ head.who \in Caller
      /\ head.kind \in {"request", "shutdown", "cancel"} /\ MessageOK(head)
  BY <1>1, ChannelShape DEF RuntimeInv, ChannelOK
<1>3. Len(channel') <= ActorCapacity
  BY <1>1, RuntimeAssumption DEF RuntimeInv, TypeInv, TypeOK
<1>4. \A i \in DOMAIN channel' : /\ i + 1 \in DOMAIN channel /\ 1 < i + 1
                                 /\ channel'[i] = channel[i + 1]
  BY <1>1
<1>5. ASSUME NEW i \in DOMAIN channel'
      PROVE  \E j \in DOMAIN channel :
                /\ channel'[i] = channel[j] /\ MessageOK(channel[j])
                /\ channel[j].who = head.who =>
                      head.kind # "cancel" /\ channel[j].kind = "cancel"
  <2>1. /\ MessageOK(channel[i + 1])
        /\ channel[1].who = channel[i + 1].who =>
              channel[1].kind # "cancel" /\ channel[i + 1].kind = "cancel"
    BY <1>2, <1>4 DEF RuntimeInv, ChannelOK
  <2> QED
    BY <1>1, <1>4, <2>1
<1>6. ASSUME NEW j \in DOMAIN channel
      PROVE  channel[j] = head \/ \E i \in DOMAIN channel' : channel'[i] = channel[j]
  <2>1. CASE j = 1
    BY <1>1, <2>1
  <2>2. CASE j # 1
    <3>1. j - 1 \in DOMAIN channel' /\ (j - 1) + 1 = j
      BY <1>1, <2>2
    <3> QED
      BY <1>4, <3>1
  <2> QED
    BY <2>1, <2>2
<1>7. ASSUME NEW i \in DOMAIN channel', NEW j \in DOMAIN channel', i < j,
             channel'[i].who = channel'[j].who
      PROVE  channel'[i].kind # "cancel" /\ channel'[j].kind = "cancel"
  <2>1. i + 1 < j + 1
    BY <1>1, <1>7
  <2> QED
    BY <1>4, <1>7, <2>1 DEF RuntimeInv, ChannelOK
<1> QED
  BY <1>1, <1>2, <1>3, <1>5, <1>6, <1>7 DEF head

\* Starting to serve a call: its sender passes from the channel to the loop.
LEMMA TakeServesKeepsInv ==
    ASSUME RuntimeInv, TakeRequest \/ TakeShutdown PROVE RuntimeInv'
<1> DEFINE head == Head(channel)
<1>1. /\ UNCHANGED <<call, handles, pending, reader_open, status, events, stdin,
                     alive, read, written, handled, answered>>
      /\ actor.at = "loop" /\ channel # << >> /\ channel' = Tail(channel)
      /\ actor'.serves = {head.who} /\ head.kind # "cancel"
      /\ \/ actor'.at = "write" /\ head.kind = "request"
         \/ actor'.at = "shutdown"
      /\ actor' = [at |-> actor'.at, serves |-> actor'.serves]
  BY DEF TakeRequest, TakeShutdown, callerVars, loopVars, childVars
<1>2. /\ head.who \in Caller /\ head.kind \in {"request", "shutdown", "cancel"}
      /\ MessageOK(head) /\ \E j \in DOMAIN channel : channel[j] = head
      /\ channel' \in Seq(ActorMessage) /\ Len(channel') <= ActorCapacity
      /\ \A i \in DOMAIN channel' :
            \E j \in DOMAIN channel :
               /\ channel'[i] = channel[j] /\ MessageOK(channel[j])
               /\ channel[j].who = head.who =>
                     head.kind # "cancel" /\ channel[j].kind = "cancel"
      /\ \A j \in DOMAIN channel : \/ channel[j] = head
                                   \/ \E i \in DOMAIN channel' : channel'[i] = channel[j]
      /\ \A i, j \in DOMAIN channel' : (i < j /\ channel'[i].who = channel'[j].who) =>
            channel'[i].kind # "cancel" /\ channel'[j].kind = "cancel"
  BY <1>1, TakeShape
<1> HIDE DEF head
<1>3. /\ call[head.who].at \notin {"idle", "send"} /\ head.who \notin pending
      /\ head.kind = Kind(head.who) /\ actor.serves = {}
  BY <1>1, <1>2 DEF MessageOK, RuntimeInv, PlacesOK
<1>4. actor' \in [at : {"loop", "write", "shutdown", "drain", "kill", "ended"},
                  serves : SUBSET Caller]
  BY <1>1, <1>2
<1>5. TypeInv'
  BY <1>1, <1>2, <1>4 DEF RuntimeInv, TypeInv, TypeOK
<1>6. ChannelOK'
  <2>1. ASSUME NEW i \in DOMAIN channel' PROVE MessageOK(channel[i])'
    <3>1. PICK j \in DOMAIN channel :
             /\ channel'[i] = channel[j] /\ MessageOK(channel[j])
             /\ channel[j].who = head.who => channel[j].kind = "cancel"
      BY <1>2
    <3> QED
      BY <1>1, <1>3, <3>1 DEF MessageOK, Kind
  <2> QED
    BY <1>2, <2>1 DEF ChannelOK
<1>7. PlacesOK'
  <2>1. actor'.at = "write" => head.who \in Command \cup Message
    BY <1>1, <1>2, <1>3, Disjoint DEF Kind
  <2> QED
    BY <1>1, <1>3, <2>1 DEF RuntimeInv, PlacesOK
<1>8. \A c \in Caller : SenderHeld(c)' <=> SenderHeld(c)
  BY <1>1, <1>2, <1>3 DEF SenderHeld
<1>9. WaitOK'
  <2>1. \A c \in Caller : (\E i \in DOMAIN channel : channel[i] = Gone(c)) =>
                             \E i \in DOMAIN channel' : channel'[i] = Gone(c)
    <3>1. \A c \in Caller : Gone(c) # head
      BY <1>1 DEF Gone
    <3> QED
      BY <1>2, <3>1
  <2> QED
    BY <1>1, <1>8, <2>1 DEF RuntimeInv, WaitOK
<1>10. ReadOK'
  <2>1. \A c \in Caller : Sent(c)' = Sent(c)
    BY <1>1 DEF Sent
  <2>2. ASSUME NEW c \in Caller, Sent(c)
        PROVE  /\ c # head.who
               /\ \A i \in DOMAIN channel' : channel'[i].who = c => channel'[i].kind = "cancel"
    BY <1>1, <1>2, <2>2 DEF RuntimeInv, ReadOK
  <2> QED
    BY <1>1, <2>1, <2>2 DEF RuntimeInv, ReadOK
<1>11. FramesOK' /\ RepliesOK' /\ StoppedOK'
  BY <1>1 DEF RuntimeInv, FramesOK, FrameEvents, RepliesOK, StoppedOK
<1> QED
  BY <1>5, <1>6, <1>7, <1>9, <1>10, <1>11 DEF RuntimeInv

\* A request that is too large is answered before it is written.
LEMMA RejectKeepsInv ==
    ASSUME RuntimeInv, RejectTooLarge PROVE RuntimeInv'
<1> DEFINE head == Head(channel)
           value == Other("frame_too_large")
<1>1. /\ UNCHANGED <<handles, actor, pending, reader_open, status, events, stdin,
                     alive, read, written, handled, answered>>
      /\ actor.at = "loop" /\ channel # << >> /\ channel' = Tail(channel)
      /\ head.kind = "request" /\ call' = Reply(call, {head.who}, value)
  BY DEF RejectTooLarge, loopVars, childVars
<1>2. /\ head.who \in Caller /\ MessageOK(head)
      /\ channel' \in Seq(ActorMessage) /\ Len(channel') <= ActorCapacity
      /\ \A i \in DOMAIN channel' :
            \E j \in DOMAIN channel :
               /\ channel'[i] = channel[j] /\ MessageOK(channel[j])
               /\ channel[j].who = head.who =>
                     head.kind # "cancel" /\ channel[j].kind = "cancel"
      /\ \A j \in DOMAIN channel : \/ channel[j] = head
                                   \/ \E i \in DOMAIN channel' : channel'[i] = channel[j]
      /\ \A i, j \in DOMAIN channel' : (i < j /\ channel'[i].who = channel'[j].who) =>
            channel'[i].kind # "cancel" /\ channel'[j].kind = "cancel"
  BY <1>1, TakeShape
<1>3. /\ call' \in [Caller -> Call]
      /\ \A c \in Caller :
            \/ c = head.who /\ call[c].at = "wait" /\ call'[c].at = "done"
               /\ call'[c].reply = {value}
            \/ (c # head.who \/ call[c].at # "wait") /\ call'[c] = call[c]
  BY <1>1, CallShape, ResultKinds, ReplyShape DEF RuntimeInv
<1>4. Other("runtime_stopped") # value /\ \A n : Response(n) # value
  BY ResultKinds
<1> HIDE DEF head, value
<1>5. head.who \notin pending /\ actor.serves = {}
  BY <1>1, <1>2 DEF MessageOK, RuntimeInv, PlacesOK
<1>6. TypeInv'
  BY <1>1, <1>2, <1>3 DEF RuntimeInv, TypeInv, TypeOK, Call
<1>7. ChannelOK'
  <2>1. ASSUME NEW i \in DOMAIN channel' PROVE MessageOK(channel[i])'
    <3>1. PICK j \in DOMAIN channel : channel'[i] = channel[j] /\ MessageOK(channel[j])
      BY <1>2
    <3>2. channel[j].who \in Caller
      BY ChannelShape DEF RuntimeInv
    <3> QED
      BY <1>1, <1>3, <3>1, <3>2 DEF MessageOK, Kind
  <2> QED
    BY <1>2, <2>1 DEF ChannelOK
<1>8. PlacesOK'
  <2>1. pending \subseteq Caller
    BY Disjoint DEF RuntimeInv, TypeInv, TypeOK
  <2> QED
    BY <1>1, <1>3, <1>5, <2>1 DEF RuntimeInv, PlacesOK
<1>9. \A c \in Caller : SenderHeld(c)' <=> SenderHeld(c) /\ c # head.who
  BY <1>1, <1>2, <1>5 DEF SenderHeld
<1>10. WaitOK'
  <2>1. \A c \in Caller : (\E i \in DOMAIN channel : channel[i] = Gone(c)) =>
                             \E i \in DOMAIN channel' : channel'[i] = Gone(c)
    BY <1>1, <1>2 DEF Gone
  <2> QED
    BY <1>1, <1>3, <1>9, <2>1 DEF RuntimeInv, WaitOK
<1>11. ReadOK'
  <2>1. \A c \in Caller : Sent(c)' = Sent(c)
    BY <1>1 DEF Sent
  <2>2. ASSUME NEW c \in Caller, Sent(c)
        PROVE  /\ call'[c].at \notin {"idle", "send", "wait"} \/ call'[c] = call[c]
               /\ \A i \in DOMAIN channel' : channel'[i].who = c => channel'[i].kind = "cancel"
    BY <1>2, <1>3, <2>2 DEF RuntimeInv, ReadOK
  <2> QED
    BY <1>1, <2>1, <2>2 DEF RuntimeInv, ReadOK
<1>12. FramesOK'
  BY <1>1 DEF RuntimeInv, FramesOK, FrameEvents
<1>13. RepliesOK' /\ StoppedOK'
  <2>1. RepliesOK'
    <3> SUFFICES ASSUME NEW c \in Caller, NEW n \in Nat, Response(n) \in call'[c].reply
                 PROVE  n \in answered /\ c \in written[n].to
      BY <1>1 DEF RepliesOK
    <3>1. Response(n) \in call[c].reply
      BY <1>3, <1>4
    <3> QED
      BY <3>1 DEF RuntimeInv, RepliesOK
  <2>2. StoppedOK'
    BY <1>1, <1>3, <1>4, Disjoint DEF RuntimeInv, StoppedOK
  <2> QED
    BY <2>1, <2>2
<1> QED
  BY <1>6, <1>7, <1>8, <1>10, <1>11, <1>12, <1>13 DEF RuntimeInv

\* A Cancel takes its command out of `pending`; its request cannot come later.
LEMMA TakeCancelKeepsInv ==
    ASSUME RuntimeInv, TakeCancel PROVE RuntimeInv'
<1> DEFINE head == Head(channel)
<1>1. /\ UNCHANGED <<call, handles, actor, reader_open, status, events, stdin,
                     alive, read, written, handled, answered>>
      /\ actor.at = "loop" /\ channel # << >> /\ channel' = Tail(channel)
      /\ head.kind = "cancel" /\ pending' = pending \ {head.who}
  BY DEF TakeCancel, callerVars, childVars
<1>2. /\ head.who \in Caller /\ MessageOK(head)
      /\ channel' \in Seq(ActorMessage) /\ Len(channel') <= ActorCapacity
      /\ \A i \in DOMAIN channel' :
            \E j \in DOMAIN channel :
               /\ channel'[i] = channel[j] /\ MessageOK(channel[j])
               /\ channel[j].who = head.who =>
                     head.kind # "cancel" /\ channel[j].kind = "cancel"
      /\ \A j \in DOMAIN channel : \/ channel[j] = head
                                   \/ \E i \in DOMAIN channel' : channel'[i] = channel[j]
      /\ \A i, j \in DOMAIN channel' : (i < j /\ channel'[i].who = channel'[j].who) =>
            channel'[i].kind # "cancel" /\ channel'[j].kind = "cancel"
  BY <1>1, TakeShape
<1> HIDE DEF head
<1>3. actor.serves = {} /\ call[head.who].at = "done"
  BY <1>1, <1>2 DEF MessageOK, RuntimeInv, PlacesOK
<1>4. TypeInv'
  BY <1>1, <1>2 DEF RuntimeInv, TypeInv, TypeOK
<1>5. ChannelOK'
  <2>1. ASSUME NEW i \in DOMAIN channel' PROVE MessageOK(channel[i])'
    <3>1. PICK j \in DOMAIN channel : channel'[i] = channel[j] /\ MessageOK(channel[j])
      BY <1>2
    <3> QED
      BY <1>1, <3>1 DEF MessageOK, Kind
  <2> QED
    BY <1>2, <2>1 DEF ChannelOK
<1>6. PlacesOK'
  BY <1>1, <1>3 DEF RuntimeInv, PlacesOK
<1>7. \A c \in Caller : SenderHeld(c)' <=> SenderHeld(c) /\ c # head.who
  <2>1. \A j \in DOMAIN channel : channel[j].kind # "cancel" => channel[j].who # head.who
    <3> SUFFICES ASSUME NEW j \in DOMAIN channel, channel[j].kind # "cancel"
                 PROVE  channel[j].who # head.who
      OBVIOUS
    <3>1. PICK i \in DOMAIN channel' : channel'[i] = channel[j]
      BY <1>1, <1>2
    <3> QED
      BY <1>1, <1>2, <3>1
  <2>2. ASSUME NEW c \in Caller, SenderHeld(c), c # head.who PROVE SenderHeld(c)'
    <3>1. CASE c \in pending
      BY <1>1, <2>2, <3>1 DEF SenderHeld
    <3>2. CASE \E j \in DOMAIN channel : channel[j].who = c /\ channel[j].kind # "cancel"
      BY <1>2, <2>2, <3>2 DEF SenderHeld
    <3> QED
      BY <1>3, <2>2, <3>1, <3>2 DEF SenderHeld
  <2>3. ASSUME NEW c \in Caller, SenderHeld(c)' PROVE SenderHeld(c) /\ c # head.who
    <3>1. CASE c \in pending'
      BY <1>1, <3>1 DEF SenderHeld
    <3>2. CASE \E i \in DOMAIN channel' : channel'[i].who = c /\ channel'[i].kind # "cancel"
      BY <1>2, <2>1, <3>2 DEF SenderHeld
    <3> QED
      BY <1>1, <1>3, <2>3, <3>1, <3>2 DEF SenderHeld
  <2> QED
    BY <2>2, <2>3
<1>8. WaitOK'
  <2>1. \A c \in Caller : (c # head.who /\ \E i \in DOMAIN channel : channel[i] = Gone(c)) =>
                             \E i \in DOMAIN channel' : channel'[i] = Gone(c)
    BY <1>1, <1>2 DEF Gone
  <2> QED
    BY <1>1, <1>3, <1>7, <2>1 DEF RuntimeInv, WaitOK
<1>9. ReadOK'
  <2>1. \A c \in Caller : Sent(c)' = Sent(c)
    BY <1>1 DEF Sent
  <2>2. ASSUME NEW c \in Caller, Sent(c)
        PROVE  \A i \in DOMAIN channel' : channel'[i].who = c => channel'[i].kind = "cancel"
    BY <1>2, <2>2 DEF RuntimeInv, ReadOK
  <2> QED
    BY <1>1, <2>1, <2>2 DEF RuntimeInv, ReadOK
<1>10. FramesOK'
  BY <1>1 DEF RuntimeInv, FramesOK, FrameEvents
<1>11. RepliesOK' /\ StoppedOK'
  BY <1>1 DEF RuntimeInv, RepliesOK, StoppedOK
<1> QED
  BY <1>4, <1>5, <1>6, <1>8, <1>9, <1>10, <1>11 DEF RuntimeInv

---------------------------------------------------------------------------
\* Steps of the loop that leave the channel alone.

\* The actor, the child or the handles move on, with nothing handed over.
LEMMA ActorMoves ==
    ASSUME RuntimeInv,
           UNCHANGED <<call, channel, pending, status, events, stdin, read, written, handled,
                       answered>>,
           handles' \in BOOLEAN, reader_open' \in BOOLEAN, alive' \in BOOLEAN,
           alive' => alive,
           \/ actor' = actor
           \/ /\ actor' \in [at : {"shutdown", "drain"}, serves : SUBSET Caller]
              /\ actor'.serves = actor.serves /\ actor.at # "ended"
    PROVE  RuntimeInv'
<1>1. /\ actor' \in [at : {"loop", "write", "shutdown", "drain", "kill", "ended"},
                     serves : SUBSET Caller]
      /\ actor'.serves = actor.serves
      /\ actor'.at = actor.at \/ (actor.at # "ended" /\ actor'.at \in {"shutdown", "drain"})
  BY DEF RuntimeInv, TypeInv, TypeOK
<1>2. TypeInv'
  BY <1>1 DEF RuntimeInv, TypeInv, TypeOK
<1>3. ChannelOK'
  <2>1. ASSUME NEW i \in DOMAIN channel PROVE MessageOK(channel[i])'
    <3>1. MessageOK(channel[i])
      BY DEF RuntimeInv, ChannelOK
    <3> QED
      BY <1>1, <3>1 DEF MessageOK, Kind
  <2> QED
    BY <2>1 DEF RuntimeInv, ChannelOK
<1>4. PlacesOK'
  BY <1>1 DEF RuntimeInv, PlacesOK
<1>5. WaitOK'
  <2>1. \A c \in Caller : SenderHeld(c)' = SenderHeld(c)
    BY <1>1 DEF SenderHeld
  <2> QED
    BY <1>1, <2>1 DEF RuntimeInv, WaitOK
<1>6. ReadOK'
  <2>1. \A c \in Caller : Sent(c)' = Sent(c)
    BY DEF Sent
  <2> QED
    BY <1>1, <2>1 DEF RuntimeInv, ReadOK
<1>7. FramesOK'
  BY <1>1 DEF RuntimeInv, FramesOK, FrameEvents
<1>8. RepliesOK' /\ StoppedOK'
  BY <1>1 DEF RuntimeInv, RepliesOK, StoppedOK
<1> QED
  BY <1>2, <1>3, <1>4, <1>5, <1>6, <1>7, <1>8 DEF RuntimeInv

LEMMA QuietStepKeepsInv ==
    ASSUME RuntimeInv,
           DropHandles \/ HandlesGone \/ ReadEof \/ ChildExited \/ GraceExpires \/ ChildExits
    PROVE  RuntimeInv'
<1>1. /\ handles \in BOOLEAN /\ reader_open \in BOOLEAN /\ alive \in BOOLEAN
      /\ actor \in [at : {"loop", "write", "shutdown", "drain", "kill", "ended"},
                    serves : SUBSET Caller]
      /\ actor.at = "loop" => actor.serves = {}
  BY DEF RuntimeInv, TypeInv, TypeOK, PlacesOK
<1>2. CASE DropHandles
  BY <1>1, <1>2, ActorMoves DEF DropHandles, loopVars, childVars
<1>3. CASE HandlesGone
  <2>1. /\ actor' \in [at : {"shutdown", "drain"}, serves : SUBSET Caller]
        /\ actor'.serves = actor.serves /\ actor.at # "ended"
    BY <1>1, <1>3 DEF HandlesGone, At
  <2> QED
    BY <1>1, <1>3, <2>1, ActorMoves DEF HandlesGone, callerVars, loopVars, childVars
<1>4. CASE ReadEof
  BY <1>1, <1>4, ActorMoves DEF ReadEof, callerVars, childVars
<1>5. CASE ChildExited
  <2>1. /\ actor' \in [at : {"shutdown", "drain"}, serves : SUBSET Caller]
        /\ actor'.serves = actor.serves /\ actor.at # "ended"
    BY <1>1, <1>5 DEF ChildExited, Drain
  <2> QED
    BY <1>1, <1>5, <2>1, ActorMoves DEF ChildExited, Drain, callerVars, loopVars, childVars
<1>6. CASE GraceExpires
  <2>1. /\ actor' \in [at : {"shutdown", "drain"}, serves : SUBSET Caller]
        /\ actor'.serves = actor.serves /\ actor.at # "ended"
    BY <1>1, <1>6 DEF GraceExpires
  <2> QED
    BY <1>1, <1>6, <2>1, ActorMoves DEF GraceExpires, callerVars, loopVars
<1>7. CASE ChildExits
  BY <1>1, <1>7, ActorMoves DEF ChildExits, callerVars, loopVars
<1> QED
  BY <1>2, <1>3, <1>4, <1>5, <1>6, <1>7

---------------------------------------------------------------------------
\* Writing to the child.

\* Nothing is left in the loop's hands: the call it served is answered.
LEMMA ServedKeepsInv ==
    ASSUME RuntimeInv, actor.at = "write", NEW c \in actor.serves,
           NEW k \in {"sent", "transport"}, NEW place \in {"loop", "kill"},
           call' = Reply(call, {c}, Other(k)), actor' = At(place),
           c \in Command \cup Message,
           \/ stdin' = stdin
           \/ stdin' = Append(stdin, c) /\ Len(stdin) < StdinCapacity,
           UNCHANGED <<handles, channel, pending, reader_open, status, events,
                       alive, read, written, handled, answered>>
    PROVE  RuntimeInv'
<1>1. /\ actor'.at = place /\ actor'.serves = {}
      /\ actor' \in [at : {"loop", "write", "shutdown", "drain", "kill", "ended"},
                     serves : SUBSET Caller]
  BY DEF At
<1>2. /\ call' \in [Caller -> Call]
      /\ \A d \in Caller :
            \/ d = c /\ call[d].at = "wait" /\ call'[d].at = "done" /\ call'[d].reply = {Other(k)}
            \/ (d # c \/ call[d].at # "wait") /\ call'[d] = call[d]
  BY CallShape, ResultKinds, ReplyShape DEF RuntimeInv
<1>3. Other("runtime_stopped") # Other(k) /\ \A n : Response(n) # Other(k)
  BY ResultKinds
<1>4. /\ actor.serves = {c} /\ c \notin pending /\ c \in Caller
      /\ call[c].at \notin {"idle", "send"} /\ pending \subseteq Caller
      /\ status = "running"
  BY Disjoint DEF RuntimeInv, PlacesOK, TypeInv, TypeOK
<1>5. stdin' \in Seq(Command \cup Message) /\ Len(stdin') <= StdinCapacity
  <2>1. stdin \in Seq(Command \cup Message) /\ Len(stdin) <= StdinCapacity
    BY DEF RuntimeInv, TypeInv, TypeOK
  <2>2. CASE stdin' = stdin
    BY <2>1, <2>2
  <2>3. CASE stdin' = Append(stdin, c) /\ Len(stdin) < StdinCapacity
    BY <2>1, <2>3, RuntimeAssumption, AppendShape
  <2> QED
    BY <2>2, <2>3
<1>6. TypeInv'
  BY <1>1, <1>2, <1>5 DEF RuntimeInv, TypeInv, TypeOK, Call
<1>7. ChannelOK'
  <2>1. ASSUME NEW i \in DOMAIN channel PROVE MessageOK(channel[i])'
    <3>1. channel[i].who \in Caller /\ MessageOK(channel[i])
      BY ChannelShape DEF RuntimeInv, ChannelOK
    <3> QED
      BY <1>1, <1>2, <3>1 DEF MessageOK, Kind
  <2> QED
    BY <2>1 DEF RuntimeInv, ChannelOK
<1>8. PlacesOK'
  BY <1>1, <1>2, <1>4 DEF RuntimeInv, PlacesOK
<1>9. \A d \in Caller : SenderHeld(d)' <=> SenderHeld(d) /\ d # c
  <2>1. \A i \in DOMAIN channel : channel[i].kind # "cancel" => channel[i].who # c
    BY DEF RuntimeInv, ChannelOK, MessageOK
  <2> QED
    BY <1>1, <1>4, <2>1 DEF SenderHeld
<1>10. WaitOK'
  BY <1>1, <1>2, <1>9 DEF RuntimeInv, WaitOK
<1>11. ReadOK'
  <2>1. \A d \in Caller : Sent(d)' => Sent(d) \/ d = c
    <3>1. stdin \in Seq(Command \cup Message)
      BY DEF RuntimeInv, TypeInv, TypeOK
    <3> QED
      BY <3>1, AppendShape DEF Sent
  <2>2. \A i \in DOMAIN channel : channel[i].who = c => channel[i].kind = "cancel"
    BY DEF RuntimeInv, ChannelOK, MessageOK
  <2>3. ASSUME NEW d \in Caller, Sent(d)'
        PROVE  /\ call'[d].at \notin {"idle", "send"}
               /\ \A i \in DOMAIN channel : channel[i].who = d => channel[i].kind = "cancel"
    BY <1>2, <1>4, <2>1, <2>2, <2>3 DEF RuntimeInv, ReadOK
  <2> QED
    BY <1>1, <2>3 DEF RuntimeInv, ReadOK
<1>12. FramesOK'
  BY <1>1 DEF RuntimeInv, FramesOK, FrameEvents
<1>13. RepliesOK' /\ StoppedOK'
  <2>1. \A d \in Caller : \A r : (r \in call'[d].reply /\ r # Other(k)) => r \in call[d].reply
    BY <1>2
  <2>2. RepliesOK'
    BY <1>3, <2>1 DEF RuntimeInv, RepliesOK
  <2>3. StoppedOK'
    BY <1>3, <2>1, Disjoint DEF RuntimeInv, StoppedOK
  <2> QED
    BY <2>2, <2>3
<1> QED
  BY <1>6, <1>7, <1>8, <1>10, <1>11, <1>12, <1>13 DEF RuntimeInv

\* A command that was written waits for its response; no frame can be its
\* answer yet.
LEMMA WriteDoneKeepsInv ==
    ASSUME RuntimeInv, NEW c \in Command \cup Message, WriteDone(c) PROVE RuntimeInv'
<1>1. /\ UNCHANGED <<handles, channel, reader_open, status, events,
                     alive, read, written, handled, answered>>
      /\ actor.at = "write" /\ c \in actor.serves /\ Len(stdin) < StdinCapacity
      /\ stdin' = Append(stdin, c) /\ actor' = At("loop")
  BY DEF WriteDone, childVars
<1>2. CASE c \notin Command
  BY <1>1, <1>2, ServedKeepsInv DEF WriteDone
<1>3. CASE c \in Command
  <2>1. pending' = pending \cup {c} /\ call' = call
    BY <1>3 DEF WriteDone
  <2>2. /\ actor'.at = "loop" /\ actor'.serves = {}
        /\ actor' \in [at : {"loop", "write", "shutdown", "drain", "kill", "ended"},
                       serves : SUBSET Caller]
    BY <1>1 DEF At
  <2>3. /\ actor.serves = {c} /\ c \in Caller
        /\ call[c].at \notin {"idle", "send"} /\ status = "running"
    BY <1>1, <1>3, Disjoint DEF RuntimeInv, PlacesOK
  <2>4. /\ stdin \in Seq(Command \cup Message)
        /\ stdin' \in Seq(Command \cup Message) /\ Len(stdin') <= StdinCapacity
    BY <1>1, RuntimeAssumption, AppendShape DEF RuntimeInv, TypeInv, TypeOK
  <2>5. TypeInv'
    BY <1>1, <1>3, <2>1, <2>2, <2>4 DEF RuntimeInv, TypeInv, TypeOK
  <2>6. \A i \in DOMAIN channel : channel[i].kind # "cancel" => channel[i].who # c
    BY <1>1 DEF RuntimeInv, ChannelOK, MessageOK
  <2>7. ChannelOK'
    <3>1. ASSUME NEW i \in DOMAIN channel PROVE MessageOK(channel[i])'
      <4>1. MessageOK(channel[i])
        BY DEF RuntimeInv, ChannelOK
      <4> QED
        BY <1>1, <2>1, <2>2, <2>6, <4>1 DEF MessageOK, Kind
    <3> QED
      BY <1>1, <3>1 DEF RuntimeInv, ChannelOK
  <2>8. PlacesOK'
    BY <1>1, <2>1, <2>2, <2>3 DEF RuntimeInv, PlacesOK
  <2>9. \A d \in Caller : SenderHeld(d)' <=> SenderHeld(d)
    BY <1>1, <2>1, <2>2, <2>3 DEF SenderHeld
  <2>10. WaitOK'
    BY <1>1, <2>1, <2>2, <2>9 DEF RuntimeInv, WaitOK
  <2>11. ReadOK'
    <3>1. \A d \in Caller : Sent(d)' => Sent(d) \/ d = c
      BY <1>1, <2>4, AppendShape DEF Sent
    <3>2. ASSUME NEW d \in Caller, Sent(d)'
          PROVE  /\ call[d].at \notin {"idle", "send"}
                 /\ \A i \in DOMAIN channel : channel[i].who = d => channel[i].kind = "cancel"
      BY <2>3, <2>6, <3>1, <3>2 DEF RuntimeInv, ReadOK
    <3> QED
      BY <1>1, <2>1, <2>2, <3>2 DEF RuntimeInv, ReadOK
  <2>12. FramesOK'
    <3>1. c \notin read
      BY <1>1, <2>3 DEF RuntimeInv, ReadOK, Sent
    <3>2. \A n \in 1 .. handled : n \in DOMAIN written
      BY DEF RuntimeInv, TypeInv, TypeOK
    <3>3. \A n \in 1 .. handled : c \notin written[n].to
      BY <3>1, <3>2 DEF RuntimeInv, ReadOK
    <3> QED
      BY <1>1, <2>1, <2>2, <3>3 DEF RuntimeInv, FramesOK, FrameEvents
  <2>13. RepliesOK' /\ StoppedOK'
    BY <1>1, <2>1, <2>2 DEF RuntimeInv, RepliesOK, StoppedOK
  <2> QED
    BY <2>5, <2>7, <2>8, <2>10, <2>11, <2>12, <2>13 DEF RuntimeInv
<1> QED
  BY <1>2, <1>3

LEMMA WriteFailsKeepsInv ==
    ASSUME RuntimeInv, NEW c \in Command \cup Message, WriteFails(c) PROVE RuntimeInv'
<1>1. /\ UNCHANGED <<handles, channel, pending, reader_open, status, events, stdin,
                     alive, read, written, handled, answered>>
      /\ actor.at = "write" /\ c \in actor.serves
      /\ call' = Reply(call, {c}, Other("transport")) /\ actor' = At("kill")
  BY DEF WriteFails, loopVars, childVars
<1> QED
  BY <1>1, ServedKeepsInv

---------------------------------------------------------------------------
\* The child.

LEMMA ChildReadsKeepsInv ==
    ASSUME RuntimeInv, ChildReads PROVE RuntimeInv'
<1>1. /\ UNCHANGED <<call, handles, channel, actor, pending, reader_open, status, events,
                     alive, written, handled, answered>>
      /\ stdin # << >> /\ stdin' = Tail(stdin)
      /\ read' = read \cup ({Head(stdin)} \cap Command)
  BY DEF ChildReads, callerVars, loopVars
<1>2. /\ stdin \in Seq(Command \cup Message) /\ Len(stdin) <= StdinCapacity
      /\ read \subseteq Command
  BY DEF RuntimeInv, TypeInv, TypeOK
<1>3. /\ Len(stdin) \in Nat /\ DOMAIN stdin = 1 .. Len(stdin) /\ Len(stdin) > 0
      /\ stdin' \in Seq(Command \cup Message) /\ Len(stdin') = Len(stdin) - 1
      /\ DOMAIN stdin' = 1 .. Len(stdin) - 1
      /\ Head(stdin) = stdin[1]
      /\ \A i \in 1 .. Len(stdin) - 1 : stdin'[i] = stdin[i + 1]
  BY <1>1, <1>2, TailShape
<1>4. TypeInv'
  <2>1. Len(stdin') <= StdinCapacity
    BY <1>2, <1>3, RuntimeAssumption
  <2> QED
    BY <1>1, <1>2, <1>3, <2>1 DEF RuntimeInv, TypeInv, TypeOK
<1>5. \A c \in Caller : Sent(c)' => Sent(c)
  <2>1. 1 \in DOMAIN stdin /\ \A i \in DOMAIN stdin' : i + 1 \in DOMAIN stdin
    BY <1>3
  <2> QED
    BY <1>1, <1>3, <2>1 DEF Sent
<1>6. ReadOK'
  BY <1>1, <1>5 DEF RuntimeInv, ReadOK
<1>7. ChannelOK' /\ PlacesOK'
  BY <1>1 DEF RuntimeInv, ChannelOK, MessageOK, PlacesOK, Kind
<1>8. WaitOK'
  BY <1>1 DEF RuntimeInv, WaitOK, SenderHeld
<1>9. FramesOK' /\ RepliesOK' /\ StoppedOK'
  BY <1>1 DEF RuntimeInv, FramesOK, FrameEvents, RepliesOK, StoppedOK
<1> QED
  BY <1>4, <1>6, <1>7, <1>8, <1>9 DEF RuntimeInv

LEMMA ChildWritesKeepsInv ==
    ASSUME RuntimeInv, ChildWrites PROVE RuntimeInv'
<1>1. /\ UNCHANGED <<call, handles, channel, actor, pending, reader_open, status, events, stdin,
                     alive, read, handled, answered>>
      /\ alive /\ Len(written) < MaxFrames /\ Len(written) - handled < StdoutCapacity
  BY DEF ChildWrites, callerVars, loopVars
<1>2. PICK f : /\ written' = Append(written, f)
               /\ f \in [to : {{}} \cup {{c} : c \in read}, bad : {FALSE}]
                        \cup {[to |-> {}, bad |-> TRUE]}
  BY DEF ChildWrites
<1>3. /\ written \in Seq(Frame) /\ read \subseteq Command /\ handled \in 0 .. Len(written)
      /\ Len(written) \in Nat /\ answered \subseteq 1 .. handled
  BY DEF RuntimeInv, TypeInv, TypeOK
<1>4. f \in Frame /\ f.to \subseteq read /\ (f.bad => f.to = {})
  <2>1. CASE f = [to |-> {}, bad |-> TRUE]
    BY <2>1 DEF Frame
  <2>2. CASE f \in [to : {{}} \cup {{c} : c \in read}, bad : {FALSE}]
    <3>1. /\ f.bad = FALSE /\ f = [to |-> f.to, bad |-> f.bad]
          /\ f.to = {} \/ \E c \in read : f.to = {c}
      BY <2>2
    <3>2. f.to \in {{}} \cup {{c} : c \in Command} /\ f.to \subseteq read
      BY <1>3, <3>1
    <3> QED
      BY <3>1, <3>2 DEF Frame
  <2> QED
    BY <1>2, <2>1, <2>2
<1>5. /\ written' \in Seq(Frame) /\ Len(written') = Len(written) + 1
      /\ DOMAIN written = 1 .. Len(written)
      /\ DOMAIN written' = 1 .. Len(written) + 1
      /\ written'[Len(written) + 1] = f
      /\ \A n \in DOMAIN written : written'[n] = written[n]
  BY <1>2, <1>3, <1>4, AppendShape
<1>6. TypeInv'
  <2>1. /\ handled \in 0 .. Len(written') /\ Len(written') - handled <= StdoutCapacity
        /\ Len(written') <= MaxFrames
    BY <1>1, <1>3, <1>5, RuntimeAssumption
  <2> QED
    BY <1>1, <1>5, <2>1 DEF RuntimeInv, TypeInv, TypeOK
<1>7. ReadOK'
  <2>1. \A c \in Caller : Sent(c)' = Sent(c)
    BY <1>1 DEF Sent
  <2>2. \A n \in DOMAIN written' : /\ written'[n].to \subseteq read
                                   /\ written'[n].bad => written'[n].to = {}
    BY <1>3, <1>4, <1>5 DEF RuntimeInv, ReadOK
  <2> QED
    BY <1>1, <2>1, <2>2 DEF RuntimeInv, ReadOK
<1>8. ChannelOK' /\ PlacesOK'
  BY <1>1 DEF RuntimeInv, ChannelOK, MessageOK, PlacesOK, Kind
<1>9. WaitOK'
  BY <1>1 DEF RuntimeInv, WaitOK, SenderHeld
<1>10. \A n \in 1 .. handled : n \in DOMAIN written /\ written'[n] = written[n]
  BY <1>3, <1>5
<1>11. FramesOK'
  <2>1. {n \in 1 .. handled : ~written'[n].bad} = {n \in 1 .. handled : ~written[n].bad}
    BY <1>10
  <2>2. \A n \in answered : written'[n] = written[n]
    BY <1>3, <1>10
  <2> QED
    BY <1>1, <1>10, <2>1, <2>2 DEF RuntimeInv, FramesOK, FrameEvents
<1>12. RepliesOK'
  BY <1>1, <1>3, <1>10 DEF RuntimeInv, RepliesOK
<1>13. StoppedOK'
  <2>1. actor.at # "ended"
    BY <1>1 DEF RuntimeInv, PlacesOK
  <2> QED
    BY <1>1, <2>1 DEF RuntimeInv, StoppedOK
<1> QED
  BY <1>6, <1>7, <1>8, <1>9, <1>11, <1>12, <1>13 DEF RuntimeInv

---------------------------------------------------------------------------
\* Taking the child's frames.

\* While the actor runs, every event is a frame that was taken.
LEMMA EventsTaken ==
    ASSUME RuntimeInv, actor.at # "ended"
    PROVE  /\ events \in Seq(Nat) /\ Len(events) \in Nat /\ DOMAIN events = 1 .. Len(events)
           /\ FrameEvents = DOMAIN events
           /\ \A i \in DOMAIN events : events[i] \in 1 .. handled /\ events[i] # Ended
<1>1. events \in Seq(Nat)
  BY DEF RuntimeInv, TypeInv, TypeOK
<1>2. \A i \in DOMAIN events : events[i] # Ended
  BY DEF RuntimeInv, FramesOK
<1>3. FrameEvents = DOMAIN events
  BY <1>2 DEF FrameEvents
<1>4. \A i \in DOMAIN events : events[i] \in 1 .. handled
  BY <1>3 DEF RuntimeInv, FramesOK
<1> QED
  BY <1>1, <1>2, <1>3, <1>4

\* handle_frame.
LEMMA HandleFrameKeepsInv ==
    ASSUME RuntimeInv, HandleFrame PROVE RuntimeInv'
<1> DEFINE f == written[handled + 1]
           to == f.to \cap pending
           n == handled + 1
           value == Response(n)
<1>1. /\ UNCHANGED <<handles, channel, actor, reader_open, status, stdin, alive, read, written>>
      /\ Reading /\ handled < Len(written) /\ ~f.bad /\ handled' = n
      /\ call' = Reply(call, to, value)
      /\ pending' = pending \ to
      /\ \/ to = {} /\ events' = Append(events, n) /\ answered' = answered
         \/ to # {} /\ events' = events /\ answered' = answered \cup {n}
  BY DEF HandleFrame, NextFrame, Addressee, childVars
<1>2. /\ handled \in Nat /\ Len(written) \in Nat /\ handled <= Len(written)
      /\ Len(written) <= MaxFrames /\ Len(written) - handled <= StdoutCapacity
      /\ answered \subseteq 1 .. handled /\ written \in Seq(Frame)
      /\ pending \subseteq Command /\ pending \subseteq Caller
  BY Disjoint DEF RuntimeInv, TypeInv, TypeOK
<1>3. /\ n \in 1 .. MaxFrames /\ n \in DOMAIN written /\ n \in 1 .. handled'
      /\ n \notin 1 .. handled /\ \A m \in 1 .. handled' : m = n \/ m \in 1 .. handled
      /\ \A m \in 1 .. handled : m \in 1 .. handled' /\ m < n
      /\ handled' \in 0 .. Len(written)
      /\ Len(written) - handled' <= StdoutCapacity
  BY <1>1, <1>2, RuntimeAssumption
<1>4. f \in Frame
  BY <1>2, <1>3
<1>5. actor.at # "ended"
  BY <1>1 DEF Reading
<1>6. \A k : value # Other(k) \/ k = "response"
  BY ResultKinds
<1>7. /\ call' \in [Caller -> Call]
      /\ \A c \in Caller :
            \/ c \in to /\ call[c].at = "wait" /\ call'[c].at = "done" /\ call'[c].reply = {value}
            \/ (c \notin to \/ call[c].at # "wait") /\ call'[c] = call[c]
  BY <1>1, <1>3, CallShape, ResultKinds, ReplyShape DEF RuntimeInv
<1>8. \A m \in Nat : Response(m) = value => m = n
  BY ResultKinds
<1> HIDE DEF value
<1>9. to \subseteq pending /\ to \subseteq f.to
  OBVIOUS
<1>10. (f.to \cap pending') = {}
  BY <1>1
<1> HIDE DEF to
<1>11. /\ events \in Seq(Nat) /\ Len(events) \in Nat /\ DOMAIN events = 1 .. Len(events)
       /\ FrameEvents = DOMAIN events
       /\ \A i \in DOMAIN events : events[i] \in 1 .. handled /\ events[i] # Ended
  BY <1>5, EventsTaken
<1> HIDE DEF n
<1>12. n \in Nat /\ n # Ended
  BY <1>3 DEF Ended
<1>13. /\ DOMAIN Append(events, n) = 1 .. Len(events) + 1
       /\ Append(events, n) \in Seq(Nat)
       /\ Append(events, n)[Len(events) + 1] = n
       /\ \A i \in 1 .. Len(events) : Append(events, n)[i] = events[i]
  BY <1>11, <1>12, AppendShape
<1>14. TypeInv'
  <2>1. events' \in Seq(Nat)
    BY <1>1, <1>11, <1>13
  <2>2. answered' \subseteq 1 .. handled'
    BY <1>1, <1>2, <1>3
  <2> QED
    BY <1>1, <1>2, <1>3, <1>7, <2>1, <2>2 DEF RuntimeInv, TypeInv, TypeOK, Call
<1>15. ChannelOK'
  <2>1. ASSUME NEW i \in DOMAIN channel PROVE MessageOK(channel[i])'
    <3>1. channel[i].who \in Caller /\ MessageOK(channel[i])
      BY ChannelShape DEF RuntimeInv, ChannelOK
    <3> QED
      BY <1>1, <1>7, <3>1 DEF MessageOK, Kind
  <2> QED
    BY <1>1, <2>1 DEF RuntimeInv, ChannelOK
<1>16. PlacesOK'
  <2>1. actor.serves \subseteq Caller
    BY DEF RuntimeInv, TypeInv, TypeOK
  <2> QED
    BY <1>1, <1>2, <1>5, <1>7, <2>1 DEF RuntimeInv, PlacesOK
<1>17. \A c \in Caller : SenderHeld(c)' <=> SenderHeld(c) /\ c \notin to
  <2>1. \A c \in to : c \notin actor.serves
                      /\ \A i \in DOMAIN channel : channel[i].who = c => channel[i].kind = "cancel"
    BY <1>9 DEF RuntimeInv, PlacesOK, ChannelOK, MessageOK
  <2> QED
    BY <1>1, <2>1 DEF SenderHeld
<1>18. WaitOK'
  BY <1>1, <1>7, <1>17 DEF RuntimeInv, WaitOK
<1>19. ReadOK'
  <2>1. \A c \in Caller : Sent(c)' = Sent(c)
    BY <1>1 DEF Sent
  <2>2. \A c \in Caller : call'[c].at \notin {"idle", "send", "wait"} \/ call'[c] = call[c]
    BY <1>7
  <2> QED
    BY <1>1, <2>1, <2>2 DEF RuntimeInv, ReadOK
<1>20. FramesOK'
  <2>1. {m \in 1 .. handled' : ~written[m].bad} = {m \in 1 .. handled : ~written[m].bad} \cup {n}
    BY <1>1, <1>3 DEF n
  <2>2. /\ {events[i] : i \in DOMAIN events} \cup answered = {m \in 1 .. handled : ~written[m].bad}
        /\ {events[i] : i \in DOMAIN events} \cap answered = {}
        /\ \A i, j \in DOMAIN events : i < j => events[i] < events[j]
        /\ \A m, k \in answered : m # k => written[m].to # written[k].to
        /\ \A m \in 1 .. handled : written[m].to \cap pending = {}
    BY <1>11 DEF RuntimeInv, FramesOK
  <2>3. \A m \in 1 .. handled' : written[m].to \cap pending' = {}
    BY <1>1, <1>3, <1>10, <2>2 DEF n
  <2>4. CASE to = {}
    <3>1. events' = Append(events, n) /\ answered' = answered
      BY <1>1, <2>4
    <3>2. /\ \A i \in DOMAIN events' : events'[i] # Ended
          /\ \A i \in DOMAIN events' : i = Len(events) + 1 \/ i \in DOMAIN events
      BY <1>11, <1>12, <1>13, <3>1
    <3>3. FrameEvents' = DOMAIN events'
      BY <3>2 DEF FrameEvents
    <3>4. {events'[i] : i \in DOMAIN events'} = {events[i] : i \in DOMAIN events} \cup {n}
      BY <1>11, <1>13, <3>1
    <3>5. ASSUME NEW i \in DOMAIN events', NEW j \in DOMAIN events', i < j
          PROVE  events'[i] < events'[j]
      <4>1. i \in DOMAIN events /\ events'[i] = events[i]
        BY <1>11, <1>13, <3>1, <3>5
      <4>2. CASE j = Len(events) + 1
        BY <1>3, <1>11, <1>13, <3>1, <4>1, <4>2
      <4>3. CASE j \in DOMAIN events
        BY <1>11, <1>13, <2>2, <3>1, <3>5, <4>1, <4>3
      <4> QED
        BY <3>2, <4>2, <4>3
    <3>6. n \notin answered
      BY <1>2, <1>3
    <3>7. /\ {events'[i] : i \in FrameEvents'} \cup answered' =
                {m \in 1 .. handled' : ~written[m].bad}
          /\ {events'[i] : i \in FrameEvents'} \cap answered' = {}
      BY <2>1, <2>2, <3>1, <3>3, <3>4, <3>6
    <3> QED
      BY <1>1, <2>2, <2>3, <3>1, <3>2, <3>3, <3>5, <3>7 DEF FramesOK
  <2>5. CASE to # {}
    <3>1. events' = events /\ answered' = answered \cup {n}
      BY <1>1, <2>5
    <3>2. FrameEvents' = DOMAIN events
      BY <1>11, <3>1 DEF FrameEvents
    <3>3. \A m \in answered : written[m].to # f.to
      BY <1>2, <1>9, <2>2, <2>5
    <3>4. \A m, k \in answered' : m # k => written[m].to # written[k].to
      BY <2>2, <3>1, <3>3 DEF n
    <3>5. n \notin {events[i] : i \in DOMAIN events}
      BY <1>3, <1>11
    <3>6. /\ {events'[i] : i \in FrameEvents'} \cup answered' =
                {m \in 1 .. handled' : ~written[m].bad}
          /\ {events'[i] : i \in FrameEvents'} \cap answered' = {}
      BY <2>1, <2>2, <3>1, <3>2, <3>5
    <3> QED
      BY <1>1, <1>11, <2>2, <2>3, <3>1, <3>2, <3>4, <3>6 DEF FramesOK
  <2> QED
    BY <2>4, <2>5
<1>21. RepliesOK'
  <2> SUFFICES ASSUME NEW c \in Caller, NEW m \in Nat, Response(m) \in call'[c].reply
               PROVE  m \in answered' /\ c \in written[m].to
    BY <1>1 DEF RepliesOK
  <2>1. CASE Response(m) \in call[c].reply
    BY <1>1, <2>1 DEF RuntimeInv, RepliesOK
  <2>2. CASE Response(m) \notin call[c].reply
    <3>1. c \in to /\ Response(m) = value
      BY <1>7, <2>2
    <3>2. m = n
      BY <1>8, <3>1
    <3> QED
      BY <1>1, <1>9, <3>1, <3>2 DEF n
  <2> QED
    BY <2>1, <2>2
<1>22. StoppedOK'
  <2>1. \A c \in Command : Other("runtime_stopped") \in call'[c].reply =>
                              Other("runtime_stopped") \in call[c].reply
    BY <1>6, <1>7, Disjoint
  <2> QED
    BY <1>1, <1>5, <2>1 DEF RuntimeInv, StoppedOK
<1> QED
  BY <1>14, <1>15, <1>16, <1>18, <1>19, <1>20, <1>21, <1>22 DEF RuntimeInv

\* What was no frame goes nowhere.
LEMMA BadFrame ==
    ASSUME RuntimeInv, handled < Len(written), written[handled + 1].bad
    PROVE  /\ handled + 1 \in 0 .. Len(written) /\ handled + 1 \in DOMAIN written
           /\ Len(written) - (handled + 1) <= StdoutCapacity
           /\ answered \subseteq 1 .. handled + 1
           /\ {m \in 1 .. handled + 1 : ~written[m].bad} = {m \in 1 .. handled : ~written[m].bad}
           /\ \A m \in 1 .. handled + 1 : written[m].to \cap pending = {}
<1>1. /\ handled \in Nat /\ Len(written) \in Nat /\ Len(written) - handled <= StdoutCapacity
      /\ answered \subseteq 1 .. handled /\ written \in Seq(Frame)
  BY DEF RuntimeInv, TypeInv, TypeOK
<1>2. /\ handled + 1 \in 0 .. Len(written) /\ handled + 1 \in DOMAIN written
      /\ Len(written) - (handled + 1) <= StdoutCapacity
      /\ answered \subseteq 1 .. handled + 1
      /\ \A m \in 1 .. handled + 1 : m = handled + 1 \/ m \in 1 .. handled
      /\ \A m \in 1 .. handled : m \in 1 .. handled + 1
  BY <1>1, RuntimeAssumption
<1>3. written[handled + 1].to = {}
  BY <1>2 DEF RuntimeInv, ReadOK
<1>4. \A m \in 1 .. handled : written[m].to \cap pending = {}
  BY DEF RuntimeInv, FramesOK
<1>5. {m \in 1 .. handled + 1 : ~written[m].bad} = {m \in 1 .. handled : ~written[m].bad}
  BY <1>2
<1>6. \A m \in 1 .. handled + 1 : written[m].to \cap pending = {}
  BY <1>2, <1>3, <1>4
<1> QED
  BY <1>2, <1>5, <1>6

LEMMA ReadErrorInLoopKeepsInv ==
    ASSUME RuntimeInv, ReadError, actor.at = "loop" PROVE RuntimeInv'
<1>1. /\ UNCHANGED <<call, handles, channel, pending, reader_open, status, events, answered,
                     stdin, alive, read, written>>
      /\ handled < Len(written) /\ written[handled + 1].bad /\ handled' = handled + 1
      /\ actor' = At("kill")
  BY DEF ReadError, NextFrame, callerVars, childVars
<1>2. /\ actor'.at = "kill" /\ actor'.serves = {} /\ actor.serves = {}
      /\ actor' \in [at : {"loop", "write", "shutdown", "drain", "kill", "ended"},
                     serves : SUBSET Caller]
  BY <1>1 DEF At, RuntimeInv, PlacesOK
<1>3. TypeInv'
  BY <1>1, <1>2, BadFrame DEF RuntimeInv, TypeInv, TypeOK
<1>4. ChannelOK'
  <2>1. ASSUME NEW i \in DOMAIN channel PROVE MessageOK(channel[i])'
    <3>1. MessageOK(channel[i])
      BY DEF RuntimeInv, ChannelOK
    <3> QED
      BY <1>1, <1>2, <3>1 DEF MessageOK, Kind
  <2> QED
    BY <1>1, <2>1 DEF RuntimeInv, ChannelOK
<1>5. PlacesOK'
  BY <1>1, <1>2 DEF RuntimeInv, PlacesOK
<1>6. WaitOK'
  <2>1. \A c \in Caller : SenderHeld(c)' = SenderHeld(c)
    BY <1>1, <1>2 DEF SenderHeld
  <2> QED
    BY <1>1, <1>2, <2>1 DEF RuntimeInv, WaitOK
<1>7. ReadOK'
  <2>1. \A c \in Caller : Sent(c)' = Sent(c)
    BY <1>1 DEF Sent
  <2> QED
    BY <1>1, <1>2, <2>1 DEF RuntimeInv, ReadOK
<1>8. FramesOK'
  BY <1>1, <1>2, BadFrame DEF RuntimeInv, FramesOK, FrameEvents
<1>9. RepliesOK' /\ StoppedOK'
  BY <1>1, <1>2 DEF RuntimeInv, RepliesOK, StoppedOK
<1> QED
  BY <1>3, <1>4, <1>5, <1>6, <1>7, <1>8, <1>9 DEF RuntimeInv

---------------------------------------------------------------------------
\* The end of the actor.

\* Whoever waits is answered, or has its request dropped with the channel
\* before it was written; whoever is told that the runtime stopped, after the
\* output was drained, was not answered by any frame.
LEMMA FinishKeepsInv ==
    ASSUME RuntimeInv, actor.at # "ended",
           NEW outcome \in {"exited", "failed"}, NEW reply \in {"exit", "transport"},
           NEW published \in {<<Ended>>, <<Ended, Ended>>},
           Finish(outcome, reply, published),
           \/ handled' = handled
           \/ handled < Len(written) /\ written[handled + 1].bad /\ handled' = handled + 1,
           outcome = "exited" =>
              handled = Len(written) \/ \E n \in DOMAIN written : written[n].bad
    PROVE  RuntimeInv'
<1> DEFINE mid == Reply(call, actor.serves, Other(reply))
<1>1. /\ UNCHANGED <<handles, reader_open, answered, stdin, read, written>>
      /\ status' = outcome /\ events' = events \o published
      /\ call' = Reply(mid, pending, Other("runtime_stopped"))
      /\ pending' = {} /\ channel' = << >> /\ actor' = At("ended") /\ alive' = FALSE
  BY DEF Finish
<1>2. /\ actor'.at = "ended" /\ actor'.serves = {}
      /\ actor' \in [at : {"loop", "write", "shutdown", "drain", "kill", "ended"},
                     serves : SUBSET Caller]
  BY <1>1 DEF At
<1>3. /\ mid \in [Caller -> Call]
      /\ \A c \in Caller :
            \/ c \in actor.serves /\ call[c].at = "wait" /\ mid[c].at = "done"
               /\ mid[c].reply = {Other(reply)}
            \/ (c \notin actor.serves \/ call[c].at # "wait") /\ mid[c] = call[c]
  BY CallShape, ResultKinds, ReplyShape DEF RuntimeInv
<1> HIDE DEF mid
<1>4. /\ call' \in [Caller -> Call]
      /\ \A c \in Caller :
            \/ c \in pending /\ mid[c].at = "wait" /\ call'[c].at = "done"
               /\ call'[c].reply = {Other("runtime_stopped")}
            \/ (c \notin pending \/ mid[c].at # "wait") /\ call'[c] = mid[c]
  BY <1>1, <1>3, ResultKinds, ReplyShape
<1>5. \A c \in Caller :
         /\ call'[c].at = "done" \/ call'[c].at = call[c].at
         /\ call'[c].at = "wait" => c \notin pending \cup actor.serves
         /\ \/ call'[c].reply = call[c].reply
            \/ call'[c].reply = {Other(reply)}
            \/ c \in pending /\ call'[c].reply = {Other("runtime_stopped")}
  BY <1>3, <1>4
<1>6. /\ events \in Seq(Nat) /\ Len(events) \in Nat /\ DOMAIN events = 1 .. Len(events)
      /\ FrameEvents = DOMAIN events
      /\ \A i \in DOMAIN events : events[i] \in 1 .. handled /\ events[i] # Ended
  BY EventsTaken
<1>7. /\ published \in Seq(Nat) /\ Len(published) \in Nat
      /\ \A i \in 1 .. Len(published) : published[i] = Ended
  <2>1. CASE published = <<Ended>>
    BY <2>1 DEF Ended
  <2>2. CASE published = <<Ended, Ended>>
    BY <2>2 DEF Ended
  <2> QED
    BY <2>1, <2>2
<1>8. /\ events' \in Seq(Nat) /\ Len(events') = Len(events) + Len(published)
      /\ DOMAIN events' = 1 .. Len(events) + Len(published)
      /\ \A i \in DOMAIN events : i \in DOMAIN events' /\ events'[i] = events[i]
      /\ \A i \in DOMAIN events' : i \in DOMAIN events
                                   \/ (events'[i] = Ended /\ \A j \in DOMAIN events : j < i)
  BY <1>1, <1>6, <1>7
<1>9. TypeInv'
  <2>1. /\ handled' \in 0 .. Len(written) /\ Len(written) - handled' <= StdoutCapacity
        /\ answered \subseteq 1 .. handled'
    BY BadFrame DEF RuntimeInv, TypeInv, TypeOK
  <2>2. channel' \in Seq(ActorMessage) /\ Len(channel') <= ActorCapacity
    BY <1>1, RuntimeAssumption
  <2> QED
    BY <1>1, <1>2, <1>4, <1>8, <2>1, <2>2 DEF RuntimeInv, TypeInv, TypeOK, Call
<1>10. ChannelOK' /\ PlacesOK'
  BY <1>1, <1>2 DEF ChannelOK, PlacesOK
<1>11. \A c \in Caller : ~SenderHeld(c)'
  BY <1>1, <1>2 DEF SenderHeld
<1>12. WaitOK'
  BY <1>2, <1>5, <1>11 DEF RuntimeInv, WaitOK
<1>13. ReadOK'
  <2>1. \A c \in Caller : Sent(c)' = Sent(c)
    BY <1>1 DEF Sent
  <2>2. ASSUME NEW c \in Caller, Sent(c) PROVE call'[c].at \notin {"idle", "send", "wait"}
    <3>1. call[c].at \notin {"idle", "send"}
      BY <2>2 DEF RuntimeInv, ReadOK
    <3>2. ASSUME call'[c].at = "wait" PROVE FALSE
      <4>1. call[c].at = "wait" /\ c \notin pending \cup actor.serves
        BY <1>5, <3>2
      <4>2. SenderHeld(c)
        BY <4>1 DEF RuntimeInv, WaitOK
      <4> QED
        BY <2>2, <4>1, <4>2 DEF SenderHeld, RuntimeInv, ReadOK
    <3> QED
      BY <1>5, <3>1, <3>2
  <2> QED
    BY <1>1, <1>2, <2>1, <2>2 DEF RuntimeInv, ReadOK
<1>14. FramesOK'
  <2>1. FrameEvents' = DOMAIN events
    BY <1>6, <1>8 DEF FrameEvents
  <2>2. {events'[i] : i \in FrameEvents'} = {events[i] : i \in FrameEvents}
    BY <1>6, <1>8, <2>1
  <2>3. {n \in 1 .. handled' : ~written[n].bad} = {n \in 1 .. handled : ~written[n].bad}
    BY BadFrame
  <2>4. /\ \A i, j \in FrameEvents' : i < j => events'[i] < events'[j]
        /\ \A i \in FrameEvents', j \in DOMAIN events' \ FrameEvents' : i < j
    BY <1>6, <1>8, <2>1 DEF RuntimeInv, FramesOK
  <2> QED
    BY <1>1, <1>2, <2>2, <2>3, <2>4 DEF RuntimeInv, FramesOK
<1>15. RepliesOK'
  <2> SUFFICES ASSUME NEW c \in Caller, NEW n \in Nat, Response(n) \in call'[c].reply
               PROVE  n \in answered /\ c \in written[n].to
    BY <1>1 DEF RepliesOK
  <2>1. Response(n) \in call[c].reply
    BY <1>5, ResultKinds
  <2> QED
    BY <2>1 DEF RuntimeInv, RepliesOK
<1>16. StoppedOK'
  <2> SUFFICES ASSUME NEW c \in Command, Other("runtime_stopped") \in call'[c].reply,
                      outcome = "exited", \A n \in DOMAIN written : ~written[n].bad
               PROVE  \A n \in DOMAIN written : c \notin written[n].to
    BY <1>1, <1>2 DEF StoppedOK
  <2>1. Other("runtime_stopped") \notin call[c].reply
    BY DEF RuntimeInv, StoppedOK
  <2>2. c \in pending
    BY <1>5, <2>1, ResultKinds, Disjoint
  <2>3. handled = Len(written) /\ DOMAIN written = 1 .. handled
    BY DEF RuntimeInv, TypeInv, TypeOK
  <2> QED
    BY <2>2, <2>3 DEF RuntimeInv, FramesOK
<1> QED
  BY <1>9, <1>10, <1>12, <1>13, <1>14, <1>15, <1>16 DEF RuntimeInv

LEMMA EndKeepsInv ==
    ASSUME RuntimeInv, ReadError \/ Drained \/ TransportFailed PROVE RuntimeInv'
<1>1. CASE Drained
  <2>1. /\ actor.at # "ended" /\ Finish("exited", "exit", <<Ended>>)
        /\ handled' = handled /\ handled = Len(written)
    BY <1>1 DEF Drained
  <2> QED
    BY <2>1, FinishKeepsInv
<1>2. CASE TransportFailed
  <2>1. /\ actor.at # "ended" /\ Finish("failed", "transport", <<Ended>>) /\ handled' = handled
    BY <1>2 DEF TransportFailed
  <2> QED
    BY <2>1, FinishKeepsInv
<1>3. CASE ReadError
  <2>1. /\ Reading /\ handled < Len(written) /\ written[handled + 1].bad
        /\ handled' = handled + 1
    BY <1>3 DEF ReadError, NextFrame
  <2>2. CASE actor.at = "loop"
    BY <1>3, <2>2, ReadErrorInLoopKeepsInv
  <2>3. CASE actor.at = "shutdown"
    <3>1. Finish("failed", "transport", <<Ended>>) /\ actor.at # "ended"
      BY <1>3, <2>3 DEF ReadError
    <3> QED
      BY <2>1, <3>1, FinishKeepsInv
  <2>4. CASE actor.at = "drain"
    <3>1. Finish("exited", "exit", <<Ended, Ended>>) /\ actor.at # "ended"
      BY <1>3, <2>4 DEF ReadError
    <3>2. \E n \in DOMAIN written : written[n].bad
      BY <2>1, BadFrame
    <3> QED
      BY <2>1, <3>1, <3>2, FinishKeepsInv
  <2> QED
    BY <2>1, <2>2, <2>3, <2>4 DEF Reading
<1> QED
  BY <1>1, <1>2, <1>3

---------------------------------------------------------------------------
\* The theorems.

LEMMA RuntimeInitInv == Init => RuntimeInv
<1> SUFFICES ASSUME Init PROVE RuntimeInv
  OBVIOUS
<1>1. /\ call = [c \in Caller |-> [at |-> "idle", reply |-> {}]] /\ handles = TRUE
      /\ channel = << >> /\ actor = At("loop") /\ pending = {} /\ reader_open = TRUE
      /\ status = "running" /\ events = << >> /\ stdin = << >> /\ alive = TRUE /\ read = {}
      /\ written = << >> /\ handled = 0 /\ answered = {}
  BY DEF Init
<1>2. /\ call \in [Caller -> Call]
      /\ \A c \in Caller : call[c].at = "idle" /\ call[c].reply = {}
  BY <1>1 DEF Call
<1>3. /\ actor.at = "loop" /\ actor.serves = {}
      /\ actor \in [at : {"loop", "write", "shutdown", "drain", "kill", "ended"},
                    serves : SUBSET Caller]
  BY <1>1 DEF At
<1>4. /\ channel \in Seq(ActorMessage) /\ events \in Seq(Nat)
      /\ stdin \in Seq(Command \cup Message) /\ written \in Seq(Frame)
      /\ Len(channel) = 0 /\ Len(stdin) = 0 /\ Len(written) = 0
  BY <1>1
<1>5. TypeInv
  <2>1. Len(channel) <= ActorCapacity /\ Len(stdin) <= StdinCapacity /\ Len(written) <= MaxFrames
    BY <1>4, RuntimeAssumption
  <2>2. /\ handled \in 0 .. Len(written) /\ Len(written) - handled <= StdoutCapacity
        /\ answered \subseteq 1 .. handled
    BY <1>1, <1>4, RuntimeAssumption
  <2> QED
    BY <1>1, <1>2, <1>3, <1>4, <2>1, <2>2 DEF TypeInv, TypeOK, Call
<1>6. ChannelOK /\ PlacesOK
  BY <1>1, <1>3 DEF ChannelOK, PlacesOK
<1>7. WaitOK
  BY <1>1, <1>2, <1>3 DEF WaitOK, SenderHeld
<1>8. ReadOK
  BY <1>1 DEF ReadOK, Sent
<1>9. FramesOK
  BY <1>1 DEF FramesOK, FrameEvents
<1>10. RepliesOK /\ StoppedOK
  BY <1>2, Disjoint DEF RepliesOK, StoppedOK
<1> QED
  BY <1>5, <1>6, <1>7, <1>8, <1>9, <1>10 DEF RuntimeInv

LEMMA RuntimeNextInv == RuntimeInv /\ [Next]_vars => RuntimeInv'
<1> SUFFICES ASSUME RuntimeInv, [Next]_vars PROVE RuntimeInv'
  OBVIOUS
<1>1. CASE \E c \in Caller : Begin(c) \/ CallerStep(c)
  BY <1>1, BeginKeepsInv, SendKeepsInv, SendFailsKeepsInv, SenderDroppedKeepsInv,
     TimeoutKeepsInv, CancelKeepsInv DEF CallerStep
<1>2. CASE ActorStep
  BY <1>2, TakeServesKeepsInv, TakeCancelKeepsInv, RejectKeepsInv, QuietStepKeepsInv,
     WriteDoneKeepsInv, WriteFailsKeepsInv, HandleFrameKeepsInv, EndKeepsInv DEF ActorStep
<1>3. CASE DropHandles \/ ChildReads \/ ChildWrites \/ ChildExits
  BY <1>3, QuietStepKeepsInv, ChildReadsKeepsInv, ChildWritesKeepsInv
<1>4. CASE UNCHANGED vars
  BY <1>4, RuntimeUnchanged
<1> QED
  BY <1>1, <1>2, <1>3, <1>4 DEF Next

\* The inductive invariant holds in every state of the runtime.
THEOREM RuntimeInvariant == Spec => []RuntimeInv
  BY RuntimeInitInv, RuntimeNextInv, PTL DEF Spec

\* The actor's channel and the pipes to the child keep their capacities
\* (runtime.rs: run_actor, read_stdout).
THEOREM RuntimeTypeCorrect == Spec => []TypeOK
<1>1. RuntimeInv => TypeOK
  BY DEF RuntimeInv, TypeInv
<1> QED
  BY <1>1, RuntimeInvariant, PTL

\* Every frame the actor takes is handed to exactly one command or published
\* exactly once, in order, before the end is announced; a caller is given only
\* the frame that answers it (runtime.rs: handle_frame).
THEOREM RoutingCorrect == Spec => []EveryFrameRouted
<1>1. RuntimeInv => EveryFrameRouted
  <2> SUFFICES ASSUME RuntimeInv PROVE EveryFrameRouted
    OBVIOUS
  <2>1. \A c \in Caller, n \in 1 .. Len(written) : Response(n) \in call[c].reply =>
           n \in answered /\ c \in written[n].to
    <3>1. \A n \in 1 .. Len(written) : n \in Nat
      BY DEF RuntimeInv, TypeInv, TypeOK
    <3> QED
      BY <3>1 DEF RuntimeInv, RepliesOK
  <2> QED
    BY <2>1 DEF RuntimeInv, FramesOK, EveryFrameRouted
<1> QED
  BY <1>1, RuntimeInvariant, PTL

\* When the child has exited, a command is told that the runtime stopped only
\* if the child never answered it (runtime.rs: drain_reader, fail_pending).
THEOREM DrainCorrect == Spec => []AcceptedResponsesDrained
<1>1. RuntimeInv => AcceptedResponsesDrained
  BY DEF RuntimeInv, StoppedOK, AcceptedResponsesDrained
<1> QED
  BY <1>1, RuntimeInvariant, PTL

\* A command in `pending` has a caller, or a Cancel for it is in the channel
\* (runtime.rs: request, ActorMessage::Cancel).
THEOREM NoAbandonedCorrect == Spec => []NoAbandonedCommand
<1>1. RuntimeInv => NoAbandonedCommand
  <2> SUFFICES ASSUME RuntimeInv, NEW c \in pending
               PROVE  \/ call[c].at \in {"wait", "cancel"}
                      \/ \E i \in DOMAIN channel : channel[i] = [kind |-> "cancel", who |-> c]
    BY DEF NoAbandonedCommand
  <2>1. c \in Caller /\ SenderHeld(c)
    BY Disjoint DEF RuntimeInv, TypeInv, TypeOK, SenderHeld
  <2> QED
    BY <2>1 DEF RuntimeInv, WaitOK, Gone
<1> QED
  BY <1>1, RuntimeInvariant, PTL
============================================================================

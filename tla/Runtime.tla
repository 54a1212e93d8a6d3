------------------------------ MODULE Runtime ------------------------------
(***************************************************************************)
(* The actor that owns one OMP process (crates/omp-runtime/src/runtime.rs) *)
(* after startup: the callers of request, send and shutdown, the actor's   *)
(* channel and loop, the pipes to the child, and how the actor ends.       *)
(*                                                                         *)
(* Request ids are fresh (AtomicU64::fetch_add), so a command stands for   *)
(* its id.  A caller's oneshot channel is its `reply`, an Option.  The     *)
(* child's stdout pipe, the read_stdout task and its channel to the actor  *)
(* are one bounded queue: what is in `written` and not yet `handled`.      *)
(*                                                                         *)
(* The child is external: it may read, answer what it has read (late,      *)
(* twice, or never), write events, write something that is no frame, and   *)
(* exit at any time, closing its pipes.  Prompt status, which nothing in   *)
(* the daemon reads, and errors of waiting for a process are left out.     *)
(* `answered` is history, and so is what is `handled` in `written`.        *)
(***************************************************************************)
EXTENDS Naturals, Sequences, FiniteSets

CONSTANTS
    Command,        \* calls of request
    Message,        \* calls of send: UI responses, which have no answer
    Stopper,        \* calls of shutdown
    ActorCapacity,  \* ACTOR_CHANNEL_CAPACITY
    StdinCapacity,  \* frames the pipe to the child holds
    StdoutCapacity, \* frames between the child and the actor
    MaxFrames,      \* bound: frames the child writes
    MaxCalls        \* bound: calls that are made

ASSUME RuntimeAssumption ==
    /\ Command \cap Message = {} /\ Stopper \cap (Command \cup Message) = {}
    /\ ActorCapacity \in Nat \ {0}
    /\ StdinCapacity \in Nat \ {0}
    /\ StdoutCapacity \in Nat \ {0}
    /\ MaxFrames \in Nat
    /\ MaxCalls \in Nat

Caller == Command \cup Message \cup Stopper

VARIABLES
    call,        \* where each caller is, and its reply
    handles,     \* some OmpRuntime handle exists
    channel,     \* actor_rx
    actor,       \* where run_actor is, and the caller it is serving
    pending,     \* the commands waiting for a response
    reader_open, \* run_actor: reader_open
    status,      \* status_tx
    events,      \* events_tx: indices of published frames, Ended for the end
    stdin,       \* written to the child and not yet read by it
    alive,       \* the child runs
    read,        \* the commands the child has read
    written,     \* all frames the child has written
    handled,     \* how many of them the actor has taken
    answered     \* history: the frames that were handed to a command

callerVars == <<call, handles>>
childVars == <<alive, read, written>>
loopVars == <<pending, reader_open, status, events, handled, answered>>
vars == <<callerVars, channel, actor, loopVars, stdin, childVars>>

Ended == 0
Frame == [to : {{}} \cup {{c} : c \in Command}, bad : BOOLEAN]
Kind(c) == IF c \in Stopper THEN "shutdown" ELSE "request"
ActorMessage == [kind : {"request", "shutdown", "cancel"}, who : Caller]

\* What a call may return: Ok with a response, with nothing or with the exit,
\* or a RequestError.
Response(n) == [kind |-> "response", frame |-> n]
Other(kind) == [kind |-> kind, frame |-> 0]
Result == {Response(n) : n \in 1 .. MaxFrames}
          \cup {Other(k) : k \in {"sent", "exit", "runtime_stopped", "timed_out",
                                  "frame_too_large", "transport"}}

\* A oneshot: the caller that waits returns what is sent (from then on nothing
\* else can happen to it), and what is sent to one that does not is dropped.
Reply(calls, cs, value) ==
    [c \in Caller |-> IF c \in cs /\ calls[c].at = "wait"
                      THEN [at |-> "done", reply |-> {value}] ELSE calls[c]]

Return(c, kind) == call' = [call EXCEPT ![c] = [at |-> "done", reply |-> {Other(kind)}]]

---------------------------------------------------------------------------
\* Callers: request, send, shutdown.

\* Mutant of ChannelRoom: an unbounded channel.
ChannelUnbounded == TRUE

ChannelRoom == Len(channel) < ActorCapacity

\* A command or message is made; shutdown first looks at the status.
Begin(c) ==
    /\ handles
    /\ call[c].at = "idle"
    /\ Cardinality({d \in Caller : call[d].at # "idle"}) < MaxCalls
    /\ IF c \in Stopper /\ status # "running"
       THEN Return(c, IF status = "exited" THEN "exit" ELSE "runtime_stopped")
       ELSE call' = [call EXCEPT ![c].at = "send"]
    /\ UNCHANGED <<handles, channel, actor, loopVars, stdin, childVars>>

Send(c) ==
    /\ call[c].at = "send"
    /\ actor.at # "ended"
    /\ ChannelRoom
    /\ channel' = Append(channel, [kind |-> Kind(c), who |-> c])
    /\ call' = [call EXCEPT ![c].at = "wait"]
    /\ UNCHANGED <<handles, actor, loopVars, stdin, childVars>>

\* The actor's end of the channel is gone.
SendFails(c) ==
    /\ call[c].at = "send"
    /\ actor.at = "ended"
    /\ Return(c, IF c \in Stopper /\ status = "exited" THEN "exit" ELSE "runtime_stopped")
    /\ UNCHANGED <<handles, channel, actor, loopVars, stdin, childVars>>

\* Somebody still has the sender of c's oneshot.
SenderHeld(c) ==
    \/ c \in pending \cup actor.serves
    \/ \E i \in DOMAIN channel : channel[i].who = c /\ channel[i].kind # "cancel"

SenderDropped(c) ==
    /\ call[c].at = "wait"
    /\ ~SenderHeld(c)
    /\ Return(c, "runtime_stopped")
    /\ UNCHANGED <<handles, channel, actor, loopVars, stdin, childVars>>

\* Only request has a timeout.  The receiver is dropped here; Cancel tells
\* the actor.
Timeout(c) ==
    /\ c \in Command
    /\ call[c].at = "wait"
    /\ call' = [call EXCEPT ![c].at = "cancel"]
    /\ UNCHANGED <<handles, channel, actor, loopVars, stdin, childVars>>

\* Mutant of SendCancel: the actor is not told.
CancelQuietly(c) == channel' = channel

SendCancel(c) ==
    /\ ChannelRoom
    /\ channel' = Append(channel, [kind |-> "cancel", who |-> c])

Cancel(c) ==
    /\ call[c].at = "cancel"
    /\ IF actor.at = "ended" THEN channel' = channel ELSE SendCancel(c)
    /\ Return(c, "timed_out")
    /\ UNCHANGED <<handles, actor, loopVars, stdin, childVars>>

\* The last handle is dropped: nobody calls any more.
DropHandles ==
    /\ handles
    /\ \A c \in Caller : call[c].at \in {"idle", "done"}
    /\ handles' = FALSE
    /\ UNCHANGED <<call, channel, actor, loopVars, stdin, childVars>>

---------------------------------------------------------------------------
\* The actor's loop.  While it writes to the child it does nothing else.

At(place) == [at |-> place, serves |-> {}]

TakeRequest ==
    /\ actor.at = "loop"
    /\ channel # << >>
    /\ Head(channel).kind = "request"
    /\ actor' = [at |-> "write", serves |-> {Head(channel).who}]
    /\ channel' = Tail(channel)
    /\ UNCHANGED <<callerVars, loopVars, stdin, childVars>>

\* The encoded frame exceeds the child's limit, which is found before writing.
RejectTooLarge ==
    /\ actor.at = "loop"
    /\ channel # << >>
    /\ Head(channel).kind = "request"
    /\ call' = Reply(call, {Head(channel).who}, Other("frame_too_large"))
    /\ channel' = Tail(channel)
    /\ UNCHANGED <<handles, actor, loopVars, stdin, childVars>>

WriteDone(c) ==
    /\ actor.at = "write" /\ c \in actor.serves
    /\ alive
    /\ Len(stdin) < StdinCapacity
    /\ stdin' = Append(stdin, c)
    /\ actor' = At("loop")
    /\ IF c \in Command
       THEN pending' = pending \cup {c} /\ call' = call
       ELSE pending' = pending /\ call' = Reply(call, {c}, Other("sent"))
    /\ UNCHANGED <<handles, channel, reader_open, status, events, handled, answered, childVars>>

\* The child's end of the pipe is closed: StopReason::TransportFailed.
WriteFails(c) ==
    /\ actor.at = "write" /\ c \in actor.serves
    /\ ~alive
    /\ call' = Reply(call, {c}, Other("transport"))
    /\ actor' = At("kill")
    /\ UNCHANGED <<handles, channel, loopVars, stdin, childVars>>

TakeCancel ==
    /\ actor.at = "loop"
    /\ channel # << >>
    /\ Head(channel).kind = "cancel"
    /\ pending' = pending \ {Head(channel).who}
    /\ channel' = Tail(channel)
    /\ UNCHANGED <<callerVars, actor, reader_open, status, events, handled, answered, stdin, childVars>>

TakeShutdown ==
    /\ actor.at = "loop"
    /\ channel # << >>
    /\ Head(channel).kind = "shutdown"
    /\ actor' = [at |-> "shutdown", serves |-> {Head(channel).who}]
    /\ channel' = Tail(channel)
    /\ UNCHANGED <<callerVars, loopVars, stdin, childVars>>

HandlesGone ==
    /\ actor.at = "loop"
    /\ ~handles
    /\ channel = << >>
    /\ actor' = At("shutdown")
    /\ UNCHANGED <<callerVars, channel, loopVars, stdin, childVars>>

Reading == actor.at = "drain" \/ (actor.at \in {"loop", "shutdown"} /\ reader_open)

NextFrame == written[handled + 1]

\* Mutant of Addressee: a response is given to any command that waits.
AddresseeAny(f) == IF f.to = {} THEN {} ELSE pending

\* The waiting command a frame answers.
Addressee(f) == f.to \cap pending

\* handle_frame: a response goes to the command that waits for it, anything
\* else is published.
HandleFrame ==
    /\ Reading
    /\ handled < Len(written)
    /\ ~NextFrame.bad
    /\ handled' = handled + 1
    /\ call' = Reply(call, Addressee(NextFrame), Response(handled + 1))
    /\ pending' = pending \ Addressee(NextFrame)
    /\ IF Addressee(NextFrame) = {}
       THEN events' = Append(events, handled + 1) /\ answered' = answered
       ELSE events' = events /\ answered' = answered \cup {handled + 1}
    /\ UNCHANGED <<handles, channel, actor, reader_open, status, stdin, childVars>>

ReadEof ==
    /\ actor.at \in {"loop", "shutdown"}
    /\ reader_open
    /\ ~alive
    /\ handled = Len(written)
    /\ reader_open' = FALSE
    /\ UNCHANGED <<callerVars, channel, actor, pending, status, events, handled, answered, stdin, childVars>>

\* publish_exit or publish_failure, the answer to shutdown, fail_pending and
\* the return of run_actor, which drops the channel and with it the child.
\* There is no await in between.
Finish(outcome, reply, published) ==
    /\ status' = outcome
    /\ events' = events \o published
    /\ call' = Reply(Reply(call, actor.serves, Other(reply)), pending, Other("runtime_stopped"))
    /\ pending' = {}
    /\ channel' = << >>
    /\ actor' = At("ended")
    /\ alive' = FALSE
    /\ UNCHANGED <<handles, reader_open, answered, stdin, read, written>>

\* ReaderItem::Error.  In the loop it ends the transport, in shutdown_child it
\* is the result, and drain_reader publishes it and stops draining.
ReadError ==
    /\ Reading
    /\ handled < Len(written)
    /\ NextFrame.bad
    /\ handled' = handled + 1
    /\ CASE actor.at = "loop" ->
              /\ actor' = At("kill")
              /\ UNCHANGED <<callerVars, channel, pending, reader_open, status, events, answered,
                             stdin, childVars>>
         [] actor.at = "shutdown" -> Finish("failed", "transport", <<Ended>>)
         [] actor.at = "drain" -> Finish("exited", "exit", <<Ended, Ended>>)

\* Mutant of Drain: the exit is published without draining.
SkipDrain == Finish("exited", "exit", <<Ended>>) /\ handled' = handled

Drain ==
    /\ actor' = [actor EXCEPT !.at = "drain"]
    /\ UNCHANGED <<callerVars, channel, loopVars, stdin, childVars>>

\* child.wait() returns, in the loop or in shutdown_child.
ChildExited ==
    /\ actor.at \in {"loop", "shutdown"}
    /\ ~alive
    /\ Drain

\* Mutant of GraceExpires: shutdown waits for the child for ever.
GraceNever == FALSE

\* shutdown_timeout: the child is killed, then its output is drained too.
GraceExpires ==
    /\ actor.at = "shutdown"
    /\ alive
    /\ alive' = FALSE
    /\ actor' = [actor EXCEPT !.at = "drain"]
    /\ UNCHANGED <<callerVars, channel, loopVars, stdin, read, written>>

Drained ==
    /\ actor.at = "drain"
    /\ handled = Len(written)
    /\ Finish("exited", "exit", <<Ended>>)
    /\ handled' = handled

TransportFailed ==
    /\ actor.at = "kill"
    /\ Finish("failed", "transport", <<Ended>>)
    /\ handled' = handled

---------------------------------------------------------------------------
\* The child: external.

\* Once stdin is closed the child may still read what is in the pipe.
ChildReads ==
    /\ alive
    /\ stdin # << >>
    /\ read' = read \cup ({Head(stdin)} \cap Command)
    /\ stdin' = Tail(stdin)
    /\ UNCHANGED <<callerVars, channel, actor, loopVars, alive, written>>

ChildWrites ==
    /\ alive
    /\ Len(written) < MaxFrames
    /\ Len(written) - handled < StdoutCapacity
    /\ \E f \in [to : {{}} \cup {{c} : c \in read}, bad : {FALSE}] \cup {[to |-> {}, bad |-> TRUE]} :
          written' = Append(written, f)
    /\ UNCHANGED <<callerVars, channel, actor, loopVars, stdin, alive, read>>

ChildExits ==
    /\ alive
    /\ alive' = FALSE
    /\ UNCHANGED <<callerVars, channel, actor, loopVars, stdin, read, written>>

---------------------------------------------------------------------------
\* The specification.

Init ==
    /\ call = [c \in Caller |-> [at |-> "idle", reply |-> {}]]
    /\ handles = TRUE
    /\ channel = << >>
    /\ actor = At("loop")
    /\ pending = {}
    /\ reader_open = TRUE
    /\ status = "running"
    /\ events = << >>
    /\ stdin = << >>
    /\ alive = TRUE
    /\ read = {}
    /\ written = << >>
    /\ handled = 0
    /\ answered = {}

CallerStep(c) ==
    Send(c) \/ SendFails(c) \/ SenderDropped(c) \/ Timeout(c) \/ Cancel(c)

ActorStep ==
    \/ TakeRequest \/ TakeCancel \/ TakeShutdown \/ HandlesGone
    \/ RejectTooLarge
    \/ \E c \in Command \cup Message : WriteDone(c) \/ WriteFails(c)
    \/ HandleFrame \/ ReadEof \/ ReadError
    \/ ChildExited \/ GraceExpires \/ Drained \/ TransportFailed

Next ==
    \/ \E c \in Caller : Begin(c) \/ CallerStep(c)
    \/ DropHandles
    \/ ActorStep
    \/ ChildReads \/ ChildWrites \/ ChildExits

Spec == Init /\ [][Next]_vars

\* The daemon's tasks keep running and its timers fire; nothing is assumed of
\* the child.
RuntimeFairness ==
    /\ \A c \in Caller : WF_vars(CallerStep(c))
    /\ WF_vars(ActorStep)

\* With any child.
HangSpec == Spec /\ RuntimeFairness

\* With a child that keeps reading its input.
FairSpec == HangSpec /\ WF_vars(ChildReads)

---------------------------------------------------------------------------
\* Properties.

\* The shape of the state; the channel and the pipes respect their capacity.
TypeOK ==
    /\ call \in [Caller -> [at : {"idle", "send", "wait", "cancel", "done"},
                            reply : SUBSET Result]]
    /\ handles \in BOOLEAN
    /\ channel \in Seq(ActorMessage) /\ Len(channel) <= ActorCapacity
    /\ actor \in [at : {"loop", "write", "shutdown", "drain", "kill", "ended"}, serves : SUBSET Caller]
    /\ pending \subseteq Command
    /\ reader_open \in BOOLEAN
    /\ status \in {"running", "exited", "failed"}
    /\ events \in Seq(Nat)
    /\ stdin \in Seq(Command \cup Message) /\ Len(stdin) <= StdinCapacity
    /\ alive \in BOOLEAN
    /\ read \subseteq Command
    /\ written \in Seq(Frame)
    /\ handled \in 0 .. Len(written) /\ Len(written) - handled <= StdoutCapacity
    /\ answered \subseteq 1 .. handled

\* Where in events the frames of the child are.
FrameEvents == {i \in DOMAIN events : events[i] # Ended}

\* Every frame the actor takes goes to exactly one place (handle_frame): to the
\* command it answers, which is then not answered again, or to the subscribers,
\* in the order the child wrote it and before the end of the stream is
\* announced, where the daemon's event bridge stops listening.
EveryFrameRouted ==
    LET good == {n \in 1 .. handled : ~written[n].bad}
        published == {events[i] : i \in FrameEvents}
    IN /\ published \cup answered = good
       /\ published \cap answered = {}
       /\ \A i, j \in FrameEvents : i < j => events[i] < events[j]
       /\ \A i \in FrameEvents, j \in DOMAIN events \ FrameEvents : i < j
       /\ \A m, n \in answered : m # n => written[m].to # written[n].to
       /\ \A c \in Caller, n \in 1 .. Len(written) : Response(n) \in call[c].reply =>
             n \in answered /\ c \in written[n].to

\* notes.md: shutdown "drains accepted responses while waiting".  When the child
\* has exited, by itself, asked or killed, a command is told that the runtime
\* stopped only if the child never answered it (drain_reader before fail_pending).
AcceptedResponsesDrained ==
    (status = "exited" /\ \A n \in DOMAIN written : ~written[n].bad) =>
        \A c \in Command : Other("runtime_stopped") \in call[c].reply =>
            \A n \in DOMAIN written : c \notin written[n].to

\* A command that nobody waits for does not stay in `pending`: its caller is
\* still there, or a Cancel for it is on its way (request, ActorMessage::Cancel).
NoAbandonedCommand ==
    \A c \in pending :
        \/ call[c].at \in {"wait", "cancel"}
        \/ \E i \in DOMAIN channel : channel[i] = [kind |-> "cancel", who |-> c]

\* Every call of request, send and shutdown returns, whatever the child answers
\* and whenever it exits, as long as it reads its input (the oneshot senders
\* are all used or dropped, the timeouts fire).
EveryCallReturns ==
    \A c \in Caller : call[c].at = "send" ~> call[c].at = "done"

\* architecture.md says that the runtime actor "Applies startup, request, and
\* shutdown timeouts", notes.md that shutdown "kills only after the configured
\* grace period".  So a shutdown returns whatever the child does.
ShutdownReturns ==
    \A c \in Stopper : call[c].at = "send" ~> call[c].at = "done"
============================================================================

----------------------------- MODULE RpcFrames -----------------------------
(***************************************************************************)
(* The reading half of a runtime: the lines an OMP process writes to its   *)
(* standard output, the startup handshake of Runtime::spawn, the task that *)
(* reads the lines afterwards, and the decoder both of them use to put     *)
(* chunked frames together (crates/omp-rpc/src/frame.rs, types.rs and      *)
(* crates/omp-runtime/src/runtime.rs).                                     *)
(*                                                                         *)
(* A message of the process is cut into lines: one line, or one chunk line *)
(* for each part of its payload. Byte counts are small numbers; the text   *)
(* of a line is its message and its part.                                  *)
(***************************************************************************)
EXTENDS Integers, Sequences, FiniteSets, SequencesExt

CONSTANTS
  DEFAULT_MAX_FRAME_BYTES, DEFAULT_MAX_REASSEMBLED_FRAME_BYTES,
  MAX_COUNT, MAX_PAYLOAD_BYTES,
  NegotiationBytes, \* length of the negotiate_protocol command
  Advertised,       \* limits a ready frame may advertise
  Shapes,           \* ways the process may cut a message into lines
  PipeLines,        \* capacity of the pipe: the process waits when it is full
  MaxMessages,      \* bound: messages the process writes
  MaxFaults         \* bound: unusual things the process does

ASSUME LimitsAssumption ==
  /\ DEFAULT_MAX_FRAME_BYTES \in Nat \ {0}
  /\ DEFAULT_MAX_REASSEMBLED_FRAME_BYTES \in Nat
  /\ DEFAULT_MAX_FRAME_BYTES <= DEFAULT_MAX_REASSEMBLED_FRAME_BYTES
  /\ Advertised \subseteq [frame : Nat \ {0}, reassembled : Nat \ {0}]
  /\ MAX_COUNT \in Nat /\ MAX_PAYLOAD_BYTES \in Nat /\ NegotiationBytes \in Nat
  /\ PipeLines \in Nat \ {0} /\ MaxMessages \in Nat /\ MaxFaults \in Nat

ASSUME ShapesAssumption ==
  \A s \in Shapes : /\ s.chunked \in BOOLEAN /\ s.parts \in Seq(Nat)
                    /\ s.parts # <<>> /\ (~s.chunked => Len(s.parts) = 1)
                    /\ s.count \in Nat /\ s.declared \in Nat

VARIABLES
  messages,  \* what the process has begun to write, in order
  rest,      \* lines of those messages not written yet
  written,   \* every line written (history)
  stdout,    \* lines in the pipe and in the reader's buffer
  alive,     \* the process runs
  faults,    \* unusual things done so far
  phase,     \* where spawn, and then the reading task, stands
  limit,     \* max_frame_bytes
  decoder,   \* RpcFrameDecoder
  initial,   \* initial_events of initialize_rpc
  delivered  \* frames handed to subscribers and to the actor, as their lines

child == <<messages, rest, written, alive, faults>>
vars == <<messages, rest, written, stdout, alive, faults, phase, limit,
          decoder, initial, delivered>>

None == [lines |-> <<>>]
Message == [type : {"ready", "legacy", "event", "negotiated", "refused",
                    "wrong", "chunk", "garbage"},
            frame : Nat, reassembled : Nat, shape : Shapes]
Line == [msg : 1 .. MaxMessages, part : Nat \ {0}, cut : BOOLEAN]
Starting == {"ready", "write", "negotiate"}
Ended == {"eof", "error", "failed"}

----------------------------------------------------------------------------
(* The process.                                                            *)

LinesOf(m, shape) ==
  [i \in 1 .. Len(shape.parts) |-> [msg |-> m, part |-> i, cut |-> FALSE]]

\* A message or a shape a conforming process does not write.
Sound(shape) ==
  shape.chunked => /\ shape.count = Len(shape.parts) /\ shape.count > 1
                   /\ shape.declared = FoldLeft(LAMBDA a, b : a + b, 0, shape.parts)
                   /\ shape.declared <= DEFAULT_MAX_REASSEMBLED_FRAME_BYTES
                   /\ shape.declared >= DEFAULT_MAX_FRAME_BYTES
Usual(type) ==
  IF messages = <<>> THEN type \in {"ready", "legacy"}
  ELSE type \in {"event", "negotiated"}
Count(P) == IF P THEN 1 ELSE 0

\* An answer to the negotiation is written once, after the command.
MayWrite(type) ==
  type \in {"negotiated", "refused", "wrong"} =>
    /\ phase = "negotiate"
    /\ \A m \in 1 .. Len(messages) :
         messages[m].type \notin {"negotiated", "refused", "wrong"}

\* The process turns to a new message; a faulty one does so in the middle of
\* another.
Begin(type, advertised, shape) ==
  LET cost == Count(~Usual(type)) + Count(~Sound(shape)) + Count(rest # <<>>)
  IN /\ alive /\ MayWrite(type)
     /\ Len(messages) < MaxMessages /\ faults + cost <= MaxFaults
     /\ messages' = Append(messages,
                      [type |-> type, frame |-> advertised.frame,
                       reassembled |-> advertised.reassembled, shape |-> shape])
     /\ rest' = LinesOf(Len(messages) + 1, shape) \o rest
     /\ faults' = faults + cost
     /\ UNCHANGED <<written, stdout, alive, phase, limit, decoder, initial,
                    delivered>>

Write ==
  /\ alive /\ rest # <<>> /\ Len(stdout) < PipeLines
  /\ stdout' = Append(stdout, Head(rest))
  /\ written' = Append(written, Head(rest))
  /\ rest' = Tail(rest)
  /\ UNCHANGED <<messages, alive, faults, phase, limit, decoder, initial, delivered>>

\* A faulty process leaves a chunk out.
SkipChunk ==
  /\ alive /\ rest # <<>> /\ faults < MaxFaults
  /\ messages[Head(rest).msg].shape.chunked
  /\ rest' = Tail(rest) /\ faults' = faults + 1
  /\ UNCHANGED <<messages, written, stdout, alive, phase, limit, decoder,
                 initial, delivered>>

\* The process ends, possibly in the middle of a line.
Exit ==
  /\ alive /\ alive' = FALSE
  /\ \/ UNCHANGED <<stdout, written>>
     \/ /\ rest # <<>> /\ Len(stdout) < PipeLines
        /\ LET line == [Head(rest) EXCEPT !.cut = TRUE]
           IN stdout' = Append(stdout, line) /\ written' = Append(written, line)
  /\ UNCHANGED <<messages, rest, faults, phase, limit, decoder, initial, delivered>>

----------------------------------------------------------------------------
(* Lines and the decoder.                                                  *)

Shape(line) == messages[line.msg].shape
Type(line) == messages[line.msg].type
Payload(line) == Shape(line).parts[line.part]

\* A chunk line carries its payload in base64 beside its header.
LineBytes(line) == IF Shape(line).chunked THEN Payload(line) + 1 ELSE Payload(line)

\* Failures of read_limited_line.
Unreadable(line) == line.cut \/ LineBytes(line) > limit

\* The limits of a ready frame: those it advertises, or ReadyFrame::legacy.
Limits(line) ==
  IF Type(line) = "legacy"
  THEN [frame |-> DEFAULT_MAX_FRAME_BYTES,
        reassembled |-> DEFAULT_MAX_REASSEMBLED_FRAME_BYTES]
  ELSE [frame |-> messages[line.msg].frame,
        reassembled |-> messages[line.msg].reassembled]

\* The Deserialize of ReadyFrame; one with some of the limits is garbage.
ReadyParses(line) ==
  Type(line) = "ready" => Limits(line).reassembled >= Limits(line).frame

\* ServerMessage::from_json_line; a chunk goes through ChunkFrame::new.
Parses(line) ==
  IF Shape(line).chunked
  THEN /\ Shape(line).count \in 2 .. MAX_COUNT
       /\ line.part - 1 < Shape(line).count
       /\ Shape(line).declared \in DEFAULT_MAX_FRAME_BYTES ..
                                   DEFAULT_MAX_REASSEMBLED_FRAME_BYTES
       /\ Payload(line) \in 1 .. MAX_PAYLOAD_BYTES
  ELSE Type(line) \notin {"garbage", "chunk"} /\ ReadyParses(line)

\* The sequence a chunk belongs to: the pending one, or the one it opens.
Pending(line) ==
  IF decoder.pending # None THEN decoder.pending
  ELSE [chunk_id |-> line.msg, count |-> Shape(line).count,
        byte_length |-> Shape(line).declared, next_index |-> 0,
        bytes |-> 0, lines |-> <<>>]

\* Mutant of InSequence: chunks are appended as they come.
InSequenceAny(line) == TRUE

\* The metadata comparison of RpcFrameDecoder::push.
InSequence(line) ==
  /\ Pending(line).chunk_id = line.msg
  /\ Pending(line).count = Shape(line).count
  /\ Pending(line).byte_length = Shape(line).declared
  /\ Pending(line).next_index = line.part - 1

Appended(line) ==
  [Pending(line) EXCEPT !.next_index = @ + 1, !.bytes = @ + Payload(line),
                        !.lines = Append(@, line)]
Complete(line) ==
  ~Shape(line).chunked \/ Appended(line).next_index >= Shape(line).count

\* Mutant of WithinLengths: the declared length is compared at the end only.
WithinLengthsAtEnd(line) ==
  /\ Shape(line).declared <= decoder.max_reassembled_frame_bytes
  /\ Complete(line) => Appended(line).bytes = Shape(line).declared

\* The three length checks of RpcFrameDecoder::push.
WithinLengths(line) ==
  /\ Shape(line).declared <= decoder.max_reassembled_frame_bytes
  /\ Appended(line).bytes <= Shape(line).declared
  /\ Complete(line) => Appended(line).bytes = Shape(line).declared

\* What the reassembled payload must be: a message, and no chunk.
ContentParses(line) == Type(line) \notin {"garbage", "chunk"} /\ ReadyParses(line)

\* push_json_line returns no error.
Accepts(line) ==
  /\ ~Unreadable(line) /\ Parses(line)
  /\ IF Shape(line).chunked
     THEN /\ decoder.pending = None => line.part = 1
          /\ InSequence(line) /\ WithinLengths(line)
          /\ Complete(line) => ContentParses(line)
     ELSE decoder.pending = None

\* The decoder after an accepted line. Only an unchunked ready frame moves the
\* reassembly limit.
Pushed(line) ==
  IF Shape(line).chunked
  THEN [decoder EXCEPT !.pending = IF Complete(line) THEN None ELSE Appended(line)]
  ELSE [decoder EXCEPT !.max_reassembled_frame_bytes =
          IF Type(line) \in {"ready", "legacy"} THEN Limits(line).reassembled ELSE @]

\* The lines of the frame an accepted, completing line yields.
Frame(line) == IF Shape(line).chunked THEN Appended(line).lines ELSE <<line>>

----------------------------------------------------------------------------
(* Runtime::spawn: initialize_rpc under the startup timeout. Its errors    *)
(* drop the child, which kills it.                                         *)

Fail ==
  /\ phase' = "failed" /\ alive' = FALSE
  /\ decoder' = [decoder EXCEPT !.pending = None]
  /\ UNCHANGED <<messages, rest, written, faults, limit, initial, delivered>>

\* Mutant of HandOver: what came before the answer is dropped.
HandOverNothing(events) == delivered' = <<>> /\ phase' = "reading"

\* spawn sends the initial events to the first subscriber and starts the
\* reading task with the same buffer and decoder.
HandOver(events) == delivered' = events /\ phase' = "reading"

\* The first line must be a whole ready frame.
ReadReady ==
  /\ phase = "ready" /\ stdout # <<>>
  /\ stdout' = Tail(stdout)
  /\ LET line == Head(stdout)
         isReady == /\ Accepts(line) /\ ~Shape(line).chunked
                    /\ Type(line) \in {"ready", "legacy"}
     IN \/ /\ isReady
           /\ limit' = Limits(line).frame
           /\ decoder' = Pushed(line)
           /\ IF Type(line) = "legacy" THEN HandOver(<<>>)
              ELSE phase' = "write" /\ UNCHANGED delivered
           /\ UNCHANGED <<child, initial>>
        \/ ~isReady /\ Fail

\* write_message of the negotiation: refused when it is longer than the
\* advertised frame, lost when the process has gone.
SendNegotiation ==
  /\ phase = "write"
  /\ \/ /\ NegotiationBytes <= limit
        /\ phase' = "negotiate"
        /\ UNCHANGED <<child, stdout, limit, decoder, initial, delivered>>
     \/ /\ NegotiationBytes > limit \/ ~alive
        /\ Fail /\ UNCHANGED stdout

\* The loop of initialize_rpc: every other frame waits in initial_events.
ReadAnswer ==
  /\ phase = "negotiate" /\ stdout # <<>>
  /\ stdout' = Tail(stdout)
  /\ LET line == Head(stdout)
         refused == Complete(line) /\ Type(line) \in {"refused", "wrong"}
     IN \/ /\ Accepts(line) /\ ~refused
           /\ decoder' = Pushed(line)
           /\ \/ /\ ~Complete(line)
                 /\ UNCHANGED <<phase, initial, delivered>>
              \/ /\ Complete(line) /\ Type(line) = "negotiated"
                 /\ HandOver(initial) /\ UNCHANGED initial
              \/ /\ Complete(line) /\ Type(line) # "negotiated"
                 /\ initial' = Append(initial, Frame(line))
                 /\ UNCHANGED <<phase, delivered>>
           /\ UNCHANGED <<child, limit>>
        \/ (~Accepts(line) \/ refused) /\ Fail

StartupEof ==
  /\ phase \in {"ready", "negotiate"} /\ stdout = <<>> /\ ~alive
  /\ Fail /\ UNCHANGED stdout

StartupTimedOut == phase \in Starting /\ Fail /\ UNCHANGED stdout

----------------------------------------------------------------------------
(* read_stdout, the reading task.                                          *)

ReadStdout ==
  /\ phase = "reading" /\ stdout # <<>>
  /\ stdout' = Tail(stdout)
  /\ LET line == Head(stdout)
     IN \/ /\ Accepts(line)
           /\ decoder' = Pushed(line)
           /\ delivered' = IF Complete(line) THEN Append(delivered, Frame(line))
                           ELSE delivered
           /\ UNCHANGED phase
        \/ /\ ~Accepts(line)
           /\ phase' = "error" /\ decoder' = [decoder EXCEPT !.pending = None]
           /\ UNCHANGED delivered
  /\ UNCHANGED <<child, limit, initial>>

\* Mutant of EndOfOutput: the decoder is not asked.
EndOfOutputClean == "eof"

\* Mutant of StdoutEnds: the task waits for the rest of the sequence.
StdoutEndsBetween ==
  /\ phase = "reading" /\ stdout = <<>> /\ ~alive /\ decoder.pending = None
  /\ phase' = "eof"
  /\ UNCHANGED <<child, stdout, limit, decoder, initial, delivered>>

\* The item sent at the end of the output.
EndOfOutput == IF decoder.pending # None THEN "error" ELSE "eof"

StdoutEnds ==
  /\ phase = "reading" /\ stdout = <<>> /\ ~alive
  /\ phase' = EndOfOutput
  /\ UNCHANGED <<child, stdout, limit, decoder, initial, delivered>>

----------------------------------------------------------------------------
Init ==
  /\ messages = <<>> /\ rest = <<>> /\ written = <<>> /\ stdout = <<>>
  /\ alive = TRUE /\ faults = 0 /\ phase = "ready"
  /\ limit = DEFAULT_MAX_FRAME_BYTES
  /\ decoder = [pending |-> None,
                max_reassembled_frame_bytes |-> DEFAULT_MAX_REASSEMBLED_FRAME_BYTES]
  /\ initial = <<>> /\ delivered = <<>>

NoLimits == [frame |-> 0, reassembled |-> 0]

Process ==
  \/ \E shape \in Shapes :
       \/ \E advertised \in Advertised : Begin("ready", advertised, shape)
       \/ \E type \in {"legacy", "event", "negotiated", "refused", "wrong",
                       "chunk", "garbage"} : Begin(type, NoLimits, shape)
  \/ Write \/ SkipChunk \/ Exit

Reader == ReadReady \/ SendNegotiation \/ ReadAnswer \/ StartupEof
          \/ ReadStdout \/ StdoutEnds

Next == Process \/ Reader \/ StartupTimedOut

Spec == Init /\ [][Next]_vars

\* The tasks of the daemon are scheduled, and its timers fire.
FairSpec == Spec /\ WF_vars(Reader) /\ WF_vars(StartupTimedOut)

----------------------------------------------------------------------------
\* The state is well formed, and what the decoder holds never exceeds the
\* length its sequence declared nor the limit in force, which is what bounds
\* the memory a process can make the daemon keep.
TypeOK ==
  /\ messages \in Seq(Message) /\ Len(messages) <= MaxMessages
  /\ rest \in Seq(Line) /\ stdout \in Seq(Line) /\ written \in Seq(Line)
  /\ alive \in BOOLEAN /\ faults \in 0 .. MaxFaults
  /\ phase \in Starting \cup {"reading"} \cup Ended
  /\ limit \in Nat \ {0}
  /\ initial \in Seq(Seq(Line)) /\ delivered \in Seq(Seq(Line))
  /\ decoder.pending # None =>
       /\ decoder.pending.next_index \in 1 .. decoder.pending.count - 1
       /\ decoder.pending.bytes <= decoder.pending.byte_length
       /\ decoder.pending.byte_length <= decoder.max_reassembled_frame_bytes

\* The lines of a message, as many of them as it announces: chunks beyond that
\* are no part of it.
Announced(m) ==
  LET shape == messages[m].shape
  IN [i \in {j \in 1 .. Len(shape.parts) : shape.chunked => j <= shape.count} |->
        LinesOf(m, shape)[i]]

\* Every frame handed on, during startup or later, is one whole message: all of
\* its lines, in order, and nothing of another message, whatever the process
\* mixes up, leaves out or adds (RpcFrameDecoder::push).
Untorn ==
  \A frame \in Range(initial) \cup Range(delivered) : frame = Announced(frame[1].msg)

\* The frame of the answer that ended the negotiation, if there was one.
Answer ==
  LET answers == {m \in 1 .. Len(messages) : messages[m].type = "negotiated"}
  IN IF answers = {} THEN {<<>>} ELSE {<<Announced(m)>> : m \in answers}

\* Until reading fails, what the process wrote is the ready frame, the frames
\* before the answer, the answer, the frames after it, the sequence being put
\* together and what is still in the pipe, in this order; and the frames handed
\* on are those before the answer and those after it. So nothing is lost,
\* repeated or reordered, at the hand-over from spawn to the reading task
\* either (initialize_rpc, read_stdout).
NothingLost ==
  phase \in {"reading", "eof"} =>
    LET later == SubSeq(delivered, Len(initial) + 1, Len(delivered))
    IN /\ delivered = initial \o later
       /\ \E answer \in Answer :
            written = <<written[1]>> \o FlattenSeq(initial \o answer \o later)
                        \o decoder.pending.lines \o stdout

\* The end of the output is reported as a plain end only if no message was
\* left unfinished: a process that dies inside a line or between two chunks is
\* reported as an error (read_stdout, is_reassembling, UnexpectedEof).
TruncationReported ==
  phase = "eof" =>
    \A line \in Range(written) : Range(Announced(line.msg)) \subseteq Range(written)

\* When the process has ended, reading comes to its end, whatever was left in
\* the pipe.
ReaderEnds == ~alive ~> phase \in Ended

============================================================================

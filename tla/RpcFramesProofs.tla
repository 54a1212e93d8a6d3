-------------------------- MODULE RpcFramesProofs --------------------------
(***************************************************************************)
(* Proofs about the reading half of a runtime (module RpcFrames), for any  *)
(* limits, any ways of cutting messages, any pipe and any faults of the    *)
(* process within the bounds.                                              *)
(*                                                                         *)
(* The inductive invariant follows each line: it is in the pipe, in the    *)
(* sequence being put together, which is the beginning of one message, or  *)
(* belongs to a message of which every announced line was written.  For    *)
(* NothingLost it also follows the order of the lines, through the startup *)
(* and the hand-over to the reading task.                                  *)
(***************************************************************************)
EXTENDS RpcFrames, SequenceTheorems, WellFoundedInduction, TLAPS

Chunks == [chunk_id : Nat, count : Nat, byte_length : Nat, next_index : Nat,
             bytes : Nat, lines : Seq(Line)]

Decoder == [pending : {None} \cup Chunks, max_reassembled_frame_bytes : Nat]

StateInv ==
  /\ messages \in Seq(Message) /\ Len(messages) <= MaxMessages
  /\ rest \in Seq(Line) /\ stdout \in Seq(Line) /\ written \in Seq(Line)
  /\ alive \in BOOLEAN /\ faults \in 0 .. MaxFaults
  /\ phase \in Starting \cup {"reading"} \cup Ended
  /\ limit \in Nat \ {0}
  /\ initial \in Seq(Seq(Line)) /\ delivered \in Seq(Seq(Line))
  /\ decoder \in Decoder

\* A line of a message that was begun.
Placed(line) ==
  /\ line.msg \in 1 .. Len(messages)
  /\ line.part \in 1 .. Len(messages[line.msg].shape.parts)
LinesInv ==
  /\ \A line \in Range(rest) : Placed(line)
  /\ \A line \in Range(written) : Placed(line)
  /\ Range(stdout) \subseteq Range(written)
  /\ \A m \in 1 .. Len(messages) : messages[m].type = "ready" => messages[m].frame # 0

\* A decoder whose sequence, if any, is the beginning of one chunked message.
GoodDecoder(d) ==
  d.pending # None =>
    LET s == d.pending
        shape == messages[s.chunk_id].shape
    IN /\ s \in Chunks
       /\ s.chunk_id \in 1 .. Len(messages)
       /\ shape.chunked /\ s.count = shape.count /\ s.byte_length = shape.declared
       /\ s.next_index = Len(s.lines)
       /\ s.next_index \in 1 .. s.count - 1 /\ s.next_index <= Len(shape.parts)
       /\ s.bytes <= s.byte_length /\ s.byte_length <= d.max_reassembled_frame_bytes
       /\ \A i \in 1 .. Len(s.lines) :
            /\ s.lines[i] = [msg |-> s.chunk_id, part |-> i, cut |-> FALSE]
            /\ s.lines[i] \in Range(written)

\* A frame that was handed on.
WholeFrame(frame) ==
  \E m \in 1 .. Len(messages) : frame = Announced(m) /\ 1 \in DOMAIN frame
FramesInv == \A frame \in Range(initial) \cup Range(delivered) : WholeFrame(frame)

\* Where a line that was written is, until reading fails.
AllWritten(m) == Range(Announced(m)) \subseteq Range(written)
AccountInv ==
  phase \notin {"error", "failed"} =>
    \A line \in Range(written) :
      \/ line \in Range(stdout)
      \/ line \in Range(decoder.pending.lines)
      \/ AllWritten(line.msg)
EndInv == phase = "eof" => ~alive /\ stdout = << >> /\ decoder.pending = None

ReaderInv == StateInv /\ LinesInv /\ GoodDecoder(decoder) /\ FramesInv /\ AccountInv /\ EndInv

-----------------------------------------------------------------------------
\* Sequences and the sets of their elements.

LEMMA RangeSeq ==
  ASSUME NEW S, NEW s \in Seq(S)
  PROVE  Range(s) = {s[i] : i \in 1 .. Len(s)} /\ Range(s) \subseteq S
BY DEF Range

LEMMA RangeAppend ==
  ASSUME NEW S, NEW s \in Seq(S), NEW e \in S
  PROVE  Append(s, e) \in Seq(S) /\ Range(Append(s, e)) = Range(s) \cup {e}
<1>1. /\ Append(s, e) \in Seq(S) /\ Len(Append(s, e)) = Len(s) + 1 /\ Len(s) \in Nat
      /\ \A i \in 1 .. Len(s) : Append(s, e)[i] = s[i]
      /\ Append(s, e)[Len(s) + 1] = e
  OBVIOUS
<1> DEFINE t == Append(s, e)
<1>2. Range(t) = {t[i] : i \in 1 .. Len(t)} /\ Range(s) = {s[i] : i \in 1 .. Len(s)}
  BY <1>1, RangeSeq
<1> HIDE DEF t
<1>3. \A i \in 1 .. Len(s) + 1 : i \in 1 .. Len(s) \/ i = Len(s) + 1
  BY <1>1
<1>4. t \in Seq(S) /\ Len(t) = Len(s) + 1 /\ (\A i \in 1 .. Len(s) : t[i] = s[i]) /\ t[Len(s) + 1] = e
  BY <1>1 DEF t
<1>5. Range(t) = Range(s) \cup {e}
  BY <1>1, <1>2, <1>3, <1>4
<1> QED BY <1>4, <1>5 DEF t

LEMMA RangeTail ==
  ASSUME NEW S, NEW s \in Seq(S), s # << >>
  PROVE  /\ Head(s) \in S /\ Tail(s) \in Seq(S)
         /\ Range(s) = {Head(s)} \cup Range(Tail(s))
<1> DEFINE t == Tail(s)
<1>1. /\ Head(s) = s[1] /\ s[1] \in S /\ t \in Seq(S) /\ Len(s) \in Nat /\ Len(s) >= 1
      /\ Len(t) = Len(s) - 1 /\ \A i \in 1 .. Len(s) - 1 : t[i] = s[i + 1]
  OBVIOUS
<1>2. Range(t) = {t[i] : i \in 1 .. Len(t)} /\ Range(s) = {s[i] : i \in 1 .. Len(s)}
  BY <1>1, RangeSeq
<1> HIDE DEF t
<1>3. \A i \in 1 .. Len(s) : i = 1 \/ (i - 1 \in 1 .. Len(s) - 1 /\ i = (i - 1) + 1)
  BY <1>1
<1>4. Range(s) = {s[1]} \cup Range(t)
  <2>1. ASSUME NEW i \in 1 .. Len(s) PROVE s[i] \in {s[1]} \cup Range(t)
    <3>1. CASE i = 1
      BY <3>1
    <3>2. CASE i # 1
      <4>1. i - 1 \in 1 .. Len(t) /\ t[i - 1] = s[(i - 1) + 1] /\ (i - 1) + 1 = i
        BY <1>1, <1>3, <3>2
      <4> QED BY <1>2, <4>1
    <3> QED BY <3>1, <3>2
  <2>2. ASSUME NEW i \in 1 .. Len(t) PROVE t[i] \in Range(s)
    <3>1. t[i] = s[i + 1] /\ i + 1 \in 1 .. Len(s)
      BY <1>1
    <3> QED BY <1>2, <3>1
  <2>3. s[1] \in Range(s)
    BY <1>1, <1>2
  <2> QED BY <1>2, <2>1, <2>2, <2>3
<1> QED BY <1>1, <1>4 DEF t

LEMMA RangeConcat ==
  ASSUME NEW S, NEW s \in Seq(S), NEW t \in Seq(S)
  PROVE  s \o t \in Seq(S) /\ Range(s \o t) \subseteq Range(s) \cup Range(t)
<1> DEFINE u == s \o t
<1>1. /\ u \in Seq(S) /\ Len(u) = Len(s) + Len(t) /\ Len(s) \in Nat /\ Len(t) \in Nat
      /\ \A i \in 1 .. Len(s) + Len(t) : u[i] = IF i <= Len(s) THEN s[i] ELSE t[i - Len(s)]
  BY ConcatProperties, LenProperties
<1> HIDE DEF u
<1>2. \A i \in 1 .. Len(s) + Len(t) : i \in 1 .. Len(s) \/ (~(i <= Len(s)) /\ i - Len(s) \in 1 .. Len(t))
  BY <1>1
<1>3. /\ Range(u) = {u[i] : i \in 1 .. Len(u)} /\ Range(s) = {s[i] : i \in 1 .. Len(s)}
      /\ Range(t) = {t[i] : i \in 1 .. Len(t)}
  BY <1>1, RangeSeq
<1>4. Range(u) \subseteq Range(s) \cup Range(t)
  <2> SUFFICES ASSUME NEW i \in 1 .. Len(s) + Len(t) PROVE u[i] \in Range(s) \cup Range(t)
    BY <1>1, <1>3
  <2>1. CASE i \in 1 .. Len(s)
    BY <1>1, <1>3, <2>1
  <2>2. CASE ~(i <= Len(s)) /\ i - Len(s) \in 1 .. Len(t)
    BY <1>1, <1>3, <2>2
  <2> QED BY <1>2, <2>1, <2>2
<1> QED BY <1>1, <1>4 DEF u

-----------------------------------------------------------------------------
\* Induction, in terms of sets.

LEMMA LeastNatural ==
  ASSUME NEW T \in SUBSET Nat, T # {}
  PROVE  \E x \in T : \A y \in T : x <= y
<1> DEFINE R == OpToRel(<, Nat)
<1>1. IsWellFoundedOn(R, Nat)
  BY NatLessThanWellFounded
<1>2. \A x, y \in Nat : x < y => << x, y >> \in R
  BY DEF OpToRel
<1> HIDE DEF R
<1>3. PICK x \in T : \A y \in T : ~ (<< y, x >> \in R)
  BY <1>1, WFMin
<1>4. \A y \in T : y \in Nat /\ x \in Nat /\ ~(y < x)
  BY <1>2, <1>3
<1>5. \A y \in T : x <= y
  BY <1>4
<1> QED BY <1>5

LEMMA SetInduction ==
  ASSUME NEW S, 0 \in S, \A n \in Nat : n \in S => n + 1 \in S
  PROVE  Nat \subseteq S
<1> DEFINE T == Nat \ S
<1> SUFFICES ASSUME T # {} PROVE FALSE
  OBVIOUS
<1>1. PICK x \in T : \A y \in T : x <= y
  BY LeastNatural
<1>2. x # 0 /\ x - 1 \in Nat /\ x - 1 \notin T
  BY <1>1
<1>3. (x - 1) + 1 \in S
  BY <1>2
<1> QED BY <1>1, <1>2, <1>3

-----------------------------------------------------------------------------
\* Sequences of frames, one after the other.

\* The function that FlattenSeq computes, as a predicate, and that it exists.
Flattening(g, d, n) ==
  g = [i \in 1 .. n |-> IF i = 1 THEN d[i] ELSE g[i - 1] \o d[i]]

LEMMA FlatteningExists ==
  ASSUME NEW d
  PROVE  \A n \in Nat : \E g : Flattening(g, d, n)
<1> DEFINE S == {n \in Nat : \E g : Flattening(g, d, n)}
<1>1. 0 \in S
  <2>1. PICK g : g = [i \in 1 .. 0 |-> IF i = 1 THEN d[i] ELSE << >>]
    OBVIOUS
  <2>2. 1 .. 0 = {}
    OBVIOUS
  <2>3. g = [i \in 1 .. 0 |-> IF i = 1 THEN d[i] ELSE g[i - 1] \o d[i]]
    BY <2>1, <2>2, Zenon
  <2>4. Flattening(g, d, 0)
    BY <2>3, Zenon DEF Flattening
  <2> QED BY <2>4
<1>2. ASSUME NEW n \in Nat, n \in S PROVE n + 1 \in S
  <2>1. PICK g : Flattening(g, d, n)
    BY <1>2
  <2>2. PICK h : h = [i \in 1 .. n + 1 |-> IF i = 1 THEN d[i] ELSE g[i - 1] \o d[i]]
    OBVIOUS
  <2>3. DOMAIN g = 1 .. n
        /\ \A i \in 1 .. n : g[i] = IF i = 1 THEN d[i] ELSE g[i - 1] \o d[i]
    BY <2>1, Zenon DEF Flattening
  <2>4. \A i \in 1 .. n + 1 : h[i] = IF i = 1 THEN d[i] ELSE g[i - 1] \o d[i]
    BY <2>2, Zenon
  <2>5. \A i \in 1 .. n : i \in 1 .. n + 1
    OBVIOUS
  <2>6. \A i \in 1 .. n : h[i] = g[i]
    BY <2>3, <2>4, <2>5, Zenon
  <2>7. ASSUME NEW i \in 1 .. n + 1
        PROVE  h[i] = IF i = 1 THEN d[i] ELSE h[i - 1] \o d[i]
    <3>1. i # 1 => i - 1 \in 1 .. n
      OBVIOUS
    <3>2. i # 1 => h[i - 1] = g[i - 1]
      BY <2>6, <3>1, Zenon
    <3> QED BY <2>4, <3>2, Zenon
  <2>8. h = [i \in 1 .. n + 1 |-> IF i = 1 THEN d[i] ELSE h[i - 1] \o d[i]]
    BY <2>2, <2>7, Zenon
  <2>9. Flattening(h, d, n + 1)
    BY <2>8, Zenon DEF Flattening
  <2> QED BY <2>9
<1>3. Nat \subseteq S
  <2> HIDE DEF S
  <2> QED BY <1>1, <1>2, SetInduction
<1> QED BY <1>3

\* So it is computed frame by frame.
LEMMA FlattenIs ==
  ASSUME NEW d, Len(d) \in Nat, Len(d) # 0
  PROVE  \E g : Flattening(g, d, Len(d)) /\ FlattenSeq(d) = g[Len(d)]
<1> DEFINE Good(h) == h = [i \in 1 .. Len(d) |-> IF i = 1 THEN d[i] ELSE h[i - 1] \o d[i]]
<1>1. \E g : Good(g)
  <2>1. PICK g : Flattening(g, d, Len(d))
    BY FlatteningExists
  <2>2. Good(g)
    BY <2>1, Zenon DEF Flattening
  <2> HIDE DEF Good
  <2> QED BY <2>2
<1>2. FlattenSeq(d) = (CHOOSE g : Good(g))[Len(d)]
  BY DEF FlattenSeq
<1>3. \A g : Good(g) <=> Flattening(g, d, Len(d))
  BY Zenon DEF Flattening
<1> HIDE DEF Good
<1>4. Good(CHOOSE g : Good(g))
  BY <1>1
<1> QED BY <1>2, <1>3, <1>4

Same(e, d, n) == \A i \in 1 .. n : e[i] = d[i]

\* The values do not depend on what comes later.
LEMMA FlattenPrefix ==
  ASSUME NEW S, NEW d \in Seq(Seq(S)), NEW e, NEW n \in Nat, NEW k \in Nat, n <= k, n <= Len(d),
         Same(e, d, n),
         NEW g, Flattening(g, d, n), NEW h, Flattening(h, e, k)
  PROVE  \A i \in 1 .. n : g[i] \in Seq(S) /\ h[i] = g[i]
<1> DEFINE T == {i \in Nat : i \in 1 .. n => g[i] \in Seq(S) /\ h[i] = g[i]}
<1>1. \A i \in 1 .. n : g[i] = IF i = 1 THEN d[i] ELSE g[i - 1] \o d[i]
  BY Zenon DEF Flattening
<1>2. \A i \in 1 .. k : h[i] = IF i = 1 THEN e[i] ELSE h[i - 1] \o e[i]
  BY Zenon DEF Flattening
<1>3. \A i \in 1 .. n : d[i] \in Seq(S) /\ i \in 1 .. k
  <2>1. Len(d) \in Nat /\ \A i \in 1 .. Len(d) : d[i] \in Seq(S)
    BY LenProperties
  <2> QED BY <2>1
<1>4. 0 \in T
  OBVIOUS
<1>5. ASSUME NEW i \in Nat, i \in T PROVE i + 1 \in T
  <2> SUFFICES ASSUME i + 1 \in 1 .. n PROVE g[i + 1] \in Seq(S) /\ h[i + 1] = g[i + 1]
    OBVIOUS
  <2>1. CASE i = 0
    <3>1. i + 1 = 1 /\ 1 \in 1 .. n
      BY <2>1
    <3>2. g[1] = d[1] /\ h[1] = e[1] /\ e[1] = d[1] /\ d[1] \in Seq(S)
      BY <1>1, <1>2, <1>3, <3>1, Zenon DEF Same
    <3> QED BY <3>1, <3>2
  <2>2. CASE i # 0
    <3>1. i + 1 # 1 /\ (i + 1) - 1 = i /\ i \in 1 .. n
      BY <2>2
    <3>2. PICK j : j = i + 1
      OBVIOUS
    <3>3. j # 1 /\ j - 1 = i /\ j \in 1 .. n
      BY <3>1, <3>2
    <3>4. g[j] = g[i] \o d[j] /\ h[j] = h[i] \o e[j] /\ e[j] = d[j] /\ d[j] \in Seq(S)
      BY <1>1, <1>2, <1>3, <3>3, Zenon DEF Same
    <3>5. g[i] \in Seq(S) /\ h[i] = g[i]
      BY <1>5, <3>1
    <3>6. g[i] \o d[j] \in Seq(S)
      BY <3>4, <3>5, ConcatProperties
    <3> QED BY <3>2, <3>4, <3>5, <3>6
  <2> QED BY <2>1, <2>2
<1>6. Nat \subseteq T
  <2> HIDE DEF T
  <2> QED BY <1>4, <1>5, SetInduction
<1> QED BY <1>6

LEMMA FlattenEmpty == FlattenSeq(<< >>) = << >>
BY DEF FlattenSeq

\* One more frame goes to the end.
LEMMA FlattenAppend ==
  ASSUME NEW S, NEW d \in Seq(Seq(S)), NEW f \in Seq(S)
  PROVE  /\ FlattenSeq(d) \in Seq(S)
         /\ FlattenSeq(Append(d, f)) = FlattenSeq(d) \o f
<1> DEFINE e == Append(d, f)
<1>1. PICK n : n = Len(d)
  OBVIOUS
<1>2. /\ n \in Nat /\ e \in Seq(Seq(S)) /\ Len(e) = n + 1
      /\ (\A i \in 1 .. n : e[i] = d[i]) /\ e[n + 1] = f
  BY <1>1, AppendProperties
<1> HIDE DEF e
<1>3. PICK h : Flattening(h, e, n + 1) /\ FlattenSeq(e) = h[n + 1]
  <2>1. Len(e) \in Nat /\ Len(e) # 0
    BY <1>2
  <2>2. PICK h : Flattening(h, e, Len(e)) /\ FlattenSeq(e) = h[Len(e)]
    BY <2>1, FlattenIs
  <2> QED BY <1>2, <2>2
<1>4. \A i \in 1 .. n + 1 : h[i] = IF i = 1 THEN e[i] ELSE h[i - 1] \o e[i]
  BY <1>3, Zenon DEF Flattening
<1>5. CASE n = 0
  <2>1. d = << >>
    BY <1>1, <1>5, EmptySeq
  <2>2. FlattenSeq(d) = << >> /\ << >> \in Seq(S)
    BY <2>1, FlattenEmpty
  <2>3. n + 1 = 1 /\ 1 \in 1 .. n + 1
    BY <1>5
  <2>4. h[1] = e[1]
    BY <1>4, <2>3, Zenon
  <2>5. FlattenSeq(e) = f
    BY <1>2, <1>3, <2>3, <2>4
  <2>6. << >> \o f = f
    BY ConcatEmptySeq
  <2> QED BY <2>2, <2>5, <2>6 DEF e
<1>6. CASE n # 0
  <2>1. PICK g : Flattening(g, d, n) /\ FlattenSeq(d) = g[n]
    BY <1>1, <1>2, <1>6, FlattenIs
  <2>2. n \in 1 .. n /\ n <= n + 1 /\ n <= Len(d) /\ n + 1 \in Nat
    BY <1>1, <1>2, <1>6
  <2>3. \A i \in 1 .. n : g[i] \in Seq(S) /\ h[i] = g[i]
    <3>1. PICK k \in Nat : k = n + 1
      BY <2>2
    <3>2. n <= k /\ Flattening(h, e, k)
      BY <1>3, <2>2, <3>1
    <3>3. Same(e, d, n)
      BY <1>2 DEF Same
    <3>4. Flattening(g, d, n) /\ n <= Len(d) /\ n \in Nat
      BY <1>2, <2>1, <2>2
    <3> QED BY <3>2, <3>3, <3>4, FlattenPrefix
  <2>4. g[n] \in Seq(S) /\ h[n] = g[n]
    BY <2>2, <2>3
  <2>5. PICK j : j = n + 1
    OBVIOUS
  <2>6. j # 1 /\ j - 1 = n /\ j \in 1 .. n + 1
    BY <1>2, <1>6, <2>5
  <2>7. h[j] = h[n] \o e[j]
    BY <1>4, <2>6, Zenon
  <2>8. FlattenSeq(e) = g[n] \o f
    BY <1>2, <1>3, <2>4, <2>5, <2>7
  <2> QED BY <2>1, <2>4, <2>8 DEF e
<1> QED BY <1>5, <1>6

\* What was written: a line r, the frames, one after the other, and the rest.
Order(w, frames, p, s) ==
  \E r \in Line : w = << r >> \o FlattenSeq(frames) \o p \o s

\* A line is written.
LEMMA OrderWrite ==
  ASSUME NEW w, NEW frames \in Seq(Seq(Line)), NEW p \in Seq(Line), NEW s \in Seq(Line),
         NEW line \in Line, w \in Seq(Line), Order(w, frames, p, s)
  PROVE  Order(Append(w, line), frames, p, Append(s, line))
<1>1. PICK r \in Line : w = << r >> \o FlattenSeq(frames) \o p \o s
  BY DEF Order
<1>2. PICK a : a = << r >> \o FlattenSeq(frames) \o p
  OBVIOUS
<1>3. a \in Seq(Line)
  <2>1. FlattenSeq(frames) \in Seq(Line) /\ << r >> \in Seq(Line)
    BY FlattenAppend
  <2>2. << r >> \o FlattenSeq(frames) \in Seq(Line)
    BY <2>1, ConcatProperties
  <2> QED BY <1>2, <2>2, ConcatProperties
<1>4. << line >> \in Seq(Line)
  OBVIOUS
<1>5. Append(w, line) = w \o << line >> /\ Append(s, line) = s \o << line >>
  BY AppendIsConcat
<1>6. (a \o s) \o << line >> = a \o (s \o << line >>)
  BY <1>3, <1>4, ConcatAssociative
<1>7. Append(w, line) = a \o Append(s, line)
  BY <1>1, <1>2, <1>5, <1>6
<1> QED BY <1>2, <1>7 DEF Order

LEMMA Regrouped ==
  \A x, y, z \in Seq(Line) : (x \o y) \o z = x \o (y \o z)
<1> SUFFICES ASSUME NEW x \in Seq(Line), NEW y \in Seq(Line), NEW z \in Seq(Line)
             PROVE  (x \o y) \o z = x \o (y \o z)
  BY Zenon
<1> QED BY ConcatAssociative, SMTT(60)

\* A line goes from the pipe to the end of the sequence.
LEMMA OrderChunk ==
  ASSUME NEW w, NEW frames \in Seq(Seq(Line)), NEW p \in Seq(Line), NEW s \in Seq(Line),
         s # << >>, Order(w, frames, p, s)
  PROVE  Order(w, frames, Append(p, Head(s)), Tail(s))
<1>1. PICK r \in Line : w = << r >> \o FlattenSeq(frames) \o p \o s
  BY DEF Order
<1>2. PICK a : a = << r >> \o FlattenSeq(frames)
  OBVIOUS
<1>3. a \in Seq(Line)
  <2>1. FlattenSeq(frames) \in Seq(Line) /\ << r >> \in Seq(Line)
    BY FlattenAppend
  <2> QED BY <1>2, <2>1, ConcatProperties
<1>4. PICK line \in Line, t \in Seq(Line) : line = Head(s) /\ t = Tail(s) /\ s = << line >> \o t
  <2>1. Head(s) \in Line /\ Tail(s) \in Seq(Line)
    BY HeadTailProperties
  <2>2. s = << Head(s) >> \o Tail(s)
    OBVIOUS
  <2> QED BY <2>1, <2>2
<1>5. << line >> \in Seq(Line) /\ a \o p \in Seq(Line)
  BY <1>3, ConcatProperties
<1>6. PICK l \in Seq(Line) : l = << line >>
  BY <1>5
<1>7. (a \o p) \o (l \o t) = (a \o (p \o l)) \o t
  <2>1. a \in Seq(Line) /\ p \in Seq(Line) /\ l \in Seq(Line) /\ t \in Seq(Line)
    BY <1>3
  <2>2. PICK b \in Seq(Line) : b = a \o p
    BY <2>1, ConcatProperties
  <2>3. (b \o l) \o t = b \o (l \o t)
    BY <2>1, Regrouped, Zenon
  <2>4. (a \o p) \o l = a \o (p \o l)
    BY <1>3, Regrouped, Zenon
  <2> QED BY <2>2, <2>3, <2>4
<1>8. Append(p, line) = p \o << line >>
  BY AppendIsConcat
<1>9. w = (a \o Append(p, line)) \o t
  BY <1>1, <1>2, <1>4, <1>6, <1>7, <1>8
<1> QED BY <1>2, <1>4, <1>9 DEF Order

\* The sequence becomes a frame.
LEMMA OrderFrame ==
  ASSUME NEW w, NEW frames \in Seq(Seq(Line)), NEW p \in Seq(Line), NEW s \in Seq(Line),
         Order(w, frames, p, s)
  PROVE  Order(w, Append(frames, p), << >>, s)
<1>1. PICK r \in Line : w = << r >> \o FlattenSeq(frames) \o p \o s
  BY DEF Order
<1>2. FlattenSeq(frames) \in Seq(Line) /\ << r >> \in Seq(Line)
  BY FlattenAppend
<1>3. FlattenSeq(Append(frames, p)) = FlattenSeq(frames) \o p
  BY FlattenAppend
<1>4. PICK f : f = FlattenSeq(frames)
  OBVIOUS
<1>5. (<< r >> \o f) \o p = << r >> \o (f \o p)
  BY <1>2, <1>4, ConcatAssociative
<1>6. << r >> \o (f \o p) \in Seq(Line)
  <2>1. f \o p \in Seq(Line)
    BY <1>2, <1>4, ConcatProperties
  <2> QED BY <1>2, <2>1, ConcatProperties
<1>7. (<< r >> \o (f \o p)) \o << >> = << r >> \o (f \o p)
  BY <1>6, ConcatEmptySeq
<1>8. w = << r >> \o FlattenSeq(Append(frames, p)) \o << >> \o s
  BY <1>1, <1>3, <1>4, <1>5, <1>7
<1> QED BY <1>8 DEF Order

\* The line at the beginning.
LEMMA OrderFirst ==
  ASSUME NEW w, NEW frames \in Seq(Seq(Line)), NEW p \in Seq(Line), NEW s \in Seq(Line),
         Order(w, frames, p, s)
  PROVE  w = << w[1] >> \o FlattenSeq(frames) \o p \o s
<1>1. PICK r \in Line : w = << r >> \o FlattenSeq(frames) \o p \o s
  BY DEF Order
<1>2. PICK f \in Seq(Line) : f = FlattenSeq(frames)
  BY FlattenAppend
<1>3. << r >> \in Seq(Line) /\ Len(<< r >>) = 1 /\ << r >>[1] = r
  OBVIOUS
<1>4. PICK a \in Seq(Line) : a = << r >> \o f /\ Len(a) >= 1 /\ a[1] = r
  <2>1. PICK c : c = << r >> \o f
    OBVIOUS
  <2>2. c \in Seq(Line) /\ Len(c) = 1 + Len(f) /\ Len(f) \in Nat
    BY <1>3, <2>1, ConcatProperties, LenProperties
  <2>3. c[1] = r
    BY <1>3, <2>1, <2>2, ConcatProperties
  <2>4. Len(c) >= 1
    BY <2>2
  <2> QED BY <2>1, <2>2, <2>3, <2>4
<1>5. PICK b \in Seq(Line) : b = a \o p /\ Len(b) >= 1 /\ b[1] = r
  <2>1. PICK c : c = a \o p
    OBVIOUS
  <2>2. c \in Seq(Line) /\ Len(c) = Len(a) + Len(p) /\ Len(a) \in Nat /\ Len(p) \in Nat
    BY <2>1, ConcatProperties, LenProperties
  <2>3. 1 \in 1 .. Len(a) + Len(p) /\ 1 <= Len(a) /\ Len(c) >= 1
    BY <1>4, <2>2
  <2>4. c[1] = r
    BY <1>4, <2>1, <2>3, ConcatProperties
  <2> QED BY <2>1, <2>2, <2>3, <2>4
<1>6. (b \o s)[1] = r
  <2>1. Len(b) \in Nat /\ Len(s) \in Nat
    BY LenProperties
  <2>2. 1 \in 1 .. Len(b) + Len(s) /\ 1 <= Len(b)
    BY <1>5, <2>1
  <2> QED BY <1>5, <2>2, ConcatProperties
<1>7. w = b \o s
  BY <1>1, <1>2, <1>4, <1>5
<1>8. w[1] = r
  BY <1>6, <1>7
<1> QED BY <1>1, <1>8

-----------------------------------------------------------------------------
\* Messages and their lines.

LEMMA MessageFacts ==
  ASSUME StateInv, NEW m \in 1 .. Len(messages)
  PROVE  LET shape == messages[m].shape
         IN /\ messages[m] \in Message /\ shape \in Shapes
            /\ shape.chunked \in BOOLEAN /\ shape.count \in Nat /\ shape.declared \in Nat
            /\ shape.parts \in Seq(Nat) /\ Len(shape.parts) \in Nat \ {0}
            /\ ~shape.chunked => Len(shape.parts) = 1
            /\ messages[m].reassembled \in Nat /\ messages[m].frame \in Nat
<1>1. messages[m] \in Message
  BY DEF StateInv
<1>2. messages[m].shape \in Shapes
  BY <1>1 DEF Message
<1> DEFINE shape == messages[m].shape
<1>3. /\ shape.chunked \in BOOLEAN /\ shape.count \in Nat /\ shape.declared \in Nat
      /\ shape.parts \in Seq(Nat) /\ shape.parts # << >>
      /\ ~shape.chunked => Len(shape.parts) = 1
  BY <1>2, ShapesAssumption
<1>4. Len(shape.parts) \in Nat \ {0}
  BY <1>3, EmptySeq
<1> QED BY <1>1, <1>2, <1>3, <1>4 DEF Message

LEMMA LinesOfFacts ==
  ASSUME NEW m, NEW shape \in Shapes
  PROVE  /\ DOMAIN LinesOf(m, shape) = 1 .. Len(shape.parts)
         /\ \A i \in 1 .. Len(shape.parts) :
              LinesOf(m, shape)[i] = [msg |-> m, part |-> i, cut |-> FALSE]
         /\ m \in 1 .. MaxMessages => LinesOf(m, shape) \in Seq(Line)
<1>1. Len(shape.parts) \in Nat
  <2>1. shape.parts \in Seq(Nat)
    BY ShapesAssumption
  <2> QED BY <2>1, LenProperties
<1>2. /\ DOMAIN LinesOf(m, shape) = 1 .. Len(shape.parts)
      /\ \A i \in 1 .. Len(shape.parts) :
           LinesOf(m, shape)[i] = [msg |-> m, part |-> i, cut |-> FALSE]
  BY DEF LinesOf
<1>3. ASSUME m \in 1 .. MaxMessages PROVE LinesOf(m, shape) \in Seq(Line)
  <2>1. LinesOf(m, shape) \in [1 .. Len(shape.parts) -> Line]
    BY <1>1, <1>3 DEF LinesOf, Line
  <2> QED BY <1>1, <2>1, SeqDef
<1> QED BY <1>2, <1>3

LEMMA AnnouncedFacts ==
  ASSUME StateInv, NEW m \in 1 .. Len(messages)
  PROVE  LET shape == messages[m].shape
         IN /\ DOMAIN Announced(m) =
                 {j \in 1 .. Len(shape.parts) : shape.chunked => j <= shape.count}
            /\ \A i \in DOMAIN Announced(m) :
                 Announced(m)[i] = [msg |-> m, part |-> i, cut |-> FALSE]
<1>1. messages[m].shape \in Shapes
  BY MessageFacts
<1> QED BY <1>1, LinesOfFacts DEF Announced

-----------------------------------------------------------------------------
\* What an accepted line makes of the decoder.

LEMMA NoneFacts == None.lines = << >> /\ Range(None.lines) = {} /\ None \notin Chunks
<1>1. None.lines = << >>
  BY DEF None
<1>2. DOMAIN None = {"lines"}
  BY DEF None
<1>3. \A s \in Chunks : "count" \in DOMAIN s
  BY DEF Chunks
<1>4. None \notin Chunks
  BY <1>2, <1>3
<1> QED BY <1>1, <1>4 DEF Range

\* A whole line by itself is a whole message.
LEMMA AcceptedWhole ==
  ASSUME StateInv, NEW line \in Line, Placed(line), line \in Range(written),
         Accepts(line), ~Shape(line).chunked
  PROVE  /\ Complete(line) /\ decoder.pending = None
         /\ Pushed(line) \in Decoder /\ Pushed(line).pending = None
         /\ Frame(line) \in Seq(Line) /\ WholeFrame(Frame(line))
         /\ AllWritten(line.msg)
<1>1. line.msg \in 1 .. Len(messages)
  BY DEF Placed
<1> DEFINE m == line.msg
<1>2. Len(messages[m].shape.parts) = 1 /\ ~messages[m].shape.chunked
  BY <1>1, MessageFacts DEF Shape
<1>3. line.part = 1 /\ line.cut = FALSE
  <2>1. line.part = 1
    BY <1>2 DEF Placed
  <2>2. line.cut \in BOOLEAN /\ ~line.cut
    BY DEF Line, Accepts, Unreadable
  <2> QED BY <2>1, <2>2
<1>4. line = [msg |-> m, part |-> 1, cut |-> FALSE]
  BY <1>3 DEF Line
<1>5. DOMAIN Announced(m) = {1} /\ Announced(m)[1] = line
  <2>1. DOMAIN Announced(m) = 1 .. 1
    BY <1>1, <1>2, AnnouncedFacts
  <2>2. 1 .. 1 = {1}
    OBVIOUS
  <2>3. 1 \in DOMAIN Announced(m)
    BY <2>1, <2>2
  <2>4. Announced(m)[1] = [msg |-> m, part |-> 1, cut |-> FALSE]
    BY <1>1, <2>3, AnnouncedFacts
  <2> QED BY <1>4, <2>1, <2>2, <2>4
<1>6. Frame(line) = << line >> /\ << line >> \in Seq(Line)
  BY DEF Frame
<1>7. << line >> = Announced(m)
  <2>1. Announced(m) = [i \in {1} |-> line]
    BY <1>5 DEF Announced
  <2>2. << line >> = [i \in 1 .. 1 |-> line]
    OBVIOUS
  <2> QED BY <2>1, <2>2
<1>8. WholeFrame(Frame(line))
  <2>1. 1 \in DOMAIN << line >>
    OBVIOUS
  <2> QED BY <1>1, <1>6, <1>7, <2>1 DEF WholeFrame
<1>9. AllWritten(m)
  BY <1>5 DEF AllWritten, Range
<1>10. decoder.pending = None /\ decoder \in Decoder
  BY DEF Accepts, StateInv
<1>11. Pushed(line) \in Decoder /\ Pushed(line).pending = None
  <2> DEFINE r == IF Type(line) \in {"ready", "legacy"} THEN Limits(line).reassembled
                  ELSE decoder.max_reassembled_frame_bytes
  <2>1. Limits(line).reassembled \in Nat
    <3>1. messages[m].reassembled \in Nat
      BY <1>1, MessageFacts
    <3> QED BY <3>1, LimitsAssumption DEF Limits
  <2>2. r \in Nat
    BY <1>10, <2>1 DEF Decoder
  <2>3. Pushed(line) = [decoder EXCEPT !.max_reassembled_frame_bytes = r]
    BY DEF Pushed
  <2> HIDE DEF r
  <2> QED BY <1>10, <2>2, <2>3 DEF Decoder
<1> QED BY <1>6, <1>8, <1>9, <1>10, <1>11 DEF Complete

\* A chunk goes to the end of the sequence it belongs to.
LEMMA AcceptedChunk ==
  ASSUME StateInv, GoodDecoder(decoder), NEW line \in Line, Placed(line), line \in Range(written),
         Accepts(line), Shape(line).chunked
  PROVE  LET s == Appended(line)
         IN /\ s \in Chunks /\ s.chunk_id = line.msg
            /\ s.count = Shape(line).count /\ s.byte_length = Shape(line).declared
            /\ s.next_index = line.part /\ Len(s.lines) = line.part
            /\ line.part <= s.count /\ 2 <= s.count
            /\ s.bytes <= s.byte_length /\ s.byte_length <= decoder.max_reassembled_frame_bytes
            /\ \A i \in 1 .. Len(s.lines) :
                 /\ s.lines[i] = [msg |-> line.msg, part |-> i, cut |-> FALSE]
                 /\ s.lines[i] \in Range(written)
            /\ Range(s.lines) = Range(decoder.pending.lines) \cup {line}
            /\ \A l \in Range(decoder.pending.lines) : l.msg = line.msg
<1> DEFINE b == Pending(line)
           m == line.msg
           n == b.next_index
           ls == b.lines
<1>1. m \in 1 .. Len(messages) /\ line.part \in Nat \ {0} /\ m \in Nat
  BY DEF Placed, Line, StateInv
<1>2. /\ Shape(line).count \in Nat /\ Shape(line).declared \in Nat
      /\ Shape(line).parts \in Seq(Nat)
  BY <1>1, MessageFacts DEF Shape
<1>3. Payload(line) \in Nat
  <2>1. line.part \in 1 .. Len(Shape(line).parts)
    BY DEF Placed, Shape
  <2> QED BY <1>2, <2>1, ElementOfSeq DEF Payload
<1>4. /\ b \in Chunks /\ n = Len(ls)
      /\ \A i \in 1 .. Len(ls) :
           /\ ls[i] = [msg |-> b.chunk_id, part |-> i, cut |-> FALSE]
           /\ ls[i] \in Range(written)
      /\ Range(ls) = Range(decoder.pending.lines)
  <2>1. CASE decoder.pending # None
    <3>1. b = decoder.pending
      BY <2>1 DEF Pending
    <3> HIDE DEF b
    <3> QED BY <2>1, <3>1 DEF GoodDecoder
  <2>2. CASE decoder.pending = None
    <3>1. b = [chunk_id |-> m, count |-> Shape(line).count, byte_length |-> Shape(line).declared,
               next_index |-> 0, bytes |-> 0, lines |-> << >>]
      BY <2>2 DEF Pending
    <3> HIDE DEF b
    <3>2. << >> \in Seq(Line) /\ Len(<< >>) = 0
      OBVIOUS
    <3>3. b \in Chunks
      BY <1>1, <1>2, <3>1, <3>2 DEF Chunks
    <3>4. ls = << >> /\ n = 0
      BY <3>1
    <3>5. Range(ls) = {}
      BY <3>4 DEF Range
    <3> QED BY <2>2, <3>2, <3>3, <3>4, <3>5, NoneFacts
  <2> QED BY <2>1, <2>2
<1>5. /\ b.chunk_id = m /\ b.count = Shape(line).count /\ b.byte_length = Shape(line).declared
      /\ n = line.part - 1
  BY DEF Accepts, InSequence
<1>6. line = [msg |-> m, part |-> n + 1, cut |-> FALSE]
  <2>1. line.cut \in BOOLEAN /\ ~line.cut
    BY DEF Line, Accepts, Unreadable
  <2>2. line.part = n + 1
    BY <1>1, <1>5
  <2> QED BY <2>1, <2>2 DEF Line
<1>7. line.part <= Shape(line).count /\ 2 <= Shape(line).count
  BY <1>1, <1>2, LimitsAssumption DEF Accepts, Parses
<1>8. Appended(line) = [b EXCEPT !.next_index = n + 1, !.bytes = b.bytes + Payload(line),
                                 !.lines = Append(ls, line)]
  BY DEF Appended
<1> HIDE DEF b
<1>9. n \in Nat /\ ls \in Seq(Line) /\ b.bytes + Payload(line) \in Nat
  BY <1>3, <1>4 DEF Chunks
<1> DEFINE s == Appended(line)
           ls2 == Append(ls, line)
<1>10. /\ ls2 \in Seq(Line) /\ Range(ls2) = Range(ls) \cup {line} /\ Len(ls2) = n + 1
       /\ \A i \in 1 .. n : ls2[i] = ls[i]
       /\ ls2[n + 1] = line
  <2>1. ls2 \in Seq(Line) /\ Range(ls2) = Range(ls) \cup {line}
    BY <1>9, RangeAppend
  <2>2. Len(ls2) = n + 1 /\ (\A i \in 1 .. n : ls2[i] = ls[i]) /\ ls2[n + 1] = line
    BY <1>4, <1>9
  <2> QED BY <2>1, <2>2
<1> DEFINE k == n + 1
           bytes == b.bytes + Payload(line)
<1>11. s = [b EXCEPT !.next_index = k, !.bytes = bytes, !.lines = ls2]
  BY <1>8
<1> HIDE DEF ls2, s
<1>12. /\ s \in Chunks /\ s.chunk_id = m /\ s.count = b.count /\ s.byte_length = b.byte_length
       /\ s.next_index = n + 1 /\ s.lines = ls2
  <2>1. k \in Nat /\ bytes \in Nat /\ ls2 \in Seq(Line) /\ b \in Chunks
    BY <1>4, <1>9, <1>10
  <2>2. k = n + 1
    OBVIOUS
  <2> HIDE DEF k, bytes
  <2>3. /\ s \in Chunks /\ s.chunk_id = b.chunk_id /\ s.count = b.count
        /\ s.byte_length = b.byte_length /\ s.next_index = k /\ s.lines = ls2
    BY <1>11, <2>1 DEF Chunks
  <2> QED BY <1>5, <2>2, <2>3
<1>13. s.bytes <= Shape(line).declared
       /\ Shape(line).declared <= decoder.max_reassembled_frame_bytes
  BY DEF Accepts, WithinLengths, s
<1>14. \A i \in 1 .. Len(ls2) :
         /\ ls2[i] = [msg |-> m, part |-> i, cut |-> FALSE]
         /\ ls2[i] \in Range(written)
  <2> SUFFICES ASSUME NEW i \in 1 .. Len(ls2)
               PROVE  /\ ls2[i] = [msg |-> m, part |-> i, cut |-> FALSE]
                      /\ ls2[i] \in Range(written)
    OBVIOUS
  <2>1. CASE i = n + 1
    BY <1>6, <1>10, <2>1
  <2>2. CASE i # n + 1
    <3>1. i \in 1 .. n
      BY <1>9, <1>10, <2>2
    <3> QED BY <1>4, <1>5, <1>10, <3>1
  <2> QED BY <2>1, <2>2
<1>15. \A l \in Range(decoder.pending.lines) : l.msg = m
  <2>1. Range(ls) = {ls[i] : i \in 1 .. Len(ls)}
    BY <1>9, RangeSeq
  <2> SUFFICES ASSUME NEW l \in Range(ls) PROVE l.msg = m
    BY <1>4
  <2>2. PICK i \in 1 .. Len(ls) : l = ls[i]
    BY <2>1
  <2>3. l = [msg |-> b.chunk_id, part |-> i, cut |-> FALSE]
    BY <1>4, <2>2
  <2>4. l.msg = b.chunk_id
    BY <2>3
  <2> QED BY <1>5, <2>4
<1>16. n + 1 = line.part
  BY <1>1, <1>5
<1> QED BY <1>4, <1>5, <1>7, <1>10, <1>12, <1>13, <1>14, <1>15, <1>16 DEF s

LEMMA Accepted ==
  ASSUME StateInv, GoodDecoder(decoder), NEW line \in Line, Placed(line), line \in Range(written),
         Accepts(line)
  PROVE  /\ Pushed(line) \in Decoder /\ GoodDecoder(Pushed(line))
         /\ Complete(line) => Frame(line) \in Seq(Line) /\ WholeFrame(Frame(line))
         /\ \A l \in {line} \cup Range(decoder.pending.lines) :
              l \in Range(Pushed(line).pending.lines) \/ AllWritten(l.msg)
<1>1. CASE ~Shape(line).chunked
  BY <1>1, AcceptedWhole, NoneFacts DEF GoodDecoder
<1>2. CASE Shape(line).chunked
  <2> DEFINE s == Appended(line)
             m == line.msg
             shape == messages[m].shape
  <2>1. /\ s \in Chunks /\ s.chunk_id = m /\ s.count = shape.count /\ s.byte_length = shape.declared
        /\ s.next_index = line.part /\ Len(s.lines) = line.part
        /\ line.part <= s.count /\ 2 <= s.count
        /\ s.bytes <= s.byte_length /\ s.byte_length <= decoder.max_reassembled_frame_bytes
        /\ \A i \in 1 .. Len(s.lines) :
             /\ s.lines[i] = [msg |-> m, part |-> i, cut |-> FALSE]
             /\ s.lines[i] \in Range(written)
        /\ Range(s.lines) = Range(decoder.pending.lines) \cup {line}
        /\ \A l \in Range(decoder.pending.lines) : l.msg = m
    BY <1>2, AcceptedChunk DEF Shape
  <2>2. /\ m \in 1 .. Len(messages) /\ line.part \in 1 .. Len(shape.parts)
        /\ shape.chunked /\ shape.count \in Nat /\ Len(shape.parts) \in Nat
    BY <1>2, MessageFacts DEF Placed, Shape
  <2>3. Complete(line) <=> line.part >= shape.count
    BY <1>2, <2>1 DEF Complete, Shape
  <2>4. decoder \in Decoder
    BY DEF StateInv
  <2>5. Frame(line) = s.lines /\ s.lines \in Seq(Line)
    BY <1>2, <2>1 DEF Frame, Chunks
  <2>6. CASE Complete(line)
    <3>1. Pushed(line) = [decoder EXCEPT !.pending = None]
      BY <1>2, <2>6 DEF Pushed
    <3>2. Pushed(line) \in Decoder /\ Pushed(line).pending = None
      BY <2>4, <3>1 DEF Decoder
    <3> HIDE DEF s
    <3>3. line.part = shape.count
      BY <2>1, <2>2, <2>3, <2>6
    <3>4. DOMAIN Announced(m) = 1 .. shape.count
      <4>1. DOMAIN Announced(m) = {j \in 1 .. Len(shape.parts) : j <= shape.count}
        BY <2>2, AnnouncedFacts
      <4> QED BY <2>2, <3>3, <4>1
    <3>5. \A i \in 1 .. shape.count : Announced(m)[i] = [msg |-> m, part |-> i, cut |-> FALSE]
      BY <2>2, <3>4, AnnouncedFacts
    <3>6. DOMAIN s.lines = 1 .. shape.count
      BY <2>1, <2>5, <3>3
    <3>7. s.lines = Announced(m)
      <4>1. s.lines = [i \in 1 .. shape.count |-> s.lines[i]]
        <5>1. s.lines \in [1 .. shape.count -> Line]
          BY <2>1, <2>5, <3>3, LenProperties
        <5> QED BY <5>1
      <4>2. Announced(m) = [i \in 1 .. shape.count |-> Announced(m)[i]]
        BY <3>4 DEF Announced
      <4>3. \A i \in 1 .. shape.count : s.lines[i] = Announced(m)[i]
        BY <2>1, <3>3, <3>5
      <4> QED BY <4>1, <4>2, <4>3
    <3>8. 1 \in DOMAIN s.lines
      BY <2>1, <2>2, <3>6
    <3>9. WholeFrame(Frame(line))
      BY <2>2, <2>5, <3>7, <3>8 DEF WholeFrame
    <3>10. AllWritten(m)
      <4>1. Range(s.lines) = {s.lines[i] : i \in 1 .. Len(s.lines)}
        BY <2>5, RangeSeq
      <4>2. \A i \in 1 .. Len(s.lines) : s.lines[i] \in Range(written)
        BY <2>1
      <4>3. Range(s.lines) \subseteq Range(written)
        BY <4>1, <4>2
      <4> QED BY <3>7, <4>3 DEF AllWritten
    <3> QED BY <2>1, <2>5, <3>2, <3>9, <3>10 DEF GoodDecoder
  <2>7. CASE ~Complete(line)
    <3>1. Pushed(line) = [decoder EXCEPT !.pending = s]
      BY <1>2, <2>7 DEF Pushed
    <3> HIDE DEF s
    <3>2. /\ Pushed(line) \in Decoder /\ Pushed(line).pending = s
          /\ Pushed(line).max_reassembled_frame_bytes = decoder.max_reassembled_frame_bytes
      BY <2>1, <2>4, <3>1 DEF Decoder
    <3>3. line.part \in 1 .. s.count - 1
      BY <2>1, <2>2, <2>3, <2>7
    <3>4. GoodDecoder(Pushed(line))
      <4> DEFINE d == Pushed(line)
      <4>1. /\ d.pending = s /\ d.max_reassembled_frame_bytes = decoder.max_reassembled_frame_bytes
        BY <3>2
      <4> HIDE DEF d
      <4>2. /\ s.chunk_id \in 1 .. Len(messages) /\ messages[s.chunk_id].shape = shape
            /\ s.next_index \in 1 .. s.count - 1 /\ s.next_index <= Len(shape.parts)
        BY <2>1, <2>2, <3>3
      <4>3. \A i \in 1 .. Len(s.lines) :
              /\ s.lines[i] = [msg |-> s.chunk_id, part |-> i, cut |-> FALSE]
              /\ s.lines[i] \in Range(written)
        BY <2>1
      <4>4. GoodDecoder(d)
        BY <2>1, <2>2, <4>1, <4>2, <4>3 DEF GoodDecoder
      <4> QED BY <4>4 DEF d
    <3> QED BY <2>1, <2>7, <3>2, <3>4
  <2> QED BY <2>6, <2>7
<1> QED BY <1>1, <1>2

-----------------------------------------------------------------------------
\* What the process does later takes nothing back.

LEMMA Kept ==
  ASSUME StateInv, Len(messages) \in Nat, Len(messages') \in Nat, Len(messages) <= Len(messages'),
         \A i \in 1 .. Len(messages) : messages'[i] = messages[i],
         Range(written) \subseteq Range(written')
  PROVE  /\ \A m \in 1 .. Len(messages) : m \in 1 .. Len(messages') /\ Announced(m)' = Announced(m)
         /\ \A m \in 1 .. Len(messages) : AllWritten(m) => AllWritten(m)'
         /\ \A frame : WholeFrame(frame) => WholeFrame(frame)'
         /\ \A line : Placed(line) => Placed(line)'
         /\ \A d : GoodDecoder(d) => GoodDecoder(d)'
<1>1. \A m \in 1 .. Len(messages) : m \in 1 .. Len(messages')
  OBVIOUS
<1>2. \A m \in 1 .. Len(messages) : Announced(m)' = Announced(m)
  BY DEF Announced, LinesOf
<1>3. \A m \in 1 .. Len(messages) : AllWritten(m) => AllWritten(m)'
  BY <1>2 DEF AllWritten, Range
<1>4. ASSUME NEW frame, WholeFrame(frame) PROVE WholeFrame(frame)'
  <2>1. PICK m \in 1 .. Len(messages) : frame = Announced(m) /\ 1 \in DOMAIN frame
    BY <1>4 DEF WholeFrame
  <2>2. m \in 1 .. Len(messages') /\ frame = Announced(m)'
    BY <1>1, <1>2, <2>1
  <2> QED BY <2>1, <2>2 DEF WholeFrame
<1>5. \A line : Placed(line) => Placed(line)'
  BY <1>1 DEF Placed
<1>6. ASSUME NEW d, GoodDecoder(d) PROVE GoodDecoder(d)'
  <2>1. CASE d.pending = None
    BY <2>1 DEF GoodDecoder
  <2>2. CASE d.pending # None
    <3>1. d.pending.chunk_id \in 1 .. Len(messages)
      BY <1>6, <2>2 DEF GoodDecoder
    <3>2. d.pending.chunk_id \in 1 .. Len(messages') /\ messages'[d.pending.chunk_id] = messages[d.pending.chunk_id]
      BY <1>1, <3>1
    <3> QED BY <1>6, <2>2, <3>2 DEF GoodDecoder
  <2> QED BY <2>1, <2>2
<1> QED BY <1>1, <1>2, <1>3, <1>4, <1>5, <1>6

\* A step of the process: it may only add.
LEMMA ProcessKeeps ==
  ASSUME ReaderInv, StateInv', LinesInv', UNCHANGED << phase, decoder, initial, delivered >>,
         Len(messages) \in Nat, Len(messages') \in Nat, Len(messages) <= Len(messages'),
         \A i \in 1 .. Len(messages) : messages'[i] = messages[i],
         Range(written) \subseteq Range(written'),
         Range(stdout) \subseteq Range(stdout'),
         Range(written') \subseteq Range(written) \cup Range(stdout'),
         alive
  PROVE  ReaderInv'
<1>1. /\ \A m \in 1 .. Len(messages) : AllWritten(m) => AllWritten(m)'
      /\ \A frame : WholeFrame(frame) => WholeFrame(frame)'
      /\ \A d : GoodDecoder(d) => GoodDecoder(d)'
  BY Kept DEF ReaderInv
<1>2. GoodDecoder(decoder)'
  <2>1. GoodDecoder(decoder)
    BY DEF ReaderInv
  <2> QED BY <1>1, <2>1 DEF GoodDecoder
<1>3. FramesInv'
  <2>1. \A frame \in Range(initial) \cup Range(delivered) : WholeFrame(frame)
    BY DEF ReaderInv, FramesInv
  <2>2. \A frame \in Range(initial') \cup Range(delivered') : WholeFrame(frame)'
    BY <1>1, <2>1
  <2> QED BY <2>2 DEF FramesInv, Range
<1>4. AccountInv'
  <2> SUFFICES ASSUME phase \notin {"error", "failed"}, NEW line \in Range(written')
               PROVE  \/ line \in Range(stdout')
                      \/ line \in Range(decoder.pending.lines)
                      \/ AllWritten(line.msg)'
    BY DEF AccountInv, Range, AllWritten
  <2>1. CASE line \in Range(stdout')
    BY <2>1
  <2>2. CASE line \in Range(written)
    <3>1. line.msg \in 1 .. Len(messages)
      BY <2>2 DEF ReaderInv, LinesInv, Placed
    <3>2. \/ line \in Range(stdout)
          \/ line \in Range(decoder.pending.lines)
          \/ AllWritten(line.msg)
      BY <2>2 DEF ReaderInv, AccountInv
    <3> QED BY <1>1, <3>1, <3>2
  <2> QED BY <2>1, <2>2
<1>5. EndInv'
  BY DEF ReaderInv, EndInv
<1> QED BY <1>2, <1>3, <1>4, <1>5 DEF ReaderInv

\* A step of the reader: it may only take from the pipe and hand on.
LEMMA ReaderKeeps ==
  ASSUME ReaderInv, StateInv', UNCHANGED << messages, rest, written >>,
         GoodDecoder(decoder'),
         Range(stdout') \subseteq Range(stdout),
         \A frame \in Range(initial') \cup Range(delivered') : WholeFrame(frame),
         phase' \notin {"error", "failed"} =>
           \A line \in Range(written) :
             \/ line \in Range(stdout')
             \/ line \in Range(decoder'.pending.lines)
             \/ AllWritten(line.msg),
         EndInv'
  PROVE  ReaderInv'
<1>1. LinesInv'
  BY DEF ReaderInv, LinesInv, Placed, Range
<1>2. GoodDecoder(decoder)'
  BY DEF GoodDecoder, Range
<1>3. \A m : Announced(m)' = Announced(m)
  BY DEF Announced, LinesOf
<1>4. \A frame : WholeFrame(frame)' <=> WholeFrame(frame)
  BY <1>3 DEF WholeFrame
<1>5. FramesInv'
  BY <1>4 DEF FramesInv, Range
<1>6. \A m : AllWritten(m)' <=> AllWritten(m)
  BY <1>3 DEF AllWritten, Range
<1>7. AccountInv'
  BY <1>6 DEF AccountInv, Range
<1> QED BY <1>1, <1>2, <1>5, <1>7 DEF ReaderInv

\* A line taken from the pipe.
LEMMA TakeLine ==
  ASSUME ReaderInv, stdout # << >>
  PROVE  LET line == Head(stdout)
         IN /\ line \in Line /\ Placed(line) /\ line \in Range(written)
            /\ Tail(stdout) \in Seq(Line)
            /\ Range(stdout) = {line} \cup Range(Tail(stdout))
<1>1. /\ Head(stdout) \in Line /\ Tail(stdout) \in Seq(Line)
      /\ Range(stdout) = {Head(stdout)} \cup Range(Tail(stdout))
  <2>1. stdout \in Seq(Line)
    BY DEF ReaderInv, StateInv
  <2> QED BY <2>1, RangeTail
<1>2. Head(stdout) \in Range(written)
  BY <1>1 DEF ReaderInv, LinesInv
<1> QED BY <1>1, <1>2 DEF ReaderInv, LinesInv

\* A line taken from the pipe and accepted by the decoder.
LEMMA PushLine ==
  ASSUME ReaderInv, phase \notin {"error", "failed"}, stdout # << >>, stdout' = Tail(stdout),
         Accepts(Head(stdout)), decoder' = Pushed(Head(stdout))
  PROVE  /\ stdout' \in Seq(Line) /\ Range(stdout') \subseteq Range(stdout)
         /\ decoder' \in Decoder /\ GoodDecoder(decoder')
         /\ Complete(Head(stdout)) =>
              Frame(Head(stdout)) \in Seq(Line) /\ WholeFrame(Frame(Head(stdout)))
         /\ \A line \in Range(written) :
              \/ line \in Range(stdout')
              \/ line \in Range(decoder'.pending.lines)
              \/ AllWritten(line.msg)
<1> DEFINE taken == Head(stdout)
<1>1. /\ taken \in Line /\ Placed(taken) /\ taken \in Range(written)
      /\ stdout' \in Seq(Line) /\ Range(stdout) = {taken} \cup Range(Tail(stdout))
  BY TakeLine
<1>2. Accepts(taken) /\ StateInv /\ GoodDecoder(decoder)
  BY DEF ReaderInv
<1> HIDE DEF taken
<1>3. /\ Pushed(taken) \in Decoder /\ GoodDecoder(Pushed(taken))
      /\ Complete(taken) => Frame(taken) \in Seq(Line) /\ WholeFrame(Frame(taken))
      /\ \A l \in {taken} \cup Range(decoder.pending.lines) :
           l \in Range(Pushed(taken).pending.lines) \/ AllWritten(l.msg)
  BY <1>1, <1>2, Accepted
<1>4. decoder' = Pushed(taken)
  BY DEF taken
<1>5. Range(stdout') = Range(Tail(stdout))
  OBVIOUS
<1>6. ASSUME NEW line \in Range(written)
      PROVE  \/ line \in Range(stdout')
             \/ line \in Range(decoder'.pending.lines)
             \/ AllWritten(line.msg)
  <2>1. \/ line \in Range(stdout)
        \/ line \in Range(decoder.pending.lines)
        \/ AllWritten(line.msg)
    BY DEF ReaderInv, AccountInv
  <2> QED BY <1>1, <1>3, <1>4, <1>5, <2>1
<1> QED BY <1>1, <1>3, <1>4, <1>5, <1>6 DEF taken

-----------------------------------------------------------------------------
\* The process.

LEMMA BeginKeeps ==
  ASSUME ReaderInv,
         NEW type \in {"ready", "legacy", "event", "negotiated", "refused", "wrong", "chunk", "garbage"},
         NEW advertised \in [frame : Nat, reassembled : Nat],
         type = "ready" => advertised.frame # 0,
         NEW shape \in Shapes, Begin(type, advertised, shape)
  PROVE  ReaderInv'
<1> DEFINE message == [type |-> type, frame |-> advertised.frame,
                       reassembled |-> advertised.reassembled, shape |-> shape]
           n == Len(messages) + 1
           begun == LinesOf(n, shape)
           cost == Count(~Usual(type)) + Count(~Sound(shape)) + Count(rest # << >>)
<1>1. /\ messages \in Seq(Message) /\ Len(messages) \in Nat /\ rest \in Seq(Line)
      /\ Len(messages) < MaxMessages /\ MaxMessages \in Nat /\ MaxFaults \in Nat
      /\ faults \in 0 .. MaxFaults
  BY LimitsAssumption DEF ReaderInv, StateInv, Begin
<1>2. message \in Message /\ (message.type = "ready" => message.frame # 0) /\ message.shape = shape
  BY DEF Message
<1>3. cost \in Nat
  <2>1. Count(~Usual(type)) \in Nat /\ Count(~Sound(shape)) \in Nat /\ Count(rest # << >>) \in Nat
    BY DEF Count
  <2> QED BY <2>1
<1>4. /\ messages' = Append(messages, message) /\ rest' = begun \o rest
      /\ faults' = faults + cost /\ faults + cost <= MaxFaults /\ alive
      /\ UNCHANGED << written, stdout, alive, phase, limit, decoder, initial, delivered >>
  BY DEF Begin
<1> HIDE DEF message, cost
<1>5. /\ messages' \in Seq(Message) /\ Len(messages') = n
      /\ (\A i \in 1 .. Len(messages) : messages'[i] = messages[i]) /\ messages'[n] = message
  BY <1>1, <1>2, <1>4
<1>6. n \in 1 .. MaxMessages /\ n \in 1 .. Len(messages')
  BY <1>1, <1>5
<1>7. /\ begun \in Seq(Line) /\ DOMAIN begun = 1 .. Len(shape.parts)
      /\ \A i \in 1 .. Len(shape.parts) : begun[i] = [msg |-> n, part |-> i, cut |-> FALSE]
  BY <1>6, LinesOfFacts
<1>8. messages'[n].shape = shape
  BY <1>2, <1>5
<1> HIDE DEF begun, n
<1>9. rest' \in Seq(Line) /\ Range(rest') \subseteq Range(begun) \cup Range(rest)
  BY <1>1, <1>4, <1>7, RangeConcat
<1>10. StateInv'
  <2>1. faults' \in 0 .. MaxFaults
    BY <1>1, <1>3, <1>4
  <2>2. Len(messages') <= MaxMessages
    BY <1>5, <1>6
  <2> QED BY <1>4, <1>5, <1>9, <2>1, <2>2 DEF ReaderInv, StateInv
<1>11. Len(messages') \in Nat /\ Len(messages) <= Len(messages')
  BY <1>1, <1>5 DEF n
<1>12. Range(written) = Range(written') /\ Range(stdout) = Range(stdout')
  BY <1>4
<1>13. \A line : Placed(line) => Placed(line)'
  BY <1>1, <1>5, <1>11, <1>12, Kept DEF ReaderInv
<1>14. LinesInv'
  <2>1. ASSUME NEW line \in Range(rest') PROVE Placed(line)'
    <3>1. CASE line \in Range(begun)
      <4>1. PICK i \in 1 .. Len(shape.parts) : line = [msg |-> n, part |-> i, cut |-> FALSE]
        BY <1>7, <3>1 DEF Range
      <4>2. line.msg = n /\ line.part = i
        BY <4>1
      <4> QED BY <1>6, <1>8, <4>2 DEF Placed
    <3>2. CASE line \in Range(rest)
      BY <1>13, <3>2 DEF ReaderInv, LinesInv
    <3> QED BY <1>9, <3>1, <3>2
  <2>2. \A line \in Range(written') : Placed(line)'
    BY <1>12, <1>13 DEF ReaderInv, LinesInv
  <2>3. ASSUME NEW m \in 1 .. Len(messages'), messages'[m].type = "ready"
        PROVE  messages'[m].frame # 0
    <3>1. CASE m = n
      BY <1>2, <1>5, <2>3, <3>1
    <3>2. CASE m # n
      <4>1. m \in 1 .. Len(messages)
        BY <1>1, <1>5, <3>2 DEF n
      <4> QED BY <1>5, <2>3, <4>1 DEF ReaderInv, LinesInv
    <3> QED BY <3>1, <3>2
  <2> QED BY <1>12, <2>1, <2>2, <2>3 DEF ReaderInv, LinesInv, Range
<1> QED BY <1>1, <1>4, <1>5, <1>10, <1>11, <1>12, <1>14, ProcessKeeps

\* A line goes from the process to the pipe, whole or cut.
LEMMA LineWritten ==
  ASSUME ReaderInv, alive, NEW line \in Line, Placed(line),
         stdout' = Append(stdout, line), written' = Append(written, line),
         rest' \in Seq(Line), Range(rest') \subseteq Range(rest), alive' \in BOOLEAN,
         UNCHANGED << messages, faults, phase, limit, decoder, initial, delivered >>
  PROVE  ReaderInv'
<1>1. stdout \in Seq(Line) /\ written \in Seq(Line) /\ messages \in Seq(Message)
  BY DEF ReaderInv, StateInv
<1>2. /\ stdout' \in Seq(Line) /\ Range(stdout') = Range(stdout) \cup {line}
      /\ written' \in Seq(Line) /\ Range(written') = Range(written) \cup {line}
  BY <1>1, RangeAppend
<1>3. StateInv'
  BY <1>2 DEF ReaderInv, StateInv
<1>4. \A l : Placed(l)' <=> Placed(l)
  BY DEF Placed
<1>5. LinesInv'
  <2>1. \A l \in Range(rest') : Placed(l)'
    BY <1>4 DEF ReaderInv, LinesInv
  <2>2. \A l \in Range(written') : Placed(l)'
    BY <1>2, <1>4 DEF ReaderInv, LinesInv
  <2>3. Range(stdout') \subseteq Range(written')
    BY <1>2 DEF ReaderInv, LinesInv
  <2> QED BY <2>1, <2>2, <2>3 DEF ReaderInv, LinesInv, Range
<1>6. Len(messages) \in Nat /\ Len(messages') = Len(messages)
  BY <1>1
<1> QED BY <1>2, <1>3, <1>5, <1>6, ProcessKeeps

LEMMA RestFacts ==
  ASSUME ReaderInv, rest # << >>
  PROVE  /\ Head(rest) \in Line /\ Placed(Head(rest))
         /\ Tail(rest) \in Seq(Line) /\ Range(Tail(rest)) \subseteq Range(rest)
<1>1. rest \in Seq(Line)
  BY DEF ReaderInv, StateInv
<1>2. /\ Head(rest) \in Line /\ Tail(rest) \in Seq(Line)
      /\ Range(rest) = {Head(rest)} \cup Range(Tail(rest))
  BY <1>1, RangeTail
<1> QED BY <1>2 DEF ReaderInv, LinesInv

LEMMA WriteKeeps ==
  ASSUME ReaderInv, Write
  PROVE  ReaderInv'
<1>1. /\ Head(rest) \in Line /\ Placed(Head(rest))
      /\ Tail(rest) \in Seq(Line) /\ Range(Tail(rest)) \subseteq Range(rest)
  BY RestFacts DEF Write
<1>2. alive' \in BOOLEAN
  BY DEF Write, ReaderInv, StateInv
<1>3. rest' \in Seq(Line) /\ Range(rest') \subseteq Range(rest)
  BY <1>1 DEF Write
<1> QED BY <1>1, <1>2, <1>3, LineWritten DEF Write

LEMMA SkipChunkKeeps ==
  ASSUME ReaderInv, SkipChunk
  PROVE  ReaderInv'
<1>1. rest' \in Seq(Line) /\ Range(rest') \subseteq Range(rest)
  BY RestFacts DEF SkipChunk
<1>2. faults' \in 0 .. MaxFaults
  BY LimitsAssumption DEF SkipChunk, ReaderInv, StateInv
<1>3. StateInv'
  BY <1>1, <1>2 DEF SkipChunk, ReaderInv, StateInv
<1>4. LinesInv'
  <2>1. \A l : Placed(l)' <=> Placed(l)
    BY DEF Placed, SkipChunk
  <2>2. Range(rest') \subseteq Range(rest) /\ Range(written') = Range(written) /\ Range(stdout') = Range(stdout)
        /\ messages' = messages
    BY <1>1 DEF SkipChunk
  <2>3. \A l \in Range(rest') : Placed(l)'
    BY <2>1, <2>2 DEF ReaderInv, LinesInv
  <2>4. \A l \in Range(written') : Placed(l)'
    BY <2>1, <2>2 DEF ReaderInv, LinesInv
  <2> QED BY <2>2, <2>3, <2>4 DEF ReaderInv, LinesInv, Range
<1>5. Len(messages) \in Nat /\ messages' = messages
  BY DEF SkipChunk, ReaderInv, StateInv
<1> QED BY <1>3, <1>4, <1>5, ProcessKeeps DEF SkipChunk

LEMMA ExitKeeps ==
  ASSUME ReaderInv, Exit
  PROVE  ReaderInv'
<1>1. CASE UNCHANGED << stdout, written >>
  <2>1. StateInv'
    BY <1>1 DEF Exit, ReaderInv, StateInv
  <2>2. LinesInv'
    BY <1>1 DEF Exit, ReaderInv, LinesInv, Placed, Range
  <2>3. Len(messages) \in Nat /\ messages' = messages
    BY DEF Exit, ReaderInv, StateInv
  <2> QED BY <1>1, <2>1, <2>2, <2>3, ProcessKeeps DEF Exit
<1>2. CASE /\ rest # << >>
           /\ LET line == [Head(rest) EXCEPT !.cut = TRUE]
              IN stdout' = Append(stdout, line) /\ written' = Append(written, line)
  <2> DEFINE line == [Head(rest) EXCEPT !.cut = TRUE]
  <2>1. Head(rest) \in Line /\ Placed(Head(rest))
    BY <1>2, RestFacts
  <2>2. line \in Line /\ line.msg = Head(rest).msg /\ line.part = Head(rest).part
    BY <2>1 DEF Line
  <2>3. stdout' = Append(stdout, line) /\ written' = Append(written, line)
    BY <1>2
  <2> HIDE DEF line
  <2>4. Placed(line)
    BY <2>1, <2>2 DEF Placed
  <2>5. /\ alive /\ alive' \in BOOLEAN /\ rest' \in Seq(Line) /\ Range(rest') \subseteq Range(rest)
        /\ UNCHANGED << messages, faults, phase, limit, decoder, initial, delivered >>
    BY DEF Exit, ReaderInv, StateInv
  <2> QED BY <2>2, <2>3, <2>4, <2>5, LineWritten
<1> QED BY <1>1, <1>2 DEF Exit

-----------------------------------------------------------------------------
\* The reader.

\* Startup fails: nothing more is handed on.
LEMMA FailKeeps ==
  ASSUME ReaderInv, Fail, stdout' \in Seq(Line), Range(stdout') \subseteq Range(stdout)
  PROVE  ReaderInv'
<1>1. decoder' \in Decoder /\ decoder'.pending = None
  <2>1. decoder \in Decoder
    BY DEF ReaderInv, StateInv
  <2> QED BY <2>1 DEF Fail, Decoder
<1>2. phase' = "failed" /\ alive' = FALSE
      /\ UNCHANGED << messages, rest, written, faults, limit, initial, delivered >>
  BY DEF Fail
<1>3. StateInv'
  BY <1>1, <1>2 DEF ReaderInv, StateInv, Ended
<1>4. GoodDecoder(decoder')
  BY <1>1 DEF GoodDecoder
<1>5. \A frame \in Range(initial') \cup Range(delivered') : WholeFrame(frame)
  BY <1>2 DEF ReaderInv, FramesInv
<1>6. EndInv'
  BY <1>2 DEF EndInv
<1> QED BY <1>2, <1>3, <1>4, <1>5, <1>6, ReaderKeeps

\* A line that makes startup fail.
LEMMA FailLineKeeps ==
  ASSUME ReaderInv, stdout # << >>, stdout' = Tail(stdout), Fail
  PROVE  ReaderInv'
<1>1. stdout' \in Seq(Line) /\ Range(stdout) = {Head(stdout)} \cup Range(Tail(stdout))
  BY TakeLine
<1> QED BY <1>1, FailKeeps

LEMMA FailQuietKeeps ==
  ASSUME ReaderInv, Fail, UNCHANGED stdout
  PROVE  ReaderInv'
<1>1. stdout' \in Seq(Line)
  BY DEF ReaderInv, StateInv
<1> QED BY <1>1, FailKeeps

\* The limits that a ready frame sets.
LEMMA LimitsFacts ==
  ASSUME ReaderInv, NEW line, Placed(line), Type(line) \in {"ready", "legacy"}
  PROVE  Limits(line).frame \in Nat \ {0}
<1>1. CASE Type(line) = "legacy"
  BY <1>1, LimitsAssumption DEF Limits
<1>2. CASE Type(line) = "ready"
  <2>1. line.msg \in 1 .. Len(messages) /\ messages[line.msg].type = "ready"
    BY <1>2 DEF Placed, Type
  <2>2. messages[line.msg].frame \in Nat /\ messages[line.msg].frame # 0
    BY <2>1, MessageFacts DEF ReaderInv, LinesInv
  <2> QED BY <1>2, <2>2 DEF Limits
<1> QED BY <1>1, <1>2

LEMMA ReadReadyKeeps ==
  ASSUME ReaderInv, ReadReady
  PROVE  ReaderInv'
<1> DEFINE line == Head(stdout)
           isReady == /\ Accepts(line) /\ ~Shape(line).chunked
                      /\ Type(line) \in {"ready", "legacy"}
<1>1. stdout # << >> /\ stdout' = Tail(stdout) /\ phase = "ready"
  BY DEF ReadReady
<1>2. CASE ~isReady /\ Fail
  BY <1>1, <1>2, FailLineKeeps
<1>3. CASE /\ isReady /\ limit' = Limits(line).frame /\ decoder' = Pushed(line)
           /\ IF Type(line) = "legacy" THEN HandOver(<< >>)
              ELSE phase' = "write" /\ UNCHANGED delivered
           /\ UNCHANGED << child, initial >>
  <2>1. /\ stdout' \in Seq(Line) /\ Range(stdout') \subseteq Range(stdout)
        /\ decoder' \in Decoder /\ GoodDecoder(decoder')
        /\ \A l \in Range(written) :
             \/ l \in Range(stdout')
             \/ l \in Range(decoder'.pending.lines)
             \/ AllWritten(l.msg)
    BY <1>1, <1>3, PushLine
  <2>2. limit' \in Nat \ {0}
    BY <1>1, <1>3, TakeLine, LimitsFacts
  <2>3. /\ phase' \in {"reading", "write"} /\ (delivered' = << >> \/ delivered' = delivered)
        /\ initial' = initial
        /\ UNCHANGED << messages, rest, written, alive, faults >>
    BY <1>3 DEF HandOver, child
  <2>4. << >> \in Seq(Seq(Line)) /\ Range(<< >>) = {}
    BY DEF Range
  <2>5. delivered' \in Seq(Seq(Line))
    BY <2>3, <2>4 DEF ReaderInv, StateInv
  <2>6. StateInv'
    BY <2>1, <2>2, <2>3, <2>5 DEF ReaderInv, StateInv, Starting
  <2>7. \A frame \in Range(initial') \cup Range(delivered') : WholeFrame(frame)
    <3>1. Range(delivered') \subseteq Range(delivered) /\ Range(initial') = Range(initial)
      BY <2>3, <2>4
    <3> QED BY <3>1 DEF ReaderInv, FramesInv
  <2>8. EndInv'
    BY <2>3 DEF EndInv
  <2> QED BY <2>1, <2>3, <2>6, <2>7, <2>8, ReaderKeeps
<1> QED BY <1>2, <1>3 DEF ReadReady

LEMMA SendNegotiationKeeps ==
  ASSUME ReaderInv, SendNegotiation
  PROVE  ReaderInv'
<1>1. CASE Fail /\ UNCHANGED stdout
  BY <1>1, FailQuietKeeps
<1>2. CASE phase' = "negotiate" /\ UNCHANGED << child, stdout, limit, decoder, initial, delivered >>
  <2>1. StateInv'
    BY <1>2 DEF ReaderInv, StateInv, Starting, child
  <2>2. GoodDecoder(decoder')
    BY <1>2 DEF ReaderInv
  <2>3. \A frame \in Range(initial') \cup Range(delivered') : WholeFrame(frame)
    BY <1>2 DEF ReaderInv, FramesInv
  <2>4. phase = "write"
    BY DEF SendNegotiation
  <2>5. \A line \in Range(written) :
           \/ line \in Range(stdout')
           \/ line \in Range(decoder'.pending.lines)
           \/ AllWritten(line.msg)
    BY <1>2, <2>4 DEF ReaderInv, AccountInv
  <2>6. EndInv'
    BY <1>2 DEF EndInv
  <2> QED BY <1>2, <2>1, <2>2, <2>3, <2>5, <2>6, ReaderKeeps DEF child
<1> QED BY <1>1, <1>2 DEF SendNegotiation

\* A frame is added to the ones handed on.
LEMMA FrameAdded ==
  ASSUME NEW frames \in Seq(Seq(Line)), NEW frame \in Seq(Line), WholeFrame(frame),
         \A f \in Range(frames) : WholeFrame(f)
  PROVE  /\ Append(frames, frame) \in Seq(Seq(Line))
         /\ \A f \in Range(Append(frames, frame)) : WholeFrame(f)
BY RangeAppend

LEMMA ReadAnswerKeeps ==
  ASSUME ReaderInv, ReadAnswer
  PROVE  ReaderInv'
<1> DEFINE line == Head(stdout)
           refused == Complete(line) /\ Type(line) \in {"refused", "wrong"}
<1>1. stdout # << >> /\ stdout' = Tail(stdout) /\ phase = "negotiate"
  BY DEF ReadAnswer
<1>2. CASE (~Accepts(line) \/ refused) /\ Fail
  BY <1>1, <1>2, FailLineKeeps
<1>3. CASE /\ Accepts(line) /\ ~refused
           /\ decoder' = Pushed(line)
           /\ \/ /\ ~Complete(line)
                 /\ UNCHANGED << phase, initial, delivered >>
              \/ /\ Complete(line) /\ Type(line) = "negotiated"
                 /\ HandOver(initial) /\ UNCHANGED initial
              \/ /\ Complete(line) /\ Type(line) # "negotiated"
                 /\ initial' = Append(initial, Frame(line))
                 /\ UNCHANGED << phase, delivered >>
           /\ UNCHANGED << child, limit >>
  <2>1. /\ stdout' \in Seq(Line) /\ Range(stdout') \subseteq Range(stdout)
        /\ decoder' \in Decoder /\ GoodDecoder(decoder')
        /\ Complete(line) => Frame(line) \in Seq(Line) /\ WholeFrame(Frame(line))
        /\ \A l \in Range(written) :
             \/ l \in Range(stdout')
             \/ l \in Range(decoder'.pending.lines)
             \/ AllWritten(l.msg)
    BY <1>1, <1>3, PushLine
  <2>2. /\ initial \in Seq(Seq(Line)) /\ delivered \in Seq(Seq(Line))
        /\ \A f \in Range(initial) : WholeFrame(f)
        /\ \A f \in Range(delivered) : WholeFrame(f)
    BY DEF ReaderInv, StateInv, FramesInv
  <2>3. /\ initial' \in Seq(Seq(Line)) /\ delivered' \in Seq(Seq(Line))
        /\ phase' \in {"negotiate", "reading"}
        /\ \A f \in Range(initial') : WholeFrame(f)
        /\ \A f \in Range(delivered') : WholeFrame(f)
    <3>1. CASE ~Complete(line) /\ UNCHANGED << phase, initial, delivered >>
      BY <1>1, <2>2, <3>1
    <3>2. CASE HandOver(initial) /\ UNCHANGED initial
      BY <2>2, <3>2 DEF HandOver
    <3>3. CASE /\ Complete(line) /\ initial' = Append(initial, Frame(line))
               /\ UNCHANGED << phase, delivered >>
      <4> DEFINE frame == Frame(line)
      <4>1. frame \in Seq(Line) /\ WholeFrame(frame) /\ initial' = Append(initial, frame)
        BY <2>1, <3>3
      <4> HIDE DEF frame
      <4>2. initial' \in Seq(Seq(Line)) /\ \A f \in Range(initial') : WholeFrame(f)
        BY <2>2, <4>1, FrameAdded
      <4> QED BY <1>1, <2>2, <3>3, <4>2
    <3> QED BY <1>3, <3>1, <3>2, <3>3
  <2>4. UNCHANGED << messages, rest, written, alive, faults, limit >>
    BY <1>3 DEF child
  <2>5. StateInv'
    BY <2>1, <2>3, <2>4 DEF ReaderInv, StateInv, Starting
  <2>6. EndInv'
    BY <2>3 DEF EndInv
  <2> QED BY <2>1, <2>3, <2>4, <2>5, <2>6, ReaderKeeps
<1> QED BY <1>2, <1>3 DEF ReadAnswer

LEMMA ReadStdoutKeeps ==
  ASSUME ReaderInv, ReadStdout
  PROVE  ReaderInv'
<1> DEFINE line == Head(stdout)
<1>1. /\ stdout # << >> /\ stdout' = Tail(stdout) /\ phase = "reading"
      /\ UNCHANGED << messages, rest, written, alive, faults, limit, initial >>
  BY DEF ReadStdout, child
<1>2. /\ initial \in Seq(Seq(Line)) /\ delivered \in Seq(Seq(Line))
      /\ \A f \in Range(initial) : WholeFrame(f)
      /\ \A f \in Range(delivered) : WholeFrame(f)
  BY DEF ReaderInv, StateInv, FramesInv
<1>3. CASE /\ ~Accepts(line) /\ phase' = "error"
           /\ decoder' = [decoder EXCEPT !.pending = None] /\ UNCHANGED delivered
  <2>1. stdout' \in Seq(Line) /\ Range(stdout') \subseteq Range(stdout)
    BY <1>1, TakeLine
  <2>2. decoder' \in Decoder /\ decoder'.pending = None
    <3>1. decoder \in Decoder
      BY DEF ReaderInv, StateInv
    <3> QED BY <1>3, <3>1 DEF Decoder
  <2>3. StateInv'
    BY <1>1, <1>3, <2>1, <2>2 DEF ReaderInv, StateInv, Ended
  <2>4. GoodDecoder(decoder')
    BY <2>2 DEF GoodDecoder
  <2>5. EndInv'
    BY <1>3 DEF EndInv
  <2> QED BY <1>1, <1>2, <1>3, <2>1, <2>3, <2>4, <2>5, ReaderKeeps
<1>4. CASE /\ Accepts(line) /\ decoder' = Pushed(line)
           /\ delivered' = IF Complete(line) THEN Append(delivered, Frame(line)) ELSE delivered
           /\ UNCHANGED phase
  <2>1. /\ stdout' \in Seq(Line) /\ Range(stdout') \subseteq Range(stdout)
        /\ decoder' \in Decoder /\ GoodDecoder(decoder')
        /\ Complete(line) => Frame(line) \in Seq(Line) /\ WholeFrame(Frame(line))
        /\ \A l \in Range(written) :
             \/ l \in Range(stdout')
             \/ l \in Range(decoder'.pending.lines)
             \/ AllWritten(l.msg)
    BY <1>1, <1>4, PushLine
  <2>2. delivered' \in Seq(Seq(Line)) /\ \A f \in Range(delivered') : WholeFrame(f)
    <3>1. CASE Complete(line)
      <4> DEFINE frame == Frame(line)
      <4>1. frame \in Seq(Line) /\ WholeFrame(frame) /\ delivered' = Append(delivered, frame)
        BY <1>4, <2>1, <3>1
      <4> HIDE DEF frame
      <4> QED BY <1>2, <4>1, FrameAdded
    <3>2. CASE ~Complete(line)
      BY <1>2, <1>4, <3>2
    <3> QED BY <3>1, <3>2
  <2>3. StateInv'
    BY <1>1, <1>4, <2>1, <2>2 DEF ReaderInv, StateInv
  <2>4. EndInv'
    BY <1>1, <1>4 DEF EndInv
  <2> QED BY <1>1, <1>2, <2>1, <2>2, <2>3, <2>4, ReaderKeeps
<1> QED BY <1>3, <1>4 DEF ReadStdout

LEMMA StdoutEndsKeeps ==
  ASSUME ReaderInv, StdoutEnds
  PROVE  ReaderInv'
<1>1. /\ phase = "reading" /\ stdout = << >> /\ ~alive /\ phase' = EndOfOutput
      /\ UNCHANGED << messages, rest, written, alive, faults, stdout, limit, decoder, initial, delivered >>
  BY DEF StdoutEnds, child
<1>2. phase' \in {"error", "eof"} /\ (phase' = "eof" => decoder.pending = None)
  BY <1>1 DEF EndOfOutput
<1>3. StateInv'
  BY <1>1, <1>2 DEF ReaderInv, StateInv, Ended
<1>4. GoodDecoder(decoder')
  BY <1>1 DEF ReaderInv
<1>5. \A frame \in Range(initial') \cup Range(delivered') : WholeFrame(frame)
  BY <1>1 DEF ReaderInv, FramesInv
<1>6. \A line \in Range(written) :
         \/ line \in Range(stdout')
         \/ line \in Range(decoder'.pending.lines)
         \/ AllWritten(line.msg)
  BY <1>1 DEF ReaderInv, AccountInv
<1>7. EndInv'
  BY <1>1, <1>2 DEF EndInv
<1> QED BY <1>1, <1>3, <1>4, <1>5, <1>6, <1>7, ReaderKeeps

-----------------------------------------------------------------------------
LEMMA ReaderInit ==
  ASSUME Init
  PROVE  ReaderInv
<1>1. /\ << >> \in Seq(Message) /\ << >> \in Seq(Line) /\ << >> \in Seq(Seq(Line))
      /\ Len(<< >>) = 0 /\ Range(<< >>) = {}
  BY DEF Range
<1>2. decoder \in Decoder /\ decoder.pending = None
  BY LimitsAssumption DEF Init, Decoder
<1>3. StateInv
  BY <1>1, <1>2, LimitsAssumption DEF Init, StateInv, Starting
<1>4. LinesInv
  BY <1>1 DEF Init, LinesInv
<1>5. GoodDecoder(decoder)
  BY <1>2 DEF GoodDecoder
<1>6. FramesInv /\ AccountInv /\ EndInv
  BY <1>1 DEF Init, FramesInv, AccountInv, EndInv
<1> QED BY <1>3, <1>4, <1>5, <1>6 DEF ReaderInv

LEMMA ReaderNext ==
  ASSUME ReaderInv, [Next]_vars
  PROVE  ReaderInv'
<1>1. ASSUME NEW shape \in Shapes, NEW advertised \in Advertised, Begin("ready", advertised, shape)
      PROVE  ReaderInv'
  <2>1. advertised \in [frame : Nat, reassembled : Nat] /\ advertised.frame # 0
    BY LimitsAssumption
  <2> QED BY <1>1, <2>1, BeginKeeps
<1>2. ASSUME NEW shape \in Shapes,
             NEW type \in {"legacy", "event", "negotiated", "refused", "wrong", "chunk", "garbage"},
             Begin(type, NoLimits, shape)
      PROVE  ReaderInv'
  <2>1. NoLimits \in [frame : Nat, reassembled : Nat] /\ type # "ready"
    BY DEF NoLimits
  <2> QED BY <1>2, <2>1, BeginKeeps
<1>3. CASE Write \/ SkipChunk \/ Exit
  BY <1>3, WriteKeeps, SkipChunkKeeps, ExitKeeps
<1>4. CASE StartupEof
  BY <1>4, FailQuietKeeps DEF StartupEof
<1>5. CASE StartupTimedOut
  BY <1>5, FailQuietKeeps DEF StartupTimedOut
<1>6. CASE ReadReady \/ SendNegotiation \/ ReadAnswer \/ ReadStdout \/ StdoutEnds
  BY <1>6, ReadReadyKeeps, SendNegotiationKeeps, ReadAnswerKeeps, ReadStdoutKeeps, StdoutEndsKeeps
<1>7. CASE UNCHANGED vars
  <2>1. UNCHANGED << messages, rest, written, stdout, alive, faults, phase, limit, decoder,
                     initial, delivered >>
    BY <1>7 DEF vars
  <2>2. StateInv'
    BY <2>1 DEF ReaderInv, StateInv
  <2>3. GoodDecoder(decoder')
    BY <2>1 DEF ReaderInv
  <2>4. \A frame \in Range(initial') \cup Range(delivered') : WholeFrame(frame)
    BY <2>1 DEF ReaderInv, FramesInv
  <2>5. phase' \notin {"error", "failed"} =>
          \A line \in Range(written) :
            \/ line \in Range(stdout')
            \/ line \in Range(decoder'.pending.lines)
            \/ AllWritten(line.msg)
    BY <2>1 DEF ReaderInv, AccountInv
  <2>6. EndInv'
    BY <2>1 DEF ReaderInv, EndInv
  <2> QED BY <2>1, <2>2, <2>3, <2>4, <2>5, <2>6, ReaderKeeps
<1> QED BY <1>1, <1>2, <1>3, <1>4, <1>5, <1>6, <1>7 DEF Next, Process, Reader

\* Every line the process wrote is accounted for until reading fails: it is in
\* the pipe, in the sequence the decoder holds, which is the beginning of one
\* chunked message, or of a message that was written whole.
THEOREM ReaderInvariant == Spec => []ReaderInv
BY ReaderInit, ReaderNext, PTL DEF Spec

\* The state stays well formed, and the decoder never holds more than its
\* sequence declared nor more than the limit in force (RpcFrameDecoder::push).
THEOREM RpcTypeCorrect == Spec => []TypeOK
<1>1. ReaderInv => TypeOK
  BY DEF ReaderInv, StateInv, GoodDecoder, TypeOK
<1> QED BY <1>1, ReaderInvariant, PTL

\* Every frame handed on is one whole message, whatever the process mixes up,
\* leaves out or adds (RpcFrameDecoder::push, initialize_rpc, read_stdout).
THEOREM UntornCorrect == Spec => []Untorn
<1>1. ASSUME ReaderInv PROVE Untorn
  <2> SUFFICES ASSUME NEW frame \in Range(initial) \cup Range(delivered)
               PROVE  frame = Announced(frame[1].msg)
    BY DEF Untorn
  <2>1. PICK m \in 1 .. Len(messages) : frame = Announced(m) /\ 1 \in DOMAIN frame
    BY <1>1 DEF ReaderInv, FramesInv, WholeFrame
  <2>2. frame[1] = [msg |-> m, part |-> 1, cut |-> FALSE]
    BY <1>1, <2>1, AnnouncedFacts DEF ReaderInv
  <2>3. frame[1].msg = m
    BY <2>2
  <2> QED BY <2>1, <2>3
<1> QED BY <1>1, ReaderInvariant, PTL

\* A plain end of the output means that no message was left unfinished: a
\* process that dies inside a line or between chunks is reported as an error
\* (read_stdout, is_reassembling).
THEOREM TruncationCorrect == Spec => []TruncationReported
<1>1. ASSUME ReaderInv PROVE TruncationReported
  <2> SUFFICES ASSUME phase = "eof", NEW line \in Range(written)
               PROVE  Range(Announced(line.msg)) \subseteq Range(written)
    BY DEF TruncationReported
  <2>1. stdout = << >> /\ decoder.pending = None
    BY <1>1 DEF ReaderInv, EndInv
  <2>2. Range(stdout) = {} /\ Range(decoder.pending.lines) = {}
    BY <2>1, NoneFacts DEF Range
  <2>3. \/ line \in Range(stdout)
        \/ line \in Range(decoder.pending.lines)
        \/ AllWritten(line.msg)
    BY <1>1 DEF ReaderInv, AccountInv
  <2> QED BY <2>2, <2>3 DEF AllWritten
<1> QED BY <1>1, ReaderInvariant, PTL

-----------------------------------------------------------------------------
\* The order of what was written and handed on.

\* A message of this type was begun.
Begun(type) == \E m \in 1 .. Len(messages) : messages[m].type = type

\* The frames handed on are the initial ones and later ones; the answer, if
\* there was one, was read between them.
Handed(answer, later) ==
  /\ answer \in Answer /\ answer \in Seq(Seq(Line)) /\ later \in Seq(Seq(Line))
  /\ delivered = initial \o later
  /\ Order(written, initial \o answer \o later, decoder.pending.lines, stdout)

ReadyInv ==
  phase = "ready" => /\ written = stdout /\ initial = << >> /\ delivered = << >>
                     /\ decoder.pending = None
UnaskedInv == phase \in {"ready", "write"} => ~Begun("negotiated")
StartInv ==
  phase \in {"write", "negotiate"} =>
    delivered = << >> /\ Order(written, initial, decoder.pending.lines, stdout)
HandedInv == phase \in {"reading", "eof"} => \E answer, later : Handed(answer, later)

OrderInv == ReadyInv /\ UnaskedInv /\ StartInv /\ HandedInv

\* What an accepted line does to the sequence: it goes to its end, and the last
\* one makes it the frame of its message.
LEMMA PushedLines ==
  ASSUME ReaderInv, NEW line \in Line, Placed(line), line \in Range(written), Accepts(line)
  PROVE  /\ decoder.pending.lines \in Seq(Line)
         /\ ~Complete(line) => Pushed(line).pending.lines = Append(decoder.pending.lines, line)
         /\ Complete(line) => /\ Pushed(line).pending.lines = << >>
                              /\ Frame(line) = Append(decoder.pending.lines, line)
                              /\ Frame(line) \in Seq(Line)
                              /\ Frame(line) = Announced(line.msg)
<1>1. StateInv /\ GoodDecoder(decoder) /\ decoder \in Decoder
  BY DEF ReaderInv, StateInv
<1>2. decoder.pending.lines \in Seq(Line)
  <2>1. decoder.pending \in {None} \cup Chunks
    BY <1>1 DEF Decoder
  <2>2. << >> \in Seq(Line)
    OBVIOUS
  <2> QED BY <2>1, <2>2, NoneFacts DEF Chunks
<1> DEFINE Extended ==
      /\ ~Complete(line) => Pushed(line).pending.lines = Append(decoder.pending.lines, line)
      /\ Complete(line) => /\ Pushed(line).pending.lines = << >>
                           /\ Frame(line) = Append(decoder.pending.lines, line)
<1>3. ASSUME ~Shape(line).chunked PROVE Extended
  <2>1. Complete(line) /\ decoder.pending = None /\ Pushed(line).pending = None
    BY <1>1, <1>3, AcceptedWhole
  <2>2. Frame(line) = << line >>
    BY <1>3 DEF Frame
  <2>3. Append(<< >>, line) = << line >>
    OBVIOUS
  <2> QED BY <2>1, <2>2, <2>3, NoneFacts
<1>4. ASSUME Shape(line).chunked PROVE Extended
  <2>1. Pending(line).lines = decoder.pending.lines /\ "lines" \in DOMAIN Pending(line)
    <3>1. CASE decoder.pending = None
      BY <3>1, NoneFacts DEF Pending
    <3>2. CASE decoder.pending # None
      <4>1. Pending(line) = decoder.pending /\ decoder.pending \in Chunks
        BY <1>1, <3>2 DEF Pending, Decoder
      <4> QED BY <4>1 DEF Chunks
    <3> QED BY <3>1, <3>2
  <2>2. Appended(line).lines = Append(decoder.pending.lines, line)
    <3>1. PICK b : b = Pending(line)
      OBVIOUS
    <3>2. Appended(line) = [b EXCEPT !.next_index = b.next_index + 1, !.bytes = b.bytes + Payload(line),
                                     !.lines = Append(b.lines, line)]
      BY <3>1 DEF Appended
    <3>3. PICK k, q, ls : /\ k = b.next_index + 1 /\ q = b.bytes + Payload(line)
                          /\ ls = Append(b.lines, line)
      OBVIOUS
    <3>4. Appended(line) = [b EXCEPT !.next_index = k, !.bytes = q, !.lines = ls]
      BY <3>2, <3>3
    <3>5. Appended(line).lines = ls
      BY <2>1, <3>1, <3>4
    <3> QED BY <2>1, <3>1, <3>3, <3>5
  <2>3. Frame(line) = Append(decoder.pending.lines, line)
    BY <1>4, <2>2 DEF Frame
  <2>4. Pushed(line).pending = IF Complete(line) THEN None ELSE Appended(line)
    <3>1. PICK x : x = IF Complete(line) THEN None ELSE Appended(line)
      OBVIOUS
    <3>2. Pushed(line) = [decoder EXCEPT !.pending = x]
      BY <1>4, <3>1 DEF Pushed
    <3> QED BY <1>1, <3>1, <3>2 DEF Decoder
  <2> QED BY <2>2, <2>3, <2>4, NoneFacts
<1>5. ASSUME Complete(line) PROVE Frame(line) \in Seq(Line) /\ Frame(line) = Announced(line.msg)
  <2>1. Frame(line) \in Seq(Line) /\ WholeFrame(Frame(line))
    BY <1>1, <1>5, Accepted
  <2>2. PICK frame \in Seq(Line) : frame = Frame(line)
    BY <2>1
  <2>3. frame = Append(decoder.pending.lines, line)
    BY <1>3, <1>4, <1>5, <2>2
  <2>4. line \in Range(frame)
    BY <1>2, <2>3, RangeAppend
  <2>5. PICK m \in 1 .. Len(messages) : frame = Announced(m)
    BY <2>1, <2>2 DEF WholeFrame
  <2>6. PICK i \in DOMAIN frame : line = frame[i]
    BY <2>4 DEF Range
  <2>7. line = [msg |-> m, part |-> i, cut |-> FALSE]
    BY <1>1, <2>5, <2>6, AnnouncedFacts
  <2>8. line.msg = m
    BY <2>7
  <2> QED BY <2>1, <2>2, <2>5, <2>8
<1> QED BY <1>2, <1>3, <1>4, <1>5

\* A line taken from the pipe, accepted by the decoder, keeps the order.
LEMMA PushKeepsOrder ==
  ASSUME ReaderInv, stdout # << >>, stdout' = Tail(stdout), Accepts(Head(stdout)),
         decoder' = Pushed(Head(stdout)), written' = written, NEW frames \in Seq(Seq(Line)),
         Order(written, frames, decoder.pending.lines, stdout)
  PROVE  /\ ~Complete(Head(stdout)) => Order(written', frames, decoder'.pending.lines, stdout')
         /\ Complete(Head(stdout)) =>
              Order(written', Append(frames, Frame(Head(stdout))), decoder'.pending.lines, stdout')
<1>1. stdout \in Seq(Line)
  BY DEF ReaderInv, StateInv
<1>2. PICK line \in Line : /\ line = Head(stdout) /\ Placed(line) /\ line \in Range(written)
  BY TakeLine
<1>3. PICK p \in Seq(Line) : p = decoder.pending.lines
  BY <1>2, PushedLines
<1>4. /\ ~Complete(line) => decoder'.pending.lines = Append(p, line)
      /\ Complete(line) => decoder'.pending.lines = << >> /\ Frame(line) = Append(p, line)
  BY <1>2, <1>3, PushedLines
<1>5. Append(p, line) \in Seq(Line) /\ Tail(stdout) \in Seq(Line)
  BY <1>1, AppendProperties, HeadTailProperties
<1>6. Order(written, frames, Append(p, line), Tail(stdout))
  BY <1>1, <1>2, <1>3, OrderChunk
<1>7. Order(written, Append(frames, Append(p, line)), << >>, Tail(stdout))
  BY <1>5, <1>6, OrderFrame
<1> QED BY <1>2, <1>4, <1>6, <1>7

-----------------------------------------------------------------------------
\* The answers are the same as long as no answer is begun.
LEMMA AnswerSame ==
  ASSUME messages' = messages
  PROVE  Answer' = Answer /\ (Begun("negotiated")' <=> Begun("negotiated"))
BY DEF Answer, Announced, LinesOf, Begun

LEMMA OrderInit ==
  ASSUME Init
  PROVE  OrderInv
<1>1. Len(<< >>) = 0 /\ 1 .. 0 = {}
  OBVIOUS
<1>2. ~Begun("negotiated")
  BY <1>1 DEF Init, Begun
<1>3. decoder.pending = None
  BY DEF Init
<1> QED BY <1>2, <1>3 DEF Init, OrderInv, ReadyInv, UnaskedInv, StartInv, HandedInv

\* Nothing is said once reading has failed.
LEMMA FailedOrder ==
  ASSUME phase' \in {"failed", "error"}
  PROVE  OrderInv'
BY DEF OrderInv, ReadyInv, UnaskedInv, StartInv, HandedInv

LEMMA QuietOrder ==
  ASSUME OrderInv, UNCHANGED << messages, written, stdout, decoder, initial, delivered >>,
         phase' \in {phase, "failed", "error"} \/ (phase = "reading" /\ phase' = "eof")
           \/ (phase = "write" /\ phase' = "negotiate")
  PROVE  OrderInv'
<1>1. Answer' = Answer /\ (Begun("negotiated")' <=> Begun("negotiated"))
  BY AnswerSame
<1>2. \A answer, later : Handed(answer, later) => Handed(answer, later)'
  BY <1>1 DEF Handed
<1>3. ReadyInv' /\ UnaskedInv' /\ StartInv'
  BY <1>1 DEF OrderInv, ReadyInv, UnaskedInv, StartInv
<1>4. HandedInv'
  BY <1>2 DEF OrderInv, HandedInv
<1> QED BY <1>3, <1>4 DEF OrderInv

\* What the sequence and the pipe hold.
LEMMA PendingFacts ==
  ASSUME ReaderInv
  PROVE  /\ decoder.pending.lines \in Seq(Line) /\ stdout \in Seq(Line) /\ written \in Seq(Line)
         /\ initial \in Seq(Seq(Line)) /\ delivered \in Seq(Seq(Line))
<1>1. decoder.pending \in {None} \cup Chunks
  BY DEF ReaderInv, StateInv, Decoder
<1>2. << >> \in Seq(Line)
  OBVIOUS
<1>3. decoder.pending.lines \in Seq(Line)
  BY <1>1, <1>2, NoneFacts DEF Chunks
<1> QED BY <1>3 DEF ReaderInv, StateInv

LEMMA FramesFacts ==
  ASSUME ReaderInv, NEW answer, NEW later, Handed(answer, later)
  PROVE  initial \o answer \o later \in Seq(Seq(Line))
<1>1. initial \in Seq(Seq(Line)) /\ answer \in Seq(Seq(Line)) /\ later \in Seq(Seq(Line))
  BY PendingFacts DEF Handed
<1>2. PICK a \in Seq(Seq(Line)) : a = initial \o answer
  BY <1>1, ConcatProperties
<1>3. a \o later \in Seq(Seq(Line))
  BY <1>1, ConcatProperties
<1> QED BY <1>2, <1>3

\* A line is written, whole or cut.
LEMMA LineOrder ==
  ASSUME ReaderInv, OrderInv, NEW line \in Line,
         stdout' = Append(stdout, line), written' = Append(written, line),
         UNCHANGED << messages, phase, decoder, initial, delivered >>
  PROVE  OrderInv'
<1>1. Answer' = Answer /\ (Begun("negotiated")' <=> Begun("negotiated"))
  BY AnswerSame
<1>2. PICK p \in Seq(Line) : p = decoder.pending.lines /\ decoder'.pending.lines = p
  BY PendingFacts
<1>3. ASSUME NEW frames \in Seq(Seq(Line)), Order(written, frames, p, stdout)
      PROVE  Order(written', frames, p, stdout')
  BY <1>3, PendingFacts, OrderWrite
<1>4. ReadyInv' /\ UnaskedInv'
  BY <1>1 DEF OrderInv, ReadyInv, UnaskedInv
<1>5. StartInv'
  <2> SUFFICES ASSUME phase \in {"write", "negotiate"}
               PROVE  delivered = << >> /\ Order(written', initial, p, stdout')
    BY <1>2 DEF StartInv
  <2>1. delivered = << >> /\ Order(written, initial, p, stdout)
    BY <1>2 DEF OrderInv, StartInv
  <2> QED BY <1>3, <2>1, PendingFacts
<1>6. HandedInv'
  <2> SUFFICES ASSUME phase \in {"reading", "eof"} PROVE \E answer, later : Handed(answer, later)'
    BY DEF HandedInv
  <2>1. PICK answer, later : Handed(answer, later)
    BY DEF OrderInv, HandedInv
  <2>2. PICK frames \in Seq(Seq(Line)) : frames = initial \o answer \o later
    BY <2>1, FramesFacts
  <2>3. Order(written', frames, p, stdout')
    BY <1>2, <1>3, <2>1, <2>2 DEF Handed
  <2>4. Handed(answer, later)'
    BY <1>1, <1>2, <2>1, <2>2, <2>3 DEF Handed
  <2> QED BY <2>4
<1> QED BY <1>4, <1>5, <1>6 DEF OrderInv

\* A message is begun: an answer only while the reader waits for it.
LEMMA BeginOrder ==
  ASSUME ReaderInv, OrderInv, NEW type, NEW advertised, NEW shape, Begin(type, advertised, shape)
  PROVE  OrderInv'
<1> DEFINE message == [type |-> type, frame |-> advertised.frame,
                       reassembled |-> advertised.reassembled, shape |-> shape]
<1>1. messages \in Seq(Message) /\ Len(messages) \in Nat
  BY DEF ReaderInv, StateInv
<1>2. /\ messages' = Append(messages, message) /\ message.type = type
      /\ UNCHANGED << written, stdout, phase, decoder, initial, delivered >>
  BY DEF Begin
<1> HIDE DEF message
<1>3. /\ Len(messages') = Len(messages) + 1
      /\ \A m \in 1 .. Len(messages) : messages'[m] = messages[m]
      /\ messages'[Len(messages) + 1].type = type
  BY <1>1, <1>2
<1>4. phase # "negotiate" => type # "negotiated"
  BY DEF Begin, MayWrite
<1>5. ASSUME type # "negotiated"
      PROVE  Answer' = Answer /\ (Begun("negotiated")' <=> Begun("negotiated"))
  <2> DEFINE A == {m \in 1 .. Len(messages) : messages[m].type = "negotiated"}
             B == {m \in 1 .. Len(messages') : messages'[m].type = "negotiated"}
  <2>1. A = B
    <3>1. \A m : m \in 1 .. Len(messages) + 1 <=> m \in 1 .. Len(messages) \/ m = Len(messages) + 1
      BY <1>1
    <3> QED BY <1>3, <1>5, <3>1
  <2>2. \A m \in A : Announced(m)' = Announced(m)
    <3>1. \A m \in A : messages'[m] = messages[m]
      BY <1>3
    <3> QED BY <3>1 DEF Announced, LinesOf
  <2>3. Answer = IF A = {} THEN {<< >>} ELSE {<< Announced(m) >> : m \in A}
    BY DEF Answer
  <2>4. Answer' = IF B = {} THEN {<< >>} ELSE {<< Announced(m)' >> : m \in B}
    BY DEF Answer
  <2>5. (Begun("negotiated") <=> A # {}) /\ (Begun("negotiated")' <=> B # {})
    BY DEF Begun
  <2> HIDE DEF A, B
  <2> QED BY <2>1, <2>2, <2>3, <2>4, <2>5
<1>6. ReadyInv' /\ StartInv'
  BY <1>2 DEF OrderInv, ReadyInv, StartInv
<1>7. UnaskedInv'
  BY <1>2, <1>4, <1>5 DEF OrderInv, UnaskedInv
<1>8. HandedInv'
  <2> SUFFICES ASSUME phase \in {"reading", "eof"} PROVE \E answer, later : Handed(answer, later)'
    BY <1>2 DEF HandedInv
  <2>1. PICK answer, later : Handed(answer, later)
    BY DEF OrderInv, HandedInv
  <2>2. Answer' = Answer
    BY <1>4, <1>5
  <2>3. Handed(answer, later)'
    BY <1>2, <2>1, <2>2 DEF Handed
  <2> QED BY <2>3
<1> QED BY <1>6, <1>7, <1>8 DEF OrderInv

\* One more frame at the end is one more of the later ones.
Joined(c, a, b) == c = a \o b
Added(d, b, e) == d = Append(b, e)

LEMMA AppendLater ==
  ASSUME NEW S, NEW a \in Seq(S), NEW b \in Seq(S), NEW e \in S,
         NEW c \in Seq(S), Joined(c, a, b), NEW d \in Seq(S), Added(d, b, e),
         NEW x, Added(x, c, e)
  PROVE  Joined(x, a, d)
BY DEF Joined, Added

\* The ready frame is taken: what is left was written after it.
LEMMA OrderReady ==
  ASSUME NEW s \in Seq(Line), s # << >>
  PROVE  Order(s, << >>, << >>, Tail(s))
<1>1. PICK line \in Line, t \in Seq(Line) : line = Head(s) /\ t = Tail(s)
  BY HeadTailProperties
<1>2. s = << line >> \o t
  BY <1>1
<1>3. << line >> \in Seq(Line)
  OBVIOUS
<1>4. << line >> \o << >> = << line >>
  BY <1>3, ConcatEmptySeq
<1>5. s = << line >> \o FlattenSeq(<< >>) \o << >> \o t
  BY <1>2, <1>4, FlattenEmpty
<1> QED BY <1>1, <1>5 DEF Order

LEMMA ReadReadyOrder ==
  ASSUME ReaderInv, OrderInv, ReadReady
  PROVE  OrderInv'
<1> DEFINE line == Head(stdout)
           isReady == /\ Accepts(line) /\ ~Shape(line).chunked
                      /\ Type(line) \in {"ready", "legacy"}
<1>1. CASE ~isReady /\ Fail
  BY <1>1, FailedOrder DEF Fail
<1>2. CASE /\ isReady /\ limit' = Limits(line).frame /\ decoder' = Pushed(line)
           /\ IF Type(line) = "legacy" THEN HandOver(<< >>)
              ELSE phase' = "write" /\ UNCHANGED delivered
           /\ UNCHANGED << child, initial >>
  <2>1. /\ phase = "ready" /\ stdout # << >> /\ stdout' = Tail(stdout)
        /\ UNCHANGED << messages, written, initial >>
    BY <1>2 DEF ReadReady, child
  <2>2. written = stdout /\ initial = << >> /\ delivered = << >> /\ ~Begun("negotiated")
    BY <2>1 DEF OrderInv, ReadyInv, UnaskedInv
  <2>3. Answer' = Answer /\ ~Begun("negotiated")'
    BY <2>1, <2>2, AnswerSame
  <2>4. decoder'.pending.lines = << >>
    <3>1. line \in Line /\ Placed(line) /\ line \in Range(written)
      BY <2>1, TakeLine
    <3>2. Accepts(line) /\ ~Shape(line).chunked /\ StateInv
      BY <1>2 DEF ReaderInv
    <3> HIDE DEF line
    <3>3. Pushed(line).pending = None
      BY <3>1, <3>2, AcceptedWhole
    <3> QED BY <1>2, <3>3, NoneFacts
  <2>5. Order(written', << >>, decoder'.pending.lines, stdout')
    <3>1. stdout \in Seq(Line)
      BY PendingFacts
    <3>2. Order(stdout, << >>, << >>, Tail(stdout))
      BY <2>1, <3>1, OrderReady
    <3> QED BY <2>1, <2>2, <2>4, <3>2
  <2>6. phase' \in {"reading", "write"} /\ delivered' = << >> /\ initial' = << >>
    BY <1>2, <2>1, <2>2 DEF HandOver
  <2>7. Handed(<< >>, << >>)'
    <3>1. << >> \in Answer'
      BY <2>2, <2>3 DEF Answer, Begun
    <3>2. << >> \in Seq(Seq(Line)) /\ << >> \o << >> = << >>
      OBVIOUS
    <3> QED BY <2>5, <2>6, <3>1, <3>2 DEF Handed
  <2>8. ReadyInv' /\ UnaskedInv'
    BY <2>3, <2>6 DEF ReadyInv, UnaskedInv
  <2>9. StartInv'
    BY <2>5, <2>6 DEF StartInv
  <2>10. HandedInv'
    BY <2>7 DEF HandedInv
  <2> QED BY <2>8, <2>9, <2>10 DEF OrderInv
<1> QED BY <1>1, <1>2 DEF ReadReady

LEMMA ReadAnswerOrder ==
  ASSUME ReaderInv, OrderInv, ReadAnswer
  PROVE  OrderInv'
<1> DEFINE line == Head(stdout)
           refused == Complete(line) /\ Type(line) \in {"refused", "wrong"}
<1>1. /\ stdout # << >> /\ stdout' = Tail(stdout) /\ phase = "negotiate"
  BY DEF ReadAnswer
<1>2. CASE (~Accepts(line) \/ refused) /\ Fail
  BY <1>2, FailedOrder DEF Fail
<1>3. CASE /\ Accepts(line) /\ ~refused
           /\ decoder' = Pushed(line)
           /\ \/ /\ ~Complete(line)
                 /\ UNCHANGED << phase, initial, delivered >>
              \/ /\ Complete(line) /\ Type(line) = "negotiated"
                 /\ HandOver(initial) /\ UNCHANGED initial
              \/ /\ Complete(line) /\ Type(line) # "negotiated"
                 /\ initial' = Append(initial, Frame(line))
                 /\ UNCHANGED << phase, delivered >>
           /\ UNCHANGED << child, limit >>
  <2>1. messages' = messages /\ written' = written
    BY <1>3 DEF child
  <2>2. delivered = << >> /\ Order(written, initial, decoder.pending.lines, stdout)
    BY <1>1 DEF OrderInv, StartInv
  <2>3. initial \in Seq(Seq(Line))
    BY PendingFacts
  <2>4. /\ ~Complete(line) => Order(written', initial, decoder'.pending.lines, stdout')
        /\ Complete(line) =>
             Order(written', Append(initial, Frame(line)), decoder'.pending.lines, stdout')
    BY <1>1, <1>3, <2>1, <2>2, <2>3, PushKeepsOrder
  <2>5. CASE ~Complete(line) /\ UNCHANGED << phase, initial, delivered >>
    BY <1>1, <2>2, <2>4, <2>5 DEF OrderInv, ReadyInv, UnaskedInv, StartInv, HandedInv
  <2>6. CASE /\ Complete(line) /\ initial' = Append(initial, Frame(line))
             /\ UNCHANGED << phase, delivered >>
    BY <1>1, <2>2, <2>4, <2>6 DEF OrderInv, ReadyInv, UnaskedInv, StartInv, HandedInv
  <2>7. CASE /\ Complete(line) /\ Type(line) = "negotiated"
             /\ HandOver(initial) /\ UNCHANGED initial
    <3>1. line \in Line /\ Placed(line) /\ line \in Range(written)
      BY <1>1, TakeLine
    <3>2. Accepts(line) /\ Complete(line) /\ Type(line) = "negotiated"
      BY <1>3, <2>7
    <3>3. PICK frame \in Seq(Line) : frame = Frame(line) /\ frame = Announced(line.msg)
      <4> HIDE DEF line
      <4> QED BY <3>1, <3>2, PushedLines
    <3>4. << frame >> \in Answer /\ Answer' = Answer
      <4>1. line.msg \in 1 .. Len(messages) /\ messages[line.msg].type = "negotiated"
        BY <3>1, <3>2 DEF Placed, Type
      <4>2. << frame >> \in Answer
        BY <3>3, <4>1 DEF Answer
      <4> QED BY <2>1, <4>2, AnswerSame
    <3>5. << frame >> \in Seq(Seq(Line)) /\ << >> \in Seq(Seq(Line))
      OBVIOUS
    <3>6. Append(initial, frame) = initial \o << frame >> /\ Append(initial, frame) \in Seq(Seq(Line))
      BY <2>3, AppendIsConcat, AppendProperties
    <3>7. PICK a \in Seq(Seq(Line)) : a = initial \o << frame >> /\ a = Append(initial, frame)
      BY <3>6
    <3>8. a \o << >> = a /\ initial \o << >> = initial
      BY <2>3, ConcatEmptySeq
    <3>9. Order(written', initial \o << frame >> \o << >>, decoder'.pending.lines, stdout')
      BY <2>4, <3>2, <3>3, <3>7, <3>8
    <3>10. phase' = "reading" /\ delivered' = initial /\ initial' = initial
      BY <2>7 DEF HandOver
    <3>11. Handed(<< frame >>, << >>)'
      BY <3>4, <3>5, <3>8, <3>9, <3>10 DEF Handed
    <3>12. HandedInv'
      BY <3>11 DEF HandedInv
    <3> QED BY <3>10, <3>12 DEF OrderInv, ReadyInv, UnaskedInv, StartInv
  <2> QED BY <1>3, <2>5, <2>6, <2>7
<1> QED BY <1>2, <1>3 DEF ReadAnswer

LEMMA ReadStdoutOrder ==
  ASSUME ReaderInv, OrderInv, ReadStdout
  PROVE  OrderInv'
<1> DEFINE line == Head(stdout)
<1>1. /\ stdout # << >> /\ stdout' = Tail(stdout) /\ phase = "reading"
      /\ UNCHANGED << messages, written, initial >>
  BY DEF ReadStdout, child
<1>2. CASE phase' = "error"
  BY <1>2, FailedOrder
<1>3. CASE /\ Accepts(line) /\ decoder' = Pushed(line)
           /\ delivered' = IF Complete(line) THEN Append(delivered, Frame(line)) ELSE delivered
           /\ UNCHANGED phase
  <2>1. PICK answer, later : Handed(answer, later)
    BY <1>1 DEF OrderInv, HandedInv
  <2>2. PICK frames \in Seq(Seq(Line)) : frames = initial \o answer \o later
    BY <2>1, FramesFacts
  <2>3. Order(written, frames, decoder.pending.lines, stdout)
    BY <2>1, <2>2 DEF Handed
  <2>4. /\ ~Complete(line) => Order(written', frames, decoder'.pending.lines, stdout')
        /\ Complete(line) =>
             Order(written', Append(frames, Frame(line)), decoder'.pending.lines, stdout')
    BY <1>1, <1>3, <2>3, PushKeepsOrder
  <2>5. Answer' = Answer
    BY <1>1, AnswerSame
  <2>6. CASE ~Complete(line)
    <3>1. Handed(answer, later)'
      BY <1>1, <1>3, <2>1, <2>2, <2>4, <2>5, <2>6 DEF Handed
    <3> QED BY <1>1, <1>3, <3>1 DEF OrderInv, ReadyInv, UnaskedInv, StartInv, HandedInv
  <2>7. CASE Complete(line)
    <3>1. line \in Line /\ Placed(line) /\ line \in Range(written)
      BY <1>1, TakeLine
    <3>2. PICK frame \in Seq(Line) : frame = Frame(line)
      <4>1. Accepts(line)
        BY <1>3
      <4> HIDE DEF line
      <4> QED BY <2>7, <3>1, <4>1, PushedLines
    <3>3. /\ answer \in Answer /\ answer \in Seq(Seq(Line)) /\ later \in Seq(Seq(Line))
          /\ delivered = initial \o later /\ initial \in Seq(Seq(Line))
      BY <2>1, PendingFacts DEF Handed
    <3>4. PICK more \in Seq(Seq(Line)) : more = Append(later, frame)
      BY <3>3, AppendProperties
    <3>5. delivered' = initial \o more
      <4>1. PICK c \in Seq(Seq(Line)) : c = delivered /\ c = initial \o later
        BY <3>3, PendingFacts
      <4>2. Joined(c, initial, later) /\ Added(more, later, frame) /\ Added(delivered', c, frame)
        BY <1>3, <2>7, <3>2, <3>4, <4>1 DEF Joined, Added
      <4>3. Joined(delivered', initial, more)
        BY <3>3, <4>2, AppendLater
      <4> QED BY <4>3 DEF Joined
    <3>6. PICK a \in Seq(Seq(Line)) : a = initial \o answer
      BY <3>3, ConcatProperties
    <3>7. Append(frames, frame) = a \o more
      <4>1. PICK x : x = Append(frames, frame)
        OBVIOUS
      <4>2. Joined(frames, a, later) /\ Added(more, later, frame) /\ Added(x, frames, frame)
        BY <2>2, <3>4, <3>6, <4>1 DEF Joined, Added
      <4>3. Joined(x, a, more)
        BY <3>3, <4>2, AppendLater
      <4> QED BY <4>1, <4>3 DEF Joined
    <3>8. Order(written', initial \o answer \o more, decoder'.pending.lines, stdout')
      BY <2>2, <2>4, <2>7, <3>2, <3>6, <3>7
    <3>9. Handed(answer, more)'
      BY <1>1, <2>5, <3>3, <3>5, <3>8 DEF Handed
    <3> QED BY <1>1, <1>3, <3>9 DEF OrderInv, ReadyInv, UnaskedInv, StartInv, HandedInv
  <2> QED BY <2>6, <2>7
<1> QED BY <1>2, <1>3 DEF ReadStdout

LEMMA OrderNext ==
  ASSUME ReaderInv, OrderInv, [Next]_vars
  PROVE  OrderInv'
<1>1. ASSUME NEW type, NEW advertised, NEW shape, Begin(type, advertised, shape)
      PROVE  OrderInv'
  BY <1>1, BeginOrder
<1>2. CASE Write
  <2>1. Head(rest) \in Line
    BY <1>2, RestFacts DEF Write
  <2> QED BY <1>2, <2>1, LineOrder DEF Write
<1>3. CASE SkipChunk
  BY <1>3, QuietOrder DEF SkipChunk
<1>4. CASE Exit
  <2>1. CASE UNCHANGED << stdout, written >>
    BY <1>4, <2>1, QuietOrder DEF Exit
  <2>2. CASE /\ rest # << >>
             /\ LET line == [Head(rest) EXCEPT !.cut = TRUE]
                IN stdout' = Append(stdout, line) /\ written' = Append(written, line)
    <3>1. Head(rest) \in Line
      BY <2>2, RestFacts
    <3>2. PICK line : line = [Head(rest) EXCEPT !.cut = TRUE]
      OBVIOUS
    <3>3. line \in Line
      BY <3>1, <3>2 DEF Line
    <3>4. /\ stdout' = Append(stdout, line) /\ written' = Append(written, line)
          /\ UNCHANGED << messages, phase, decoder, initial, delivered >>
      BY <1>4, <2>2, <3>2 DEF Exit
    <3> QED BY <3>3, <3>4, LineOrder
  <2> QED BY <1>4, <2>1, <2>2 DEF Exit
<1>5. CASE StartupEof \/ StartupTimedOut
  BY <1>5, FailedOrder DEF StartupEof, StartupTimedOut, Fail
<1>6. CASE SendNegotiation
  <2>1. CASE Fail
    BY <2>1, FailedOrder DEF Fail
  <2>2. CASE /\ phase' = "negotiate"
             /\ UNCHANGED << child, stdout, limit, decoder, initial, delivered >>
    BY <1>6, <2>2, QuietOrder DEF SendNegotiation, child
  <2> QED BY <1>6, <2>1, <2>2 DEF SendNegotiation
<1>7. CASE StdoutEnds
  BY <1>7, QuietOrder DEF StdoutEnds, EndOfOutput, child
<1>8. CASE ReadReady \/ ReadAnswer \/ ReadStdout
  BY <1>8, ReadReadyOrder, ReadAnswerOrder, ReadStdoutOrder
<1>9. CASE UNCHANGED vars
  BY <1>9, QuietOrder DEF vars
<1> QED
  BY <1>1, <1>2, <1>3, <1>4, <1>5, <1>6, <1>7, <1>8, <1>9 DEF Next, Process, Reader

\* The frames handed on after the initial ones.
LEMMA LaterIs ==
  ASSUME NEW S, NEW a \in Seq(S), NEW b \in Seq(S), NEW d \in Seq(S), d = a \o b
  PROVE  SubSeq(d, Len(a) + 1, Len(d)) = b
OBVIOUS

\* Until reading fails, what the process wrote is the ready frame, the frames
\* before the answer, the answer, the frames after it, the sequence being put
\* together and the pipe, in this order, and the frames handed on are those
\* before and after the answer (initialize_rpc, read_stdout).
THEOREM NothingLostCorrect == Spec => []NothingLost
<1>1. ASSUME ReaderInv, OrderInv PROVE NothingLost
  <2> SUFFICES ASSUME phase \in {"reading", "eof"}
               PROVE  LET later == SubSeq(delivered, Len(initial) + 1, Len(delivered))
                      IN /\ delivered = initial \o later
                         /\ \E answer \in Answer :
                              written = << written[1] >> \o FlattenSeq(initial \o answer \o later)
                                          \o decoder.pending.lines \o stdout
    BY DEF NothingLost
  <2>1. PICK answer, later : Handed(answer, later)
    BY <1>1 DEF OrderInv, HandedInv
  <2>2. SubSeq(delivered, Len(initial) + 1, Len(delivered)) = later
    <3>1. /\ initial \in Seq(Seq(Line)) /\ delivered \in Seq(Seq(Line)) /\ later \in Seq(Seq(Line))
          /\ delivered = initial \o later
      BY <1>1, <2>1, PendingFacts DEF Handed
    <3> QED BY <3>1, LaterIs
  <2>3. PICK frames \in Seq(Seq(Line)) : frames = initial \o answer \o later
    BY <1>1, <2>1, FramesFacts
  <2>4. written = << written[1] >> \o FlattenSeq(frames) \o decoder.pending.lines \o stdout
    <3>1. Order(written, frames, decoder.pending.lines, stdout)
      BY <2>1, <2>3 DEF Handed
    <3>2. decoder.pending.lines \in Seq(Line) /\ stdout \in Seq(Line)
      BY <1>1, PendingFacts
    <3> QED BY <3>1, <3>2, OrderFirst
  <2>5. delivered = initial \o later /\ answer \in Answer
    BY <2>1 DEF Handed
  <2> QED BY <2>2, <2>3, <2>4, <2>5
<1>2. Spec => []OrderInv
  BY ReaderInvariant, OrderInit, OrderNext, PTL DEF Spec
<1> QED BY <1>1, <1>2, ReaderInvariant, PTL
=============================================================================

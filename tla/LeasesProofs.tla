---------------------------- MODULE LeasesProofs ----------------------------
(***************************************************************************)
(* Proofs about Leases, for any set of clients, any time to live and any   *)
(* number of questions, answers and failures: the lease of an agent and    *)
(* its timer implement an exclusive lease, the timer belongs to the lease, *)
(* a checked answer is the answer of the holder unless the holder gave the *)
(* lease back, and a dialog is closed by the answer to its own question.   *)
(***************************************************************************)
EXTENDS Leases, FiniteSetTheorems, SequenceTheorems, TLAPS

---------------------------------------------------------------------------
\* The inductive invariant.

\* There is one lease at most, and one timer.
LeaseShape ==
    /\ \A l \in lease : l \in [holder : Client, left : Nat]
    /\ \A l, m \in lease : l = m
    /\ deadline \subseteq Nat
    /\ \A m, n \in deadline : m = n

\* The lease, its timer, and how they belong together.
LeaseInv == LeaseShape /\ TimerMatchesLease

---------------------------------------------------------------------------
\* Time left never grows, and the order of two times is kept.
LEMMA LessMonotone ==
    \A m, n \in Nat : Less(m) \in Nat /\ Less(m) <= m /\ (m >= n => Less(m) >= Less(n))
  BY DEF Less

LEMMA InitLeaseInv == Init => LeaseInv
  BY DEF Init, LeaseInv, LeaseShape, TimerMatchesLease

LEMMA LineClient == \A k \in Line : k[1] \in Client /\ k[2] \in 0 .. MaxInputs
  BY DEF Line

LEMMA TtlPositive == Ttl \in Nat /\ Ttl > 0
  BY LeasesAssumption

LEMMA TickKeepsLease == LeaseInv /\ Tick => LeaseInv'
<1> SUFFICES ASSUME LeaseInv, Tick PROVE LeaseInv'
  OBVIOUS
<1>1. /\ lease' = {[l EXCEPT !.left = Less(@)] : l \in lease}
      /\ deadline' = {Less(n) : n \in deadline}
      /\ stepped' = stepped
  BY DEF Tick
<1>2. LeaseShape'
  <2>1. \A l \in lease' : l \in [holder : Client, left : Nat]
    BY <1>1, LessMonotone DEF LeaseInv, LeaseShape
  <2>2. \A l, m \in lease' : l = m
    BY <1>1 DEF LeaseInv, LeaseShape
  <2>3. deadline' \subseteq Nat /\ \A m, n \in deadline' : m = n
    BY <1>1, LessMonotone DEF LeaseInv, LeaseShape
  <2> QED
    BY <2>1, <2>2, <2>3 DEF LeaseShape
<1>3. TimerMatchesLease'
  <2>1. lease' = {} <=> deadline' = {}
    BY <1>1 DEF LeaseInv, TimerMatchesLease
  <2>2. ASSUME ~stepped, NEW l \in lease', NEW n \in deadline'
        PROVE  n >= l.left
    <3>1. PICK k \in lease : l = [k EXCEPT !.left = Less(@)]
      BY <1>1
    <3>2. PICK m \in deadline : n = Less(m)
      BY <1>1
    <3>3. k.left \in Nat /\ m \in Nat /\ m >= k.left /\ l.left = Less(k.left)
      BY <2>2, <3>1 DEF LeaseInv, LeaseShape, TimerMatchesLease
    <3> QED
      BY <3>2, <3>3, LessMonotone
  <2> QED
    BY <1>1, <2>1, <2>2 DEF TimerMatchesLease
<1> QED
  BY <1>2, <1>3 DEF LeaseInv

LEMMA ClockStepKeepsLease == LeaseInv /\ ClockStep => LeaseInv'
<1> SUFFICES ASSUME LeaseInv, ClockStep PROVE LeaseInv'
  OBVIOUS
<1>1. PICK n \in 0 .. Ttl : lease' = {[l EXCEPT !.left = n] : l \in lease}
  BY DEF ClockStep
<1>2. stepped' = TRUE /\ deadline' = deadline
  BY DEF ClockStep
<1>3. LeaseShape'
  BY <1>1, <1>2, TtlPositive DEF LeaseInv, LeaseShape
<1>4. TimerMatchesLease'
  BY <1>1, <1>2 DEF LeaseInv, TimerMatchesLease
<1> QED
  BY <1>3, <1>4 DEF LeaseInv

LEMMA ClaimKeepsLease ==
    ASSUME NEW c \in Client, Claim(c), stepped' = stepped
    PROVE  LeaseInv'
<1>1. lease' = {[holder |-> c, left |-> Ttl]} /\ deadline' = {Ttl}
  BY DEF Claim
<1>2. [holder |-> c, left |-> Ttl] \in [holder : Client, left : Nat]
  BY TtlPositive
<1>3. LeaseShape'
  BY <1>1, <1>2, TtlPositive DEF LeaseShape
<1>4. \A l \in lease', n \in deadline' : n >= l.left
  BY <1>1, TtlPositive
<1>5. TimerMatchesLease'
  BY <1>1, <1>4 DEF TimerMatchesLease
<1> QED
  BY <1>3, <1>5 DEF LeaseInv

LEMMA ClearedKeepsLease ==
    ASSUME lease' = {}, deadline' = {}
    PROVE  LeaseInv'
  BY DEF LeaseInv, LeaseShape, TimerMatchesLease

LEMMA UnchangedKeepsLease ==
    ASSUME LeaseInv, UNCHANGED actorVars, UNCHANGED stepped
    PROVE  LeaseInv'
  BY DEF LeaseInv, LeaseShape, TimerMatchesLease, actorVars

\* One step per kind of action: those that touch the lease, and the others.
LEMMA NextLeaseInv == LeaseInv /\ [Next]_vars => LeaseInv'
<1> SUFFICES ASSUME LeaseInv, [Next]_vars PROVE LeaseInv'
  OBVIOUS
<1>1. CASE Tick
  BY <1>1, TickKeepsLease
<1>2. CASE ClockStep
  BY <1>2, ClockStepKeepsLease
<1>3. CASE TimerFires
  BY <1>3, ClearedKeepsLease DEF TimerFires
<1>4. ASSUME NEW k \in Line, AcquireLease(k) PROVE LeaseInv'
  BY <1>4, ClaimKeepsLease, UnchangedKeepsLease, LineClient DEF AcquireLease
<1>5. ASSUME NEW k \in Line, ReleaseLease(k) PROVE LeaseInv'
  BY <1>5, ClearedKeepsLease, UnchangedKeepsLease DEF ReleaseLease
<1>6. ASSUME NEW k \in Line, CheckLease(k) \/ ForwardAnswer(k) \/ RepeatOperation(k)
      PROVE  LeaseInv'
  BY <1>6, UnchangedKeepsLease DEF CheckLease, ForwardAnswer, RepeatOperation
<1>7. CASE Ask
  BY <1>7, UnchangedKeepsLease DEF Ask
<1>8. ASSUME NEW c \in Client, Replay(c) \/ Reconnect(c) \/ Quit(c) PROVE LeaseInv'
  BY <1>8, UnchangedKeepsLease DEF Replay, Reconnect, Quit
<1>9. ASSUME NEW c \in Client, ReadInteraction(c) \/ LoopResumes(c) PROVE LeaseInv'
  BY <1>9, UnchangedKeepsLease DEF ReadInteraction, LoopResumes, Resumes
<1>10. ASSUME NEW c \in Client, NEW t \in Task,
              \/ Click(c, t) \/ TaskReleases(c, t) \/ TaskDismisses(c, t)
              \/ TaskFails(c, t) \/ NobodyWaits(c, t)
       PROVE  LeaseInv'
  BY <1>10, UnchangedKeepsLease
     DEF Click, TaskReleases, TaskDismisses, TaskFails, NobodyWaits, Resumes
<1>11. CASE UNCHANGED vars
  BY <1>11, UnchangedKeepsLease DEF vars, actorVars
<1> QED
  BY <1>1, <1>2, <1>3, <1>4, <1>5, <1>6, <1>7, <1>8, <1>9, <1>10, <1>11 DEF Next

\* There is one lease at most, and its timer belongs to it, in every state.
THEOREM LeaseInvariant == Spec => []LeaseInv
  BY InitLeaseInv, NextLeaseInv, PTL DEF Spec

\* A lease and its timer come and go together, and the timer does not end a
\* lease before the time promised (acquire_lease, release_lease).
THEOREM TimerCorrect == Spec => []TimerMatchesLease
<1>1. LeaseInv => TimerMatchesLease
  BY DEF LeaseInv
<1> QED
  BY <1>1, LeaseInvariant, PTL
---------------------------------------------------------------------------
\* A checked answer is its holder's.

\* What the check of send_ui_response relies on.
CheckInv == LeaseInv /\ CheckedIsHolder

LEMMA HolderIsUnique ==
    ASSUME LeaseInv, NEW c \in Client, HasLease(c), NEW l \in lease
    PROVE  l.holder = c /\ l.left > 0
  BY DEF HasLease, Holders, LeaseInv, LeaseShape

\* A step of time: it leaves the checks alone and notes which leases expire.
LEMMA NoteExpiryKeepsCheck ==
    ASSUME CheckInv, LeaseInv', NoteExpiry, UNCHANGED checked,
           \A c \in Client : HasLease(c) => \A l \in lease' : l.holder = c,
           checked \subseteq Line
    PROVE  CheckInv'
<1> SUFFICES ASSUME NEW k \in checked, k \notin lapsed'
             PROVE  HasLease(k[1])'
  BY DEF CheckInv, CheckedIsHolder
<1>1. k \notin lapsed /\ lease' # {} /\ \A l \in lease' : l.left # 0
  BY DEF NoteExpiry
<1>2. HasLease(k[1]) /\ k[1] \in Client
  BY <1>1, LineClient DEF CheckInv, CheckedIsHolder
<1>3. \A l \in lease' : l.holder = k[1] /\ l.left \in Nat
  BY <1>2 DEF LeaseInv, LeaseShape
<1> QED
  BY <1>1, <1>3 DEF HasLease, Holders

\* A step that checks nothing.
LEMMA FewerChecks ==
    ASSUME CheckInv, LeaseInv', UNCHANGED lease, checked' \ lapsed' \subseteq checked \ lapsed
    PROVE  CheckInv'
  BY DEF CheckInv, CheckedIsHolder, HasLease, Holders

LEMMA ClaimHolders == ASSUME NEW c, Claim(c) PROVE Holders' = {c}
<1>1. /\ \A l \in lease' : l.holder = c /\ l.left = Ttl
      /\ \E l \in lease' : l.holder = c /\ l.left = Ttl
  BY DEF Claim
<1>2. Holders' = {l.holder : l \in {m \in lease' : m.left > 0}}
  BY DEF Holders
<1> QED
  BY <1>1, <1>2, TtlPositive

LEMMA AcquireKeepsCheck ==
    ASSUME CheckInv, LeaseInv', NEW k \in Line, AcquireLease(k)
    PROVE  CheckInv'
<1>1. checked' \subseteq checked /\ lapsed' = lapsed
  BY DEF AcquireLease, Completes, Respond
<1>2. CASE Claimable(k[1])
  <2>1. Holders' = {k[1]}
    BY <1>2, ClaimHolders DEF AcquireLease
  <2>2. ASSUME NEW j \in checked', j \notin lapsed' PROVE j[1] \in Holders'
    <3>1. HasLease(j[1])
      BY <1>1, <2>2 DEF CheckInv, CheckedIsHolder
    <3>2. j[1] = k[1]
      BY <1>2, <3>1 DEF Claimable, HasLease
    <3> QED
      BY <2>1, <3>2
  <2> QED
    BY <2>2 DEF CheckInv, CheckedIsHolder, HasLease
<1>3. CASE ~Claimable(k[1])
  BY <1>1, <1>3, FewerChecks DEF AcquireLease, actorVars
<1> QED
  BY <1>2, <1>3

\* The release of another client is refused: of the checks that count, none has
\* lost its lease.
LEMMA ReleaseKeepsCheck ==
    ASSUME CheckInv, LeaseInv', NEW k \in Line, ReleaseLease(k), checked \subseteq Line
    PROVE  CheckInv'
<1>1. checked' \subseteq checked
  BY DEF ReleaseLease, Completes, Respond
<1>2. CASE Releasable(k[1])
  <2>1. ASSUME NEW j \in checked', j \notin lapsed' PROVE FALSE
    <3>1. j \notin lapsed /\ j[1] # k[1] /\ j[1] \in Client
      BY <1>1, <1>2, <2>1, LineClient DEF ReleaseLease
    <3>2. HasLease(j[1])
      BY <1>1, <2>1, <3>1 DEF CheckInv, CheckedIsHolder
    <3> QED
      BY <1>2, <3>1, <3>2, HolderIsUnique DEF Releasable, CheckInv
  <2> QED
    BY <2>1 DEF CheckInv, CheckedIsHolder
<1>3. CASE ~Releasable(k[1])
  BY <1>1, <1>3, FewerChecks DEF ReleaseLease, actorVars
<1> QED
  BY <1>2, <1>3

LEMMA CheckKeepsCheck ==
    ASSUME CheckInv, LeaseInv', NEW k \in Line, CheckLease(k)
    PROVE  CheckInv'
<1>1. CASE HasLease(k[1])
  BY <1>1 DEF CheckLease, CheckInv, CheckedIsHolder, HasLease, Holders, actorVars
<1>2. CASE ~HasLease(k[1])
  BY <1>2, FewerChecks DEF CheckLease, Completes, Respond, actorVars
<1> QED
  BY <1>1, <1>2

LEMMA NextCheckInv == CheckInv /\ checked \subseteq Line /\ [Next]_vars => CheckInv'
<1> SUFFICES ASSUME CheckInv, checked \subseteq Line, [Next]_vars PROVE CheckInv'
  OBVIOUS
<1>0. LeaseInv /\ LeaseInv'
  BY NextLeaseInv DEF CheckInv
<1>1. CASE Tick
  <2>1. ASSUME NEW c \in Client, HasLease(c), NEW l \in lease' PROVE l.holder = c
    <3>1. PICK m \in lease : l = [m EXCEPT !.left = Less(@)]
      BY <1>1, <2>1 DEF Tick
    <3> QED
      BY <1>0, <2>1, <3>1, HolderIsUnique DEF LeaseInv, LeaseShape
  <2> QED
    BY <1>0, <1>1, <2>1, NoteExpiryKeepsCheck DEF Tick, lineVars
<1>2. CASE ClockStep
  <2>1. ASSUME NEW c \in Client, HasLease(c), NEW l \in lease' PROVE l.holder = c
    <3>1. PICK n \in 0 .. Ttl, m \in lease : l = [m EXCEPT !.left = n]
      BY <1>2, <2>1 DEF ClockStep
    <3> QED
      BY <1>0, <2>1, <3>1, HolderIsUnique DEF LeaseInv, LeaseShape
  <2> QED
    BY <1>0, <1>2, <2>1, NoteExpiryKeepsCheck DEF ClockStep, lineVars
<1>3. CASE TimerFires
  BY <1>0, <1>3, NoteExpiryKeepsCheck DEF TimerFires, lineVars
<1>4. ASSUME NEW k \in Line, AcquireLease(k) PROVE CheckInv'
  BY <1>0, <1>4, AcquireKeepsCheck
<1>5. ASSUME NEW k \in Line, ReleaseLease(k) PROVE CheckInv'
  BY <1>0, <1>5, ReleaseKeepsCheck
<1>6. ASSUME NEW k \in Line, CheckLease(k) PROVE CheckInv'
  BY <1>0, <1>6, CheckKeepsCheck
<1>7. ASSUME NEW k \in Line, ForwardAnswer(k) \/ RepeatOperation(k) PROVE CheckInv'
  BY <1>0, <1>7, FewerChecks DEF ForwardAnswer, RepeatOperation, Completes, Respond, actorVars
<1>8. CASE Ask
  BY <1>0, <1>8, FewerChecks DEF Ask, actorVars, lineVars
<1>9. ASSUME NEW c \in Client, Replay(c) \/ Reconnect(c) \/ Quit(c) PROVE CheckInv'
  BY <1>0, <1>9, FewerChecks DEF Replay, Reconnect, Quit, actorVars, lineVars
<1>10. ASSUME NEW c \in Client, ReadInteraction(c) \/ LoopResumes(c) PROVE CheckInv'
  BY <1>0, <1>10, FewerChecks DEF ReadInteraction, LoopResumes, Resumes, actorVars
<1>11. ASSUME NEW c \in Client, NEW t \in Task,
              \/ Click(c, t) \/ TaskReleases(c, t) \/ TaskDismisses(c, t)
              \/ TaskFails(c, t) \/ NobodyWaits(c, t)
       PROVE  CheckInv'
  BY <1>0, <1>11, FewerChecks
     DEF Click, TaskReleases, TaskDismisses, TaskFails, NobodyWaits, Resumes, actorVars
<1>12. CASE UNCHANGED vars
  BY <1>0, <1>12, FewerChecks DEF vars, actorVars, lineVars
<1> QED
  BY <1>1, <1>2, <1>3, <1>4, <1>5, <1>6, <1>7, <1>8, <1>9, <1>10, <1>11, <1>12 DEF Next

---------------------------------------------------------------------------
\* The refinement.

LEMMA SameHolders ==
    ASSUME UNCHANGED lease
    PROVE  UNCHANGED Holders
  BY DEF Holders

\* Nobody has the lease, or one client has it.
LEMMA HoldersShape ==
    ASSUME LeaseInv
    PROVE  Holders = {} \/ \E c \in Client : Holders = {c} /\ \A l \in lease : l.holder = c
  BY DEF Holders, LeaseInv, LeaseShape

\* A step after which there is no lease of another client than before.
LEMMA NoNewHolder ==
    ASSUME LeaseInv, LeaseInv',
           \A l \in lease' : \E k \in lease : l.holder = k.holder
    PROVE  [Exclusive!Next]_Holders
<1>1. CASE Holders' = {}
  BY <1>1 DEF Exclusive!Next, Exclusive!Lose
<1>2. CASE Holders' # {}
  <2>1. PICK c \in Client : Holders' = {c} /\ \A l \in lease' : l.holder = c
    BY <1>2, HoldersShape DEF Holders, LeaseInv, LeaseShape
  <2>2. \E l \in lease' : l.holder = c
    BY <2>1 DEF Holders
  <2>3. \A k \in lease : k.holder = c
    BY <2>2 DEF LeaseInv, LeaseShape
  <2>4. Holders \subseteq {c}
    BY <2>3 DEF Holders
  <2> QED
    BY <2>1, <2>4 DEF Exclusive!Next, Exclusive!Acquire
<1> QED
  BY <1>1, <1>2

LEMMA ClaimRefines ==
    ASSUME NEW c \in Client, Claimable(c), Claim(c)
    PROVE  [Exclusive!Next]_Holders
<1>1. Holders' = {c}
  BY ClaimHolders
<1> QED
  BY <1>1 DEF Claimable, Exclusive!Next, Exclusive!Acquire

LEMMA StepRefines ==
    ASSUME LeaseInv, LeaseInv', [Next]_vars
    PROVE  [Exclusive!Next]_Holders
<1>1. CASE Tick
  BY <1>1, NoNewHolder DEF Tick, LeaseInv, LeaseShape
<1>2. CASE ClockStep
  BY <1>2, NoNewHolder DEF ClockStep, LeaseInv, LeaseShape
<1>3. CASE TimerFires
  BY <1>3, NoNewHolder DEF TimerFires
<1>4. ASSUME NEW k \in Line, AcquireLease(k) PROVE [Exclusive!Next]_Holders
  BY <1>4, ClaimRefines, SameHolders, LineClient DEF AcquireLease, actorVars
<1>5. ASSUME NEW k \in Line, ReleaseLease(k) PROVE [Exclusive!Next]_Holders
  BY <1>5, NoNewHolder, SameHolders DEF ReleaseLease, actorVars
<1>6. ASSUME NEW k \in Line, CheckLease(k) \/ ForwardAnswer(k) \/ RepeatOperation(k)
      PROVE  UNCHANGED lease
  BY <1>6 DEF CheckLease, ForwardAnswer, RepeatOperation, actorVars
<1>7. ASSUME Ask \/ UNCHANGED vars PROVE UNCHANGED lease
  BY <1>7 DEF Ask, vars, actorVars
<1>8. ASSUME NEW c \in Client,
             \/ Replay(c) \/ Reconnect(c) \/ Quit(c) \/ ReadInteraction(c) \/ LoopResumes(c)
      PROVE  UNCHANGED lease
  BY <1>8 DEF Replay, Reconnect, Quit, ReadInteraction, LoopResumes, Resumes, actorVars
<1>9. ASSUME NEW c \in Client, NEW t \in Task,
             \/ Click(c, t) \/ TaskReleases(c, t) \/ TaskDismisses(c, t)
             \/ TaskFails(c, t) \/ NobodyWaits(c, t)
      PROVE  UNCHANGED lease
  BY <1>9 DEF Click, TaskReleases, TaskDismisses, TaskFails, NobodyWaits, Resumes, actorVars
<1> QED
  BY <1>1, <1>2, <1>3, <1>4, <1>5, <1>6, <1>7, <1>8, <1>9, SameHolders DEF Next

\* The lease of the actor, with its timer, its renewals and a wall clock that is
\* set, implements an exclusive lease: it changes hands only through nobody.
THEOREM LeasesRefine == Spec => ImplementsExclusiveLease
<1>1. Init => Exclusive!Init
  BY DEF Init, Exclusive!Init, Holders
<1>2. LeaseInv /\ LeaseInv' /\ [Next]_vars => [Exclusive!Next]_Holders
  BY StepRefines
<1> QED
  BY <1>1, <1>2, LeaseInvariant, PTL DEF Spec, ImplementsExclusiveLease, Exclusive!Spec

---------------------------------------------------------------------------
\* The state stays well formed: the invariant.

Request == [kind : {"acquire", "release", "respond"}, question : Question \cup {0},
            task : Task \cup {0}, row : {"absent", "pending", "good", "failed"}]

Response == [key : Nat, good : BOOLEAN]

Interaction == [question : Question, lease : {"acquiring", "owned", "unavailable"}]

Responder == [at : {"none", "responding", "releasing", "ended"},
              client : SUBSET Client, question : Question \cup {0}]

Elements(q) == {q[i] : i \in 1 .. Len(q)}

\* The actor: no time left passes the time to live.
TimesInv ==
    /\ \A l \in lease : l.left \in 0 .. Ttl
    /\ deadline \subseteq 0 .. Ttl
    /\ stepped \in BOOLEAN
    /\ inputs \in 0 .. MaxInputs
    /\ asked \in 0 .. MaxQuestions

\* A client: what it shows, waits for and answers.
ClientsInv ==
    /\ feed \in [Client -> Seq(Question)]
    /\ shown \in [Client -> SUBSET Interaction]
    /\ loop \in [Client -> {"idle", "acquiring", "ended"}]
    /\ task \in [Task -> Responder]

\* An answer is to a question, and was forwarded if it was accepted.
Sound(c, m) ==
    m.kind = "respond" =>
       m.question \in Question /\ (m.row = "good" => <<c, m.question>> \in answers)

\* The requests and the rows of the table of operations.
RequestsInv ==
    /\ requests \in [Client -> Seq(Request)]
    /\ answers \subseteq Client \X Question
    /\ \A c \in Client : \A i \in 1 .. Len(requests[c]) : Sound(c, requests[c][i])

\* The connections: what is on its way was requested.
WireInv ==
    /\ current \in [Client -> 0 .. MaxInputs]
    /\ \A c \in Client : current[c] <= inputs
    /\ wire \in [Line -> Seq(Nat)]
    /\ \A k \in Line : Elements(wire[k]) \subseteq 1 .. Len(requests[k[1]])
    /\ \A k \in Line : wire[k] # << >> => k[2] <= current[k[1]]

\* A checked answer is the first request of its connection, and no other
\* connection executes the same request.
ChecksInv ==
    /\ lapsed \subseteq checked /\ checked \subseteq Line
    /\ \A k \in checked :
          wire[k] # << >> /\ Asks(k).kind = "respond" /\ Asks(k).row = "pending"
    /\ \A j, k \in checked : j[1] = k[1] /\ Key(j) = Key(k) => j = k

\* What a response says is what the row says.
ResponsesInv ==
    /\ responses \in [Client -> Seq(Response)]
    /\ \A c \in Client : \A r \in Elements(responses[c]) :
          /\ r.key \in 1 .. Len(requests[c])
          /\ r.good => requests[c][r.key].row = "good"

LinesInv == RequestsInv /\ WireInv /\ ChecksInv /\ ResponsesInv

LeasesInv == LeaseInv /\ TimesInv /\ ClientsInv /\ LinesInv

---------------------------------------------------------------------------
\* Lemmas about queues.

LEMMA ElementsEmpty == Elements(<< >>) = {}
  BY DEF Elements

LEMMA ElementsTail ==
    ASSUME NEW S, NEW q \in Seq(S), q # << >>
    PROVE  /\ Head(q) \in S /\ Head(q) \in Elements(q)
           /\ Tail(q) \in Seq(S) /\ Elements(Tail(q)) \subseteq Elements(q)
<1> DEFINE t == Tail(q)
<1>1. /\ Head(q) = q[1] /\ q[1] \in S /\ t \in Seq(S) /\ Len(q) \in Nat /\ Len(q) >= 1
      /\ Len(t) = Len(q) - 1 /\ \A i \in 1 .. Len(q) - 1 : t[i] = q[i + 1]
  OBVIOUS
<1> HIDE DEF t
<1>2. ASSUME NEW i \in 1 .. Len(t) PROVE t[i] \in Elements(q)
  <2>1. t[i] = q[i + 1] /\ i + 1 \in 1 .. Len(q)
    BY <1>1
  <2> QED
    BY <2>1 DEF Elements
<1>3. q[1] \in Elements(q)
  BY <1>1 DEF Elements
<1>4. Elements(t) \subseteq Elements(q)
  BY <1>2 DEF Elements
<1> QED
  BY <1>1, <1>3, <1>4 DEF t

LEMMA ElementsAppend ==
    ASSUME NEW S, NEW q \in Seq(S), NEW m \in S
    PROVE  /\ Append(q, m) \in Seq(S) /\ Append(q, m) # << >>
           /\ Elements(Append(q, m)) = Elements(q) \cup {m}
           /\ q # << >> => Head(Append(q, m)) = Head(q)
<1> DEFINE t == Append(q, m)
<1>1. /\ t \in Seq(S) /\ Len(t) = Len(q) + 1 /\ Len(q) \in Nat /\ t # << >>
      /\ (\A i \in 1 .. Len(q) : t[i] = q[i]) /\ t[Len(q) + 1] = m
  BY AppendProperties, LenProperties
<1>2. q # << >> => Head(t) = Head(q)
  BY HeadTailAppend
<1> HIDE DEF t
<1>3. \A i \in 1 .. Len(q) + 1 : i \in 1 .. Len(q) \/ i = Len(q) + 1
  BY <1>1
<1>4. Elements(t) = Elements(q) \cup {m}
  BY <1>1, <1>3 DEF Elements
<1> QED
  BY <1>1, <1>2, <1>4 DEF t

LEMMA ElementsPrefix ==
    ASSUME NEW S, NEW q \in Seq(S), NEW n \in 0 .. Len(q)
    PROVE  /\ SubSeq(q, 1, n) \in Seq(S) /\ Elements(SubSeq(q, 1, n)) \subseteq Elements(q)
           /\ n > 0 => SubSeq(q, 1, n) # << >> /\ Head(SubSeq(q, 1, n)) = Head(q)
<1> DEFINE t == SubSeq(q, 1, n)
<1>1. Len(q) \in Nat /\ n \in Nat /\ \A i \in 1 .. Len(q) : q[i] \in S
  BY LenProperties
<1>2. /\ t \in Seq(S) /\ Len(t) = n
      /\ \A i \in 1 .. n : t[i] = q[i] /\ i \in 1 .. Len(q)
  <2>1. \A i \in 1 .. n : q[i] \in S
    BY <1>1
  <2>2. /\ t \in Seq(S) /\ Len(t) = (IF 1 <= n THEN n - 1 + 1 ELSE 0)
        /\ \A i \in 1 .. n - 1 + 1 : t[i] = q[1 + i - 1]
    BY <1>1, <2>1, SubSeqProperties
  <2> HIDE DEF t
  <2> QED
    BY <1>1, <2>2
<1> HIDE DEF t
<1>3. Elements(t) \subseteq Elements(q)
  BY <1>2 DEF Elements
<1>4. n > 0 => t # << >> /\ Head(t) = Head(q)
  <2>1. n > 0 => t # << >> /\ q # << >> /\ 1 \in 1 .. n
    BY <1>1, <1>2
  <2> QED
    BY <1>2, <2>1
<1> QED
  BY <1>2, <1>3, <1>4 DEF t

---------------------------------------------------------------------------
\* Lemmas about the requests and the connections.

\* A step keeps the requests there are, and the rows of those that were accepted.
RequestsKept ==
    \A c \in Client : \A i \in 1 .. Len(requests[c]) :
       /\ i \in 1 .. Len(requests'[c])
       /\ requests'[c][i].kind = requests[c][i].kind
       /\ requests'[c][i].question = requests[c][i].question
       /\ requests'[c][i].task = requests[c][i].task
       /\ requests[c][i].row = "good" => requests'[c][i].row = "good"

LEMMA FirstRequest ==
    ASSUME LinesInv, NEW k \in Line, wire[k] # << >>
    PROVE  /\ k[1] \in Client /\ Key(k) \in Nat /\ Key(k) \in 1 .. Len(requests[k[1]])
           /\ Key(k) \in Elements(wire[k])
           /\ Asks(k) \in Request /\ Sound(k[1], Asks(k))
           /\ Tail(wire[k]) \in Seq(Nat) /\ Elements(Tail(wire[k])) \subseteq Elements(wire[k])
<1>1. k[1] \in Client /\ wire[k] \in Seq(Nat)
  BY LineClient DEF LinesInv, WireInv
<1>2. /\ Key(k) \in Nat /\ Key(k) \in Elements(wire[k])
      /\ Tail(wire[k]) \in Seq(Nat) /\ Elements(Tail(wire[k])) \subseteq Elements(wire[k])
  BY <1>1, ElementsTail DEF Key
<1>3. Key(k) \in 1 .. Len(requests[k[1]])
  BY <1>2 DEF LinesInv, WireInv
<1>4. Asks(k) \in Request /\ Sound(k[1], Asks(k))
  BY <1>1, <1>3, ElementOfSeq DEF LinesInv, RequestsInv, Asks
<1> QED
  BY <1>1, <1>2, <1>3, <1>4

\* The row of a request is written.
RowSet(c, i, v) == requests' = [requests EXCEPT ![c][i].row = v]

RowOnly(c, i, v) ==
    /\ requests' \in [Client -> Seq(Request)]
    /\ \A d \in Client : Len(requests'[d]) = Len(requests[d])
    /\ requests'[c][i] = [requests[c][i] EXCEPT !.row = v]
    /\ \A d \in Client : \A j \in 1 .. Len(requests[d]) :
          d # c \/ j # i => requests'[d][j] = requests[d][j]

LEMMA SetRow ==
    ASSUME requests \in [Client -> Seq(Request)], NEW c \in Client,
           NEW i \in 1 .. Len(requests[c]), NEW v \in {"absent", "pending", "good", "failed"},
           RowSet(c, i, v)
    PROVE  RowOnly(c, i, v)
<1> DEFINE q == requests[c]
           m == [q[i] EXCEPT !.row = v]
           p == [q EXCEPT ![i] = m]
<1>1. q \in Seq(Request) /\ i \in 1 .. Len(q)
  OBVIOUS
<1>2. q[i] \in Request
  BY <1>1, ElementOfSeq
<1>3. m \in Request
  BY <1>2 DEF Request
<1>4. requests' = [requests EXCEPT ![c] = p]
  BY DEF RowSet
<1> HIDE DEF q, m
<1>5. /\ p \in Seq(Request) /\ Len(p) = Len(q)
      /\ \A j \in 1 .. Len(q) : p[j] = IF j = i THEN m ELSE q[j]
  BY <1>1, <1>3, ExceptSeq
<1> HIDE DEF p
<1>6. \A d \in Client : requests'[d] = IF d = c THEN p ELSE requests[d]
  BY <1>4
<1>7. requests' \in [Client -> Seq(Request)]
  BY <1>4, <1>5
<1> QED
  BY <1>1, <1>5, <1>6, <1>7 DEF m, q, RowOnly

LEMMA SetRowKeeps ==
    ASSUME RequestsInv, NEW c \in Client, NEW i \in 1 .. Len(requests[c]),
           NEW v \in {"absent", "pending", "good", "failed"},
           RowSet(c, i, v),
           answers \subseteq answers', answers' \subseteq Client \X Question,
           requests[c][i].row # "good",
           v = "good" /\ requests[c][i].kind = "respond" =>
              <<c, requests[c][i].question>> \in answers'
    PROVE  RequestsInv' /\ RequestsKept /\ RowOnly(c, i, v)
<1>0. requests \in [Client -> Seq(Request)]
  BY DEF RequestsInv
<1>6. RowOnly(c, i, v)
  BY <1>0, SetRow
<1>1. /\ requests' \in [Client -> Seq(Request)]
      /\ \A d \in Client : Len(requests'[d]) = Len(requests[d])
      /\ requests'[c][i] = [requests[c][i] EXCEPT !.row = v]
      /\ \A d \in Client : \A j \in 1 .. Len(requests[d]) :
            d # c \/ j # i => requests'[d][j] = requests[d][j]
  BY <1>6 DEF RowOnly
<1>2. requests[c][i] \in Request
  BY <1>0, ElementOfSeq
<1>3. /\ requests'[c][i].kind = requests[c][i].kind
      /\ requests'[c][i].question = requests[c][i].question
      /\ requests'[c][i].task = requests[c][i].task /\ requests'[c][i].row = v
  BY <1>1, <1>2 DEF Request
<1>4. RequestsKept
  BY <1>1, <1>3 DEF RequestsKept
<1>5. ASSUME NEW d \in Client, NEW j \in 1 .. Len(requests'[d])
      PROVE  Sound(d, requests[d][j])'
  <2>1. j \in 1 .. Len(requests[d]) /\ Sound(d, requests[d][j])
    BY <1>1, <1>5 DEF RequestsInv
  <2>2. CASE d = c /\ j = i
    BY <1>3, <2>1, <2>2 DEF Sound
  <2>3. CASE d # c \/ j # i
    BY <1>1, <2>1, <2>3 DEF Sound
  <2> QED
    BY <2>2, <2>3
<1> QED
  BY <1>1, <1>6, <1>4, <1>5 DEF RequestsInv

\* The first request of a connection is answered.
LEMMA RespondKeepsWire ==
    ASSUME LinesInv, NEW k \in Line, wire[k] # << >>, RequestsKept, inputs' \in Nat, inputs' >= inputs,
           inputs \in Nat,
           wire' = [wire EXCEPT ![k] = Tail(@)], UNCHANGED current
    PROVE  WireInv'
<1>1. Tail(wire[k]) \in Seq(Nat) /\ Elements(Tail(wire[k])) \subseteq Elements(wire[k])
  BY FirstRequest
<1>2. wire' \in [Line -> Seq(Nat)]
  BY <1>1 DEF LinesInv, WireInv
<1>3. \A j \in Line : /\ Elements(wire'[j]) \subseteq Elements(wire[j])
                      /\ wire'[j] # << >> => wire[j] # << >>
  BY <1>1 DEF LinesInv, WireInv
<1>4. \A j \in Line : 1 .. Len(requests[j[1]]) \subseteq 1 .. Len(requests'[j[1]])
  BY LineClient DEF RequestsKept
<1>5. current' \in [Client -> 0 .. MaxInputs] /\ \A c \in Client : current'[c] <= inputs'
  BY LeasesAssumption DEF LinesInv, WireInv
<1>6. \A j \in Line : Elements(wire'[j]) \subseteq 1 .. Len(requests'[j[1]])
  BY <1>3, <1>4 DEF LinesInv, WireInv
<1> QED
  BY <1>2, <1>3, <1>5, <1>6 DEF LinesInv, WireInv

LEMMA FewerChecksKept ==
    ASSUME LinesInv, RequestsKept, checked' \subseteq checked, lapsed' \subseteq checked',
           \A j \in checked' : wire'[j] # << >> /\ Head(wire'[j]) = Head(wire[j]),
           \A j \in checked' : requests'[j[1]][Key(j)].row = Asks(j).row
    PROVE  ChecksInv'
<1>1. ASSUME NEW j \in checked'
      PROVE  /\ j \in Line /\ j[1] \in Client /\ Key(j)' = Key(j)
             /\ Asks(j)'.kind = "respond" /\ Asks(j)'.row = "pending"
  <2>1. j \in Line /\ wire[j] # << >> /\ Asks(j).kind = "respond" /\ Asks(j).row = "pending"
    BY <1>1 DEF LinesInv, ChecksInv
  <2>2. j[1] \in Client /\ Key(j) \in 1 .. Len(requests[j[1]])
    BY <2>1, FirstRequest
  <2>3. Key(j)' = Key(j)
    BY <1>1 DEF Key
  <2>4. Asks(j)' = requests'[j[1]][Key(j)]
    BY <2>3 DEF Asks
  <2>5. requests'[j[1]][Key(j)].kind = Asks(j).kind
    BY <2>2 DEF RequestsKept, Asks
  <2> QED
    BY <1>1, <2>1, <2>2, <2>3, <2>4, <2>5
<1>2. \A i, j \in checked' : i[1] = j[1] /\ Key(i)' = Key(j)' => i = j
  BY <1>1 DEF LinesInv, ChecksInv
<1> QED
  BY <1>1, <1>2 DEF LinesInv, ChecksInv

LEMMA RespondKeepsResponses ==
    ASSUME LinesInv, NEW k \in Line, wire[k] # << >>, RequestsKept, NEW good \in BOOLEAN,
           \/ UNCHANGED responses
           \/ responses' = [responses EXCEPT ![k[1]] = Append(@, [key |-> Key(k), good |-> good])],
           good => requests'[k[1]][Key(k)].row = "good"
    PROVE  ResponsesInv'
<1>1. /\ k[1] \in Client /\ Key(k) \in Nat /\ Key(k) \in 1 .. Len(requests[k[1]])
  BY FirstRequest
<1> DEFINE r == [key |-> Key(k), good |-> good]
           q == Append(responses[k[1]], r)
<1>2. r \in Response /\ r.key = Key(k) /\ r.good = good
  BY <1>1 DEF Response
<1>3. responses[k[1]] \in Seq(Response)
  BY <1>1 DEF LinesInv, ResponsesInv
<1>4. q \in Seq(Response) /\ Elements(q) = Elements(responses[k[1]]) \cup {r}
  BY <1>2, <1>3, ElementsAppend
<1>5. UNCHANGED responses \/ responses' = [responses EXCEPT ![k[1]] = q]
  OBVIOUS
<1> HIDE DEF r, q
<1>6. /\ responses' \in [Client -> Seq(Response)]
      /\ \A c \in Client : \A e \in Elements(responses'[c]) :
            e \in Elements(responses[c]) \/ (c = k[1] /\ e = r)
  <2>1. responses \in [Client -> Seq(Response)]
    BY DEF LinesInv, ResponsesInv
  <2>2. CASE UNCHANGED responses
    BY <2>1, <2>2
  <2>3. CASE responses' = [responses EXCEPT ![k[1]] = q]
    <3>1. responses' \in [Client -> Seq(Response)]
      BY <1>4, <2>1, <2>3
    <3>2. \A c \in Client : responses'[c] = IF c = k[1] THEN q ELSE responses[c]
      BY <2>1, <2>3
    <3> QED
      BY <1>4, <3>1, <3>2
  <2> QED
    BY <1>5, <2>2, <2>3
<1>7. ASSUME NEW c \in Client, NEW e \in Elements(responses'[c])
      PROVE  /\ e.key \in 1 .. Len(requests'[c])
             /\ e.good => requests'[c][e.key].row = "good"
  <2>1. CASE e \in Elements(responses[c])
    <3>1. e.key \in 1 .. Len(requests[c]) /\ (e.good => requests[c][e.key].row = "good")
      BY <2>1 DEF LinesInv, ResponsesInv
    <3> QED
      BY <3>1 DEF RequestsKept
  <2>2. CASE c = k[1] /\ e = r
    BY <1>1, <1>2, <2>2 DEF RequestsKept
  <2> QED
    BY <1>6, <1>7, <2>1, <2>2
<1> QED
  BY <1>6, <1>7 DEF ResponsesInv

\* A request is executed to its end, and the response goes out.
LEMMA CompletesKeeps ==
    ASSUME LinesInv, NEW k \in Line, NEW good \in BOOLEAN, Completes(k, good),
           wire[k] # << >>, Asks(k).row = "absent" \/ k \in checked,
           answers \subseteq answers', answers' \subseteq Client \X Question,
           good /\ Asks(k).kind = "respond" => <<k[1], Asks(k).question>> \in answers',
           inputs \in Nat, inputs' \in Nat, inputs' >= inputs, lapsed' \subseteq checked \ {k}
    PROVE  LinesInv' /\ RequestsKept
<1> DEFINE v == IF good THEN "good" ELSE "failed"
<1>1. /\ k[1] \in Client /\ Key(k) \in 1 .. Len(requests[k[1]])
      /\ Asks(k) = requests[k[1]][Key(k)] /\ Asks(k) \in Request
  BY FirstRequest DEF Asks
<1>2. Asks(k).row # "good"
  BY DEF LinesInv, ChecksInv
<1>3. RowSet(k[1], Key(k), v) /\ v \in {"absent", "pending", "good", "failed"} /\ (v = "good" <=> good)
  BY DEF Completes, RowSet
<1> HIDE DEF v
<1>0. RequestsInv
  BY DEF LinesInv
<1>a. RequestsInv' /\ RequestsKept /\ RowOnly(k[1], Key(k), v)
  BY <1>0, <1>1, <1>2, <1>3, SetRowKeeps
<1>4. /\ RequestsInv' /\ RequestsKept
      /\ requests'[k[1]][Key(k)] = [requests[k[1]][Key(k)] EXCEPT !.row = v]
      /\ \A d \in Client : \A j \in 1 .. Len(requests[d]) :
            d # k[1] \/ j # Key(k) => requests'[d][j] = requests[d][j]
  BY <1>a DEF RowOnly
<1>5. WireInv'
  BY <1>4, RespondKeepsWire DEF Completes, Respond
<1>6. ChecksInv'
  <2>1. checked' = checked \ {k}
    BY DEF Completes, Respond
  <2>2. ASSUME NEW j \in checked' PROVE wire'[j] # << >> /\ Head(wire'[j]) = Head(wire[j])
    BY <2>1, <2>2 DEF Completes, Respond, LinesInv, WireInv, ChecksInv
  <2>3. ASSUME NEW j \in checked' PROVE requests'[j[1]][Key(j)].row = Asks(j).row
    <3>1. j \in Line /\ wire[j] # << >> /\ Asks(j).row = "pending" /\ j \in checked /\ j # k
      BY <2>1, <2>3 DEF LinesInv, ChecksInv
    <3>2. j[1] \in Client /\ Key(j) \in 1 .. Len(requests[j[1]])
      BY <3>1, FirstRequest
    <3>3. ~(j[1] = k[1] /\ Key(j) = Key(k))
      BY <3>1 DEF LinesInv, ChecksInv, Asks
    <3> QED
      BY <1>4, <3>2, <3>3 DEF Asks
  <2> QED
    BY <1>4, <2>1, <2>2, <2>3, FewerChecksKept
<1>7. ResponsesInv'
  <2>1. good => requests'[k[1]][Key(k)].row = "good"
    BY <1>1, <1>3, <1>4 DEF Request
  <2> QED
    BY <1>4, <2>1, RespondKeepsResponses DEF Completes, Respond
<1> QED
  BY <1>4, <1>5, <1>6, <1>7 DEF LinesInv

LEMMA UnchangedRequests == UNCHANGED requests => RequestsKept
  BY DEF RequestsKept

LEMMA SameRequests ==
    ASSUME RequestsInv, UNCHANGED <<requests, answers>>
    PROVE  RequestsInv'
  BY DEF RequestsInv, Sound

LEMMA RepeatKeeps ==
    ASSUME LinesInv, NEW k \in Line, RepeatOperation(k), inputs \in Nat
    PROVE  LinesInv' /\ RequestsKept
<1>1. wire[k] # << >> /\ k \notin checked /\ UNCHANGED <<requests, answers, inputs, lapsed>>
  BY DEF RepeatOperation, Reads, agentVars
<1>2. RequestsKept
  BY <1>1, UnchangedRequests
<1>3. PICK good \in BOOLEAN : /\ Respond(k, good)
                              /\ good => Asks(k).row = "good"
  BY DEF RepeatOperation
<1>4. RequestsInv'
  <2>1. RequestsInv /\ UNCHANGED <<requests, answers>>
    BY <1>1 DEF LinesInv
  <2> QED
    BY <2>1, SameRequests
<1>5. WireInv'
  <2>1. /\ inputs' \in Nat /\ inputs' >= inputs
        /\ wire' = [wire EXCEPT ![k] = Tail(@)] /\ UNCHANGED current
    BY <1>1, <1>3 DEF Respond
  <2> QED
    BY <1>1, <1>2, <2>1, RespondKeepsWire
<1>6. ChecksInv'
  <2>1. checked' = checked /\ lapsed' \subseteq checked'
    BY <1>1, <1>3 DEF Respond, LinesInv, ChecksInv
  <2>2. \A j \in checked' : wire'[j] # << >> /\ Head(wire'[j]) = Head(wire[j])
    BY <1>1, <1>3, <2>1 DEF Respond, LinesInv, WireInv, ChecksInv
  <2>3. \A j \in checked' : requests'[j[1]][Key(j)].row = Asks(j).row
    BY <1>1 DEF Asks
  <2> QED
    BY <1>2, <2>1, <2>2, <2>3, FewerChecksKept
<1>7. ResponsesInv'
  BY <1>1, <1>2, <1>3, RespondKeepsResponses DEF Respond, Asks
<1> QED
  BY <1>2, <1>4, <1>5, <1>6, <1>7 DEF LinesInv

\* An answer is checked.
LEMMA CheckedKeeps ==
    ASSUME LinesInv, NEW k \in Line, CheckLease(k), HasLease(k[1])
    PROVE  LinesInv' /\ RequestsKept
<1>1. /\ wire[k] # << >> /\ k \notin checked /\ Asks(k).kind = "respond" /\ Asks(k).row = "absent"
      /\ checked' = checked \cup {k} /\ RowSet(k[1], Key(k), "pending")
      /\ UNCHANGED <<wire, current, responses, answers, inputs, lapsed>>
  BY DEF CheckLease, Executes, Reads, RowSet, agentVars
<1>2. /\ k[1] \in Client /\ Key(k) \in 1 .. Len(requests[k[1]])
      /\ Asks(k) = requests[k[1]][Key(k)] /\ Asks(k) \in Request
  BY <1>1, FirstRequest DEF Asks
<1>3. answers' \subseteq Client \X Question /\ answers \subseteq answers'
  BY <1>1 DEF LinesInv, RequestsInv
<1>0. RequestsInv
  BY DEF LinesInv
<1>a. RequestsInv' /\ RequestsKept /\ RowOnly(k[1], Key(k), "pending")
  BY <1>0, <1>1, <1>2, <1>3, SetRowKeeps
<1>4. /\ RequestsInv' /\ RequestsKept
      /\ requests'[k[1]][Key(k)] = [requests[k[1]][Key(k)] EXCEPT !.row = "pending"]
      /\ \A d \in Client : \A j \in 1 .. Len(requests[d]) :
            d # k[1] \/ j # Key(k) => requests'[d][j] = requests[d][j]
  BY <1>a DEF RowOnly
<1>5. WireInv'
  <2>1. \A j \in Line : 1 .. Len(requests[j[1]]) \subseteq 1 .. Len(requests'[j[1]])
    BY <1>4, LineClient DEF RequestsKept
  <2> QED
    BY <1>1, <2>1 DEF LinesInv, WireInv
<1>6. ResponsesInv'
  BY <1>1, <1>4 DEF LinesInv, ResponsesInv, RequestsKept
<1>7. ASSUME NEW j \in checked, j # k
      PROVE  /\ j \in Line /\ Key(j)' = Key(j) /\ ~(j[1] = k[1] /\ Key(j) = Key(k))
             /\ Asks(j)'.kind = "respond" /\ Asks(j)'.row = "pending"
  <2>1. j \in Line /\ wire[j] # << >> /\ Asks(j).kind = "respond" /\ Asks(j).row = "pending"
    BY DEF LinesInv, ChecksInv
  <2>2. j[1] \in Client /\ Key(j) \in 1 .. Len(requests[j[1]])
    BY <2>1, FirstRequest
  <2>3. ~(j[1] = k[1] /\ Key(j) = Key(k))
    BY <1>1, <2>1 DEF Asks
  <2>4. Key(j)' = Key(j)
    BY <1>1 DEF Key
  <2>5. Asks(j)' = Asks(j)
    BY <1>4, <2>2, <2>3, <2>4 DEF Asks
  <2> QED
    BY <2>1, <2>3, <2>4, <2>5
<1>8. Key(k)' = Key(k) /\ Asks(k)'.kind = "respond" /\ Asks(k)'.row = "pending"
  <2>1. Key(k)' = Key(k)
    BY <1>1 DEF Key
  <2>2. Asks(k)' = [Asks(k) EXCEPT !.row = "pending"]
    BY <1>2, <1>4, <2>1 DEF Asks
  <2> QED
    BY <1>1, <1>2, <2>1, <2>2 DEF Request
<1>9. ChecksInv'
  <2>1. lapsed' \subseteq checked' /\ checked' \subseteq Line
    BY <1>1 DEF LinesInv, ChecksInv
  <2>2. \A j \in checked' : wire'[j] # << >> /\ Asks(j)'.kind = "respond" /\ Asks(j)'.row = "pending"
    BY <1>1, <1>7, <1>8 DEF LinesInv, ChecksInv
  <2>3. \A i, j \in checked' : i[1] = j[1] /\ Key(i)' = Key(j)' => i = j
    BY <1>1, <1>7, <1>8 DEF LinesInv, ChecksInv
  <2> QED
    BY <2>1, <2>2, <2>3 DEF ChecksInv
<1> QED
  BY <1>4, <1>5, <1>6, <1>9 DEF LinesInv

---------------------------------------------------------------------------
\* Requests and connections of the clients.

\* A request more, and nothing else about the requests.
RequestSent(c, m) ==
    /\ requests' \in [Client -> Seq(Request)]
    /\ \A d \in Client : \A i \in 1 .. Len(requests[d]) :
          i \in 1 .. Len(requests'[d]) /\ requests'[d][i] = requests[d][i]
    /\ \A d \in Client : \A i \in 1 .. Len(requests'[d]) :
          i \in 1 .. Len(requests[d]) \/ (d = c /\ requests'[d][i] = m)
    /\ Len(requests[c]) + 1 \in 1 .. Len(requests'[c]) /\ Len(requests[c]) + 1 \in Nat

Fresh(kind, q, t) == [kind |-> kind, question |-> q, task |-> t, row |-> "absent"]

LEMMA SendsRequest ==
    ASSUME requests \in [Client -> Seq(Request)], NEW c \in Client,
           NEW kind \in {"acquire", "release", "respond"}, NEW q \in Question \cup {0},
           NEW t \in Task \cup {0}, Sends(c, kind, q, t)
    PROVE  RequestSent(c, Fresh(kind, q, t))
<1> DEFINE m == Fresh(kind, q, t)
           p == Append(requests[c], m)
<1>1. m \in Request
  BY DEF Fresh, Request
<1>2. requests' = [requests EXCEPT ![c] = p]
  BY DEF Sends, Fresh
<1> HIDE DEF m
<1>3. /\ p \in Seq(Request) /\ Len(p) = Len(requests[c]) + 1 /\ Len(requests[c]) \in Nat
      /\ \A i \in 1 .. Len(requests[c]) : p[i] = requests[c][i]
      /\ p[Len(requests[c]) + 1] = m
  BY <1>1, AppendProperties, LenProperties
<1> HIDE DEF p
<1>4. /\ requests' \in [Client -> Seq(Request)]
      /\ \A d \in Client : requests'[d] = IF d = c THEN p ELSE requests[d]
  BY <1>2, <1>3
<1>5. \A d \in Client : \A i \in 1 .. Len(requests[d]) :
         i \in 1 .. Len(requests'[d]) /\ requests'[d][i] = requests[d][i]
  <2>1. \A i \in 1 .. Len(requests[c]) : i \in 1 .. Len(p)
    BY <1>3
  <2> QED
    BY <1>3, <1>4, <2>1
<1>6. ASSUME NEW d \in Client, NEW i \in 1 .. Len(requests'[d])
      PROVE  i \in 1 .. Len(requests[d]) \/ (d = c /\ requests'[d][i] = m)
  <2>1. CASE d = c
    <3>1. i \in 1 .. Len(requests[c]) \/ i = Len(requests[c]) + 1
      BY <1>3, <1>4, <2>1
    <3> QED
      BY <1>3, <1>4, <2>1, <3>1
  <2>2. CASE d # c
    BY <1>4, <2>2
  <2> QED
    BY <2>1, <2>2
<1> QED
  BY <1>3, <1>4, <1>5, <1>6 DEF RequestSent, m

LEMMA CurrentIsLine ==
    ASSUME LinesInv, NEW c \in Client
    PROVE  /\ CurrentLine(c) \in Line /\ CurrentLine(c)[1] = c /\ CurrentLine(c)[2] = current[c]
           /\ current[c] \in Nat
  BY LeasesAssumption DEF LinesInv, WireInv, Line, CurrentLine

LEMMA SendsKeeps ==
    ASSUME LinesInv, NEW c \in Client,
           NEW kind \in {"acquire", "release", "respond"}, NEW q \in Question \cup {0},
           NEW t \in Task \cup {0}, Sends(c, kind, q, t), kind = "respond" => q \in Question,
           UNCHANGED <<current, checked, answers, lapsed, inputs>>
    PROVE  /\ RequestsInv' /\ WireInv' /\ ChecksInv' /\ RequestsKept
           /\ RequestSent(c, Fresh(kind, q, t))
<1> DEFINE m == Fresh(kind, q, t)
           n == Len(requests[c]) + 1
           l == CurrentLine(c)
           p == Append(wire[l], n)
<1>1. RequestSent(c, m)
  BY SendsRequest DEF LinesInv, RequestsInv
<1>2. m.kind = kind /\ m.question = q /\ m.task = t /\ m.row = "absent"
  BY DEF Fresh
<1>3. l \in Line /\ l[1] = c /\ l[2] = current[c] /\ current[c] \in Nat
  BY CurrentIsLine
<1>4. wire' = [wire EXCEPT ![l] = p]
  BY DEF Sends
<1> HIDE DEF m, l
<1>5. RequestsKept
  BY <1>1 DEF RequestSent, RequestsKept
<1>6. RequestsInv'
  <2>1. ASSUME NEW d \in Client, NEW i \in 1 .. Len(requests'[d]) PROVE Sound(d, requests[d][i])'
    <3>1. CASE i \in 1 .. Len(requests[d])
      BY <1>1, <3>1 DEF LinesInv, RequestsInv, RequestSent, Sound
    <3>2. CASE d = c /\ requests'[d][i] = m
      BY <1>2, <3>2 DEF Sound
    <3> QED
      BY <1>1, <2>1, <3>1, <3>2 DEF RequestSent
  <2>2. requests' \in [Client -> Seq(Request)] /\ answers' \subseteq Client \X Question
    BY <1>1 DEF RequestSent, LinesInv, RequestsInv
  <2> QED
    BY <2>1, <2>2 DEF RequestsInv
<1>7. n \in Nat /\ n \in 1 .. Len(requests'[c])
  BY <1>1 DEF RequestSent
<1>8. wire[l] \in Seq(Nat)
  BY <1>3 DEF LinesInv, WireInv
<1> HIDE DEF n
<1>9. /\ p \in Seq(Nat) /\ p # << >> /\ Elements(p) = Elements(wire[l]) \cup {n}
      /\ wire[l] # << >> => Head(p) = Head(wire[l])
  <2> DEFINE z == wire[l]
  <2>1. n \in Nat /\ z \in Seq(Nat)
    BY <1>7, <1>8
  <2> HIDE DEF z
  <2>2. /\ Append(z, n) \in Seq(Nat) /\ Append(z, n) # << >>
        /\ Elements(Append(z, n)) = Elements(z) \cup {n}
        /\ z # << >> => Head(Append(z, n)) = Head(z)
    BY <2>1, ElementsAppend
  <2> QED
    BY <2>2 DEF z
<1> HIDE DEF p
<1>10. /\ wire' \in [Line -> Seq(Nat)]
       /\ \A k \in Line : wire'[k] = IF k = l THEN p ELSE wire[k]
  BY <1>3, <1>4, <1>9 DEF LinesInv, WireInv
<1>11. WireInv'
  <2>1. \A k \in Line : 1 .. Len(requests[k[1]]) \subseteq 1 .. Len(requests'[k[1]])
    BY <1>5, LineClient DEF RequestsKept
  <2>2. \A k \in Line : Elements(wire'[k]) \subseteq 1 .. Len(requests'[k[1]])
    BY <1>3, <1>7, <1>9, <1>10, <2>1 DEF LinesInv, WireInv
  <2>3. \A k \in Line : wire'[k] # << >> => k[2] <= current[k[1]]
    BY <1>3, <1>10 DEF LinesInv, WireInv
  <2> QED
    BY <1>10, <2>2, <2>3 DEF LinesInv, WireInv
<1>12. ChecksInv'
  <2>1. ASSUME NEW j \in checked' PROVE wire'[j] # << >> /\ Head(wire'[j]) = Head(wire[j])
    BY <1>9, <1>10, <2>1 DEF LinesInv, ChecksInv
  <2>2. ASSUME NEW j \in checked' PROVE requests'[j[1]][Key(j)].row = Asks(j).row
    <3>1. j \in Line /\ wire[j] # << >>
      BY <2>2 DEF LinesInv, ChecksInv
    <3>2. j[1] \in Client /\ Key(j) \in 1 .. Len(requests[j[1]])
      BY <3>1, FirstRequest
    <3> QED
      BY <1>1, <3>2 DEF RequestSent, Asks
  <2>3. checked' \subseteq checked /\ lapsed' \subseteq checked'
    BY DEF LinesInv, ChecksInv
  <2> QED
    BY <1>5, <2>1, <2>2, <2>3, FewerChecksKept
<1> QED
  BY <1>1, <1>5, <1>6, <1>11, <1>12 DEF m

\* Responses are taken or lost.
LEMMA FewerResponses ==
    ASSUME LinesInv, RequestsKept, responses' \in [Client -> Seq(Response)],
           \A c \in Client : Elements(responses'[c]) \subseteq Elements(responses[c])
    PROVE  ResponsesInv'
<1>1. ASSUME NEW c \in Client, NEW e \in Elements(responses'[c])
      PROVE  /\ e.key \in 1 .. Len(requests'[c])
             /\ e.good => requests'[c][e.key].row = "good"
  <2>1. e.key \in 1 .. Len(requests[c]) /\ (e.good => requests[c][e.key].row = "good")
    BY <1>1 DEF LinesInv, ResponsesInv
  <2> QED
    BY <2>1 DEF RequestsKept
<1> QED
  BY <1>1 DEF ResponsesInv

LEMMA SameResponses == ASSUME LinesInv, RequestsKept, UNCHANGED responses PROVE ResponsesInv'
  BY FewerResponses DEF LinesInv, ResponsesInv

LEMMA TakesResponse ==
    ASSUME LinesInv, RequestsKept, NEW c \in Client, responses[c] # << >>,
           responses' = [responses EXCEPT ![c] = Tail(@)]
    PROVE  ResponsesInv'
<1>1. responses \in [Client -> Seq(Response)]
  BY DEF LinesInv, ResponsesInv
<1>2. Tail(responses[c]) \in Seq(Response) /\ Elements(Tail(responses[c])) \subseteq Elements(responses[c])
  BY <1>1, ElementsTail
<1>3. /\ responses' \in [Client -> Seq(Response)]
      /\ \A d \in Client : Elements(responses'[d]) \subseteq Elements(responses[d])
  BY <1>1, <1>2
<1> QED
  BY <1>3, FewerResponses

\* The first response: what it says is what the row says.
LEMMA FirstResponse ==
    ASSUME LinesInv, NEW c \in Client, responses[c] # << >>
    PROVE  /\ Head(responses[c]).key \in 1 .. Len(requests[c])
           /\ Head(responses[c]).good => requests[c][Head(responses[c]).key].row = "good"
           /\ requests[c][Head(responses[c]).key] \in Request
<1>1. responses[c] \in Seq(Response)
  BY DEF LinesInv, ResponsesInv
<1>2. Head(responses[c]) \in Elements(responses[c])
  BY <1>1, ElementsTail
<1>3. /\ Head(responses[c]).key \in 1 .. Len(requests[c])
      /\ Head(responses[c]).good => requests[c][Head(responses[c]).key].row = "good"
  BY <1>2 DEF LinesInv, ResponsesInv
<1> QED
  BY <1>3, ElementOfSeq DEF LinesInv, RequestsInv

LEMMA ElementsConcat ==
    ASSUME NEW S, NEW p \in Seq(S), NEW q \in Seq(S)
    PROVE  p \o q \in Seq(S) /\ Elements(p \o q) \subseteq Elements(p) \cup Elements(q)
<1> DEFINE t == p \o q
<1>1. /\ t \in Seq(S) /\ Len(t) = Len(p) + Len(q) /\ Len(p) \in Nat /\ Len(q) \in Nat
      /\ \A i \in 1 .. Len(p) + Len(q) : t[i] = IF i <= Len(p) THEN p[i] ELSE q[i - Len(p)]
  BY ConcatProperties, LenProperties
<1> HIDE DEF t
<1>2. ASSUME NEW i \in 1 .. Len(t) PROVE t[i] \in Elements(p) \cup Elements(q)
  <2>1. CASE i <= Len(p)
    <3>1. i \in 1 .. Len(p) /\ t[i] = p[i]
      BY <1>1, <2>1
    <3> QED
      BY <3>1 DEF Elements
  <2>2. CASE ~(i <= Len(p))
    <3>1. i - Len(p) \in 1 .. Len(q) /\ t[i] = q[i - Len(p)]
      BY <1>1, <2>2
    <3> QED
      BY <3>1 DEF Elements
  <2> QED
    BY <2>1, <2>2
<1>3. Elements(t) \subseteq Elements(p) \cup Elements(q)
  BY <1>2 DEF Elements
<1> QED
  BY <1>1, <1>3 DEF t

\* The keys of the responses that were lost.
LEMMA LostKeys ==
    ASSUME NEW q \in Seq(Response), NEW n \in 0 .. Len(q)
    PROVE  LET lost == SubSeq(q, n + 1, Len(q))
               keys == [i \in DOMAIN lost |-> lost[i].key]
           IN  keys \in Seq(Nat) /\ \A x \in Elements(keys) : \E r \in Elements(q) : x = r.key
<1> DEFINE lost == SubSeq(q, n + 1, Len(q))
           keys == [i \in DOMAIN lost |-> lost[i].key]
<1>1. Len(q) \in Nat /\ n \in Nat /\ n <= Len(q) /\ \A i \in 1 .. Len(q) : q[i] \in Response
  BY LenProperties, ElementOfSeq
<1>2. /\ lost \in Seq(Response)
      /\ \A i \in 1 .. Len(lost) : lost[i] \in Elements(q)
  <2>1. \A i \in n + 1 .. Len(q) : q[i] \in Response
    BY <1>1
  <2>2. n + 1 \in Int /\ Len(q) \in Int
    BY <1>1
  <2>3. /\ lost \in Seq(Response)
        /\ Len(lost) = IF n + 1 <= Len(q) THEN Len(q) - (n + 1) + 1 ELSE 0
        /\ \A i \in 1 .. Len(q) - (n + 1) + 1 : lost[i] = q[n + 1 + i - 1]
    BY <2>1, <2>2, SubSeqProperties
  <2> HIDE DEF lost
  <2>4. ASSUME NEW i \in 1 .. Len(lost) PROVE lost[i] \in Elements(q)
    <3>1. n + 1 + i - 1 \in 1 .. Len(q) /\ lost[i] = q[n + 1 + i - 1]
      BY <1>1, <2>3
    <3> QED
      BY <3>1 DEF Elements
  <2> QED
    BY <2>3, <2>4
<1> HIDE DEF lost
<1>3. DOMAIN lost = 1 .. Len(lost) /\ Len(lost) \in Nat /\ \A i \in 1 .. Len(lost) : lost[i] \in Response
  BY <1>2, LenProperties, ElementOfSeq
<1>4. keys \in [1 .. Len(lost) -> Nat]
  BY <1>3 DEF Response
<1>5. keys \in Seq(Nat)
  BY <1>3, <1>4, SeqDef
<1>6. DOMAIN keys = 1 .. Len(lost) /\ DOMAIN keys = 1 .. Len(keys)
  BY <1>3, <1>5, LenProperties
<1>7. ASSUME NEW x \in Elements(keys) PROVE \E r \in Elements(q) : x = r.key
  <2>1. PICK i \in 1 .. Len(keys) : x = keys[i]
    BY DEF Elements
  <2>2. i \in 1 .. Len(lost) /\ i \in DOMAIN lost
    BY <1>3, <1>6
  <2>3. x = lost[i].key
    BY <2>1, <2>2
  <2> QED
    BY <1>2, <2>2, <2>3
<1> QED
  BY <1>5, <1>7 DEF lost

\* What the daemon has received of a connection that ends.
LEMMA ReceivedPrefix ==
    ASSUME LinesInv, NEW c \in Client, NEW w \in Received(c)
    PROVE  LET l == CurrentLine(c)
           IN  /\ w \in Seq(Nat) /\ Elements(w) \subseteq Elements(wire[l])
               /\ w # << >> => wire[l] # << >>
               /\ l \in checked => w # << >> /\ Head(w) = Head(wire[l])
<1> DEFINE l == CurrentLine(c)
<1>1. l \in Line
  BY CurrentIsLine
<1>2. wire[l] \in Seq(Nat)
  BY <1>1 DEF LinesInv, WireInv
<1>3. PICK n \in 0 .. Len(wire[l]) : w = SubSeq(wire[l], 1, n) /\ (l \in checked => n > 0)
  BY DEF Received
<1>4. /\ w \in Seq(Nat) /\ Elements(w) \subseteq Elements(wire[l])
      /\ n > 0 => w # << >> /\ Head(w) = Head(wire[l])
  BY <1>2, <1>3, ElementsPrefix
<1>5. w # << >> => wire[l] # << >>
  <2>1. CASE wire[l] = << >>
    <3>1. n = 0
      BY <1>3, <2>1, EmptySeq
    <3>2. w = << >>
      BY <1>3, <3>1, SubSeqEmpty
    <3> QED
      BY <3>2
  <2> QED
    BY <2>1
<1> QED
  BY <1>3, <1>4, <1>5

LEMMA ReconnectKeeps ==
    ASSUME LinesInv, inputs \in 0 .. MaxInputs, NEW c \in Client, Reconnect(c)
    PROVE  LinesInv' /\ RequestsKept
<1> DEFINE l == CurrentLine(c)
           new == <<c, current[c] + 1>>
<1>1. PICK n \in 0 .. Len(responses[c]), w \in Received(c) :
         LET lost == SubSeq(responses[c], n + 1, Len(responses[c]))
             resent == [i \in DOMAIN lost |-> lost[i].key] \o wire[l]
         IN  /\ responses' = [responses EXCEPT ![c] = SubSeq(@, 1, n)]
             /\ current' = [current EXCEPT ![c] = @ + 1]
             /\ wire' = [wire EXCEPT ![l] = w, ![new] = resent]
  BY DEF Reconnect
<1> DEFINE lost == SubSeq(responses[c], n + 1, Len(responses[c]))
           keys == [i \in DOMAIN lost |-> lost[i].key]
           resent == keys \o wire[l]
<1>2. /\ l \in Line /\ l[1] = c /\ l[2] = current[c] /\ current[c] \in Nat
      /\ current[c] <= inputs
  BY CurrentIsLine DEF LinesInv, WireInv
<1>3. /\ inputs' = inputs + 1 /\ inputs' \in 0 .. MaxInputs
      /\ UNCHANGED <<requests, answers, checked, lapsed>>
  BY LeasesAssumption DEF Reconnect, Input, agentVars
<1>4. new \in Line /\ new[1] = c /\ new[2] = current[c] + 1 /\ new # l
  BY <1>2, <1>3, LeasesAssumption DEF Line
<1>5. responses[c] \in Seq(Response) /\ wire[l] \in Seq(Nat)
  BY <1>2 DEF LinesInv, ResponsesInv, WireInv
<1>6. /\ keys \in Seq(Nat) /\ \A x \in Elements(keys) : \E r \in Elements(responses[c]) : x = r.key
  BY <1>5, LostKeys
<1>7. wire' = [wire EXCEPT ![l] = w, ![new] = resent]
  BY <1>1
<1> HIDE DEF keys, lost
<1>8. resent \in Seq(Nat) /\ Elements(resent) \subseteq 1 .. Len(requests[c])
  <2>1. resent \in Seq(Nat) /\ Elements(resent) \subseteq Elements(keys) \cup Elements(wire[l])
    BY <1>5, <1>6, ElementsConcat
  <2>2. Elements(keys) \subseteq 1 .. Len(requests[c])
    BY <1>6 DEF LinesInv, ResponsesInv
  <2>3. Elements(wire[l]) \subseteq 1 .. Len(requests[c])
    BY <1>2 DEF LinesInv, WireInv
  <2> HIDE DEF resent
  <2> QED
    BY <2>1, <2>2, <2>3
<1>9. /\ w \in Seq(Nat) /\ Elements(w) \subseteq Elements(wire[l])
      /\ w # << >> => wire[l] # << >>
      /\ l \in checked => w # << >> /\ Head(w) = Head(wire[l])
  BY ReceivedPrefix
<1> HIDE DEF l, new, resent
<1>10. /\ wire' \in [Line -> Seq(Nat)]
       /\ \A k \in Line : wire'[k] = IF k = new THEN resent ELSE IF k = l THEN w ELSE wire[k]
  BY <1>2, <1>4, <1>7, <1>8, <1>9 DEF LinesInv, WireInv
<1>11. RequestsKept
  BY <1>3, UnchangedRequests
<1>12. RequestsInv'
  <2>1. RequestsInv /\ UNCHANGED <<requests, answers>>
    BY <1>3 DEF LinesInv
  <2> QED
    BY <2>1, SameRequests
<1>13. WireInv'
  <2>1. /\ current \in [Client -> 0 .. MaxInputs]
        /\ current' = [current EXCEPT ![c] = @ + 1]
    BY <1>1 DEF LinesInv, WireInv
  <2>2. current[c] + 1 \in 0 .. MaxInputs
    BY <1>2, <1>3, LeasesAssumption
  <2>3. current' \in [Client -> 0 .. MaxInputs]
    BY <2>1, <2>2
  <2>4. \A d \in Client : current'[d] = IF d = c THEN current[c] + 1 ELSE current[d]
    BY <2>1
  <2>5. \A d \in Client : current[d] \in Nat /\ current'[d] <= inputs' /\ current[d] <= current'[d]
    BY <1>2, <1>3, <2>1, <2>4, LeasesAssumption DEF LinesInv, WireInv
  <2>6. ASSUME NEW k \in Line
        PROVE  /\ Elements(wire'[k]) \subseteq 1 .. Len(requests'[k[1]])
               /\ wire'[k] # << >> => k[2] <= current'[k[1]]
    <3>1. k[1] \in Client /\ k[2] \in Nat /\ Elements(wire[k]) \subseteq 1 .. Len(requests[k[1]])
      BY LineClient DEF LinesInv, WireInv
    <3>2. CASE k = new
      <4>1. k[1] = c /\ wire'[k] = resent /\ requests' = requests
        BY <1>3, <1>4, <1>10, <3>2
      <4>2. k[2] = current[c] + 1 /\ current'[k[1]] = current[c] + 1 /\ current[c] + 1 \in Nat
        BY <1>2, <1>4, <2>4, <3>2
      <4>3. k[2] <= current'[k[1]]
        BY <4>2
      <4> QED
        BY <1>8, <4>1, <4>3
    <3>3. CASE k # new /\ k = l
      BY <1>2, <1>3, <1>4, <1>9, <1>10, <2>4, <3>1, <3>3
    <3>4. CASE k # new /\ k # l
      <4>1. wire'[k] = wire[k]
        BY <1>10, <3>4
      <4>2. wire[k] # << >> => k[2] <= current[k[1]]
        BY DEF LinesInv, WireInv
      <4>3. current[k[1]] \in Nat /\ current'[k[1]] \in Nat /\ current[k[1]] <= current'[k[1]]
        BY <2>3, <2>5, <3>1
      <4> QED
        BY <1>3, <3>1, <4>1, <4>2, <4>3
    <3> QED
      BY <3>2, <3>3, <3>4
  <2> QED
    BY <1>10, <2>3, <2>5, <2>6 DEF WireInv
<1>14. ChecksInv'
  <2>1. ASSUME NEW k \in checked' PROVE wire'[k] # << >> /\ Head(wire'[k]) = Head(wire[k])
    <3>1. k \in checked /\ k \in Line /\ wire[k] # << >> /\ k[2] <= current[k[1]]
      BY <1>3, <2>1 DEF LinesInv, ChecksInv, WireInv
    <3>2. k # new
      BY <1>2, <1>4, <3>1
    <3> QED
      BY <1>9, <1>10, <3>1, <3>2
  <2>2. \A k \in checked' : requests'[k[1]][Key(k)].row = Asks(k).row
    BY <1>3 DEF Asks
  <2>3. checked' \subseteq checked /\ lapsed' \subseteq checked'
    BY <1>3 DEF LinesInv, ChecksInv
  <2> QED
    BY <1>11, <2>1, <2>2, <2>3, FewerChecksKept
<1>15. ResponsesInv'
  <2>1. /\ SubSeq(responses[c], 1, n) \in Seq(Response)
        /\ Elements(SubSeq(responses[c], 1, n)) \subseteq Elements(responses[c])
    BY <1>5, ElementsPrefix
  <2>2. responses \in [Client -> Seq(Response)] /\ responses' = [responses EXCEPT ![c] = SubSeq(@, 1, n)]
    BY <1>1 DEF LinesInv, ResponsesInv
  <2>3. /\ responses' \in [Client -> Seq(Response)]
        /\ \A d \in Client : Elements(responses'[d]) \subseteq Elements(responses[d])
    BY <2>1, <2>2
  <2> QED
    BY <1>11, <2>3, FewerResponses
<1> QED
  BY <1>11, <1>12, <1>13, <1>14, <1>15 DEF LinesInv

LEMMA QuitKeeps ==
    ASSUME LinesInv, inputs \in 0 .. MaxInputs, NEW c \in Client, Quit(c)
    PROVE  LinesInv' /\ RequestsKept
<1> DEFINE l == CurrentLine(c)
<1>1. PICK w \in Received(c) : wire' = [wire EXCEPT ![l] = w]
  BY DEF Quit
<1>2. l \in Line /\ l[1] = c
  BY CurrentIsLine
<1>3. /\ inputs' \in 0 .. MaxInputs /\ inputs <= inputs'
      /\ UNCHANGED <<requests, answers, current, checked, lapsed>>
      /\ responses' = [responses EXCEPT ![c] = << >>]
  BY LeasesAssumption DEF Quit, Input, agentVars
<1>4. /\ w \in Seq(Nat) /\ Elements(w) \subseteq Elements(wire[l])
      /\ w # << >> => wire[l] # << >>
      /\ l \in checked => w # << >> /\ Head(w) = Head(wire[l])
  BY ReceivedPrefix
<1> HIDE DEF l
<1>5. /\ wire' \in [Line -> Seq(Nat)]
      /\ \A k \in Line : wire'[k] = IF k = l THEN w ELSE wire[k]
  BY <1>1, <1>2, <1>4 DEF LinesInv, WireInv
<1>6. RequestsKept
  BY <1>3, UnchangedRequests
<1>7. RequestsInv'
  <2>1. RequestsInv /\ UNCHANGED <<requests, answers>>
    BY <1>3 DEF LinesInv
  <2> QED
    BY <2>1, SameRequests
<1>8. WireInv'
  <2>1. \A k \in Line : /\ Elements(wire'[k]) \subseteq Elements(wire[k])
                        /\ wire'[k] # << >> => wire[k] # << >>
    BY <1>4, <1>5
  <2>2. \A d \in Client : current[d] \in 0 .. MaxInputs /\ current[d] <= inputs
    BY DEF LinesInv, WireInv
  <2>3. \A d \in Client : current'[d] <= inputs'
    BY <1>3, <2>2, LeasesAssumption
  <2> QED
    BY <1>3, <1>5, <2>1, <2>3 DEF LinesInv, WireInv
<1>9. ChecksInv'
  <2>1. \A k \in checked' : wire'[k] # << >> /\ Head(wire'[k]) = Head(wire[k])
    BY <1>3, <1>4, <1>5 DEF LinesInv, ChecksInv
  <2>2. \A k \in checked' : requests'[k[1]][Key(k)].row = Asks(k).row
    BY <1>3 DEF Asks
  <2>3. checked' \subseteq checked /\ lapsed' \subseteq checked'
    BY <1>3 DEF LinesInv, ChecksInv
  <2> QED
    BY <1>6, <2>1, <2>2, <2>3, FewerChecksKept
<1>10. ResponsesInv'
  <2>1. << >> \in Seq(Response) /\ responses \in [Client -> Seq(Response)]
    BY DEF LinesInv, ResponsesInv
  <2>2. /\ responses' \in [Client -> Seq(Response)]
        /\ \A d \in Client : Elements(responses'[d]) \subseteq Elements(responses[d])
    BY <1>3, <2>1, ElementsEmpty
  <2> QED
    BY <1>6, <2>2, FewerResponses
<1> QED
  BY <1>6, <1>7, <1>8, <1>9, <1>10 DEF LinesInv

---------------------------------------------------------------------------
\* Every step keeps the state well formed.

LEMMA InitLeasesInv == Init => LeasesInv
<1> SUFFICES ASSUME Init PROVE LeasesInv
  OBVIOUS
<1>1. /\ << >> \in Seq(Question) /\ << >> \in Seq(Nat)
      /\ << >> \in Seq(Request) /\ << >> \in Seq(Response) /\ Len(<< >>) = 0
  OBVIOUS
<1>2. NoTask \in Responder
  BY DEF NoTask, Responder
<1>3. TimesInv
  <2>1. 0 \in 0 .. MaxInputs /\ 0 \in 0 .. MaxQuestions
    BY LeasesAssumption
  <2> QED
    BY <2>1 DEF Init, TimesInv
<1>4. ClientsInv
  BY <1>1, <1>2 DEF Init, ClientsInv
<1>5. RequestsInv
  BY <1>1 DEF Init, RequestsInv
<1>6. WireInv
  <2>1. \A c \in Client : current[c] = 0 /\ 0 \in 0 .. MaxInputs /\ current[c] <= inputs
    BY LeasesAssumption DEF Init
  <2>2. \A k \in Line : wire[k] = << >>
    BY DEF Init
  <2> QED
    BY <1>1, <2>1, <2>2, ElementsEmpty DEF Init, WireInv
<1>7. ChecksInv
  BY DEF Init, ChecksInv
<1>8. ResponsesInv
  BY <1>1, ElementsEmpty DEF Init, ResponsesInv
<1> QED
  BY <1>3, <1>4, <1>5, <1>6, <1>7, <1>8, InitLeaseInv DEF LeasesInv, LinesInv

LEMMA UnchangedKeepsTimes ==
    ASSUME TimesInv, UNCHANGED <<lease, deadline, stepped, asked>>, UNCHANGED inputs \/ Input
    PROVE  TimesInv'
  BY LeasesAssumption DEF TimesInv, Input

LEMMA TickTimes == ASSUME LeaseInv, TimesInv, Tick PROVE TimesInv'
<1>1. \A n \in 0 .. Ttl : Less(n) \in 0 .. Ttl
  BY TtlPositive DEF Less
<1>2. \A l \in lease' : l.left \in 0 .. Ttl
  BY <1>1 DEF Tick, LeaseInv, LeaseShape, TimesInv
<1>3. deadline' \subseteq 0 .. Ttl
  BY <1>1 DEF Tick, TimesInv
<1> QED
  BY <1>2, <1>3 DEF Tick, TimesInv, agentVars

LEMMA ClockTimes == ASSUME LeaseInv, TimesInv, ClockStep PROVE TimesInv'
<1>1. \A l \in lease' : l.left \in 0 .. Ttl
  BY DEF ClockStep, LeaseInv, LeaseShape
<1> QED
  BY <1>1, LeasesAssumption DEF ClockStep, TimesInv, Input, agentVars

LEMMA AcquireTimes == ASSUME TimesInv, NEW k \in Line, AcquireLease(k) PROVE TimesInv'
<1>1. UNCHANGED <<stepped, inputs, asked>>
  BY DEF AcquireLease, agentVars
<1>2. CASE Claimable(k[1])
  <2>1. lease' = {[holder |-> k[1], left |-> Ttl]} /\ deadline' = {Ttl}
    BY <1>2 DEF AcquireLease, Claim
  <2> QED
    BY <1>1, <2>1, TtlPositive DEF TimesInv
<1>3. CASE ~Claimable(k[1])
  BY <1>1, <1>3 DEF AcquireLease, TimesInv, actorVars
<1> QED
  BY <1>2, <1>3

LEMMA NextTimes == ASSUME LeaseInv, TimesInv, [Next]_vars PROVE TimesInv'
<1>1. CASE Tick \/ ClockStep \/ TimerFires
  BY <1>1, TickTimes, ClockTimes DEF TimerFires, TimesInv, agentVars
<1>2. CASE Ask
  BY <1>2, LeasesAssumption DEF Ask, TimesInv, actorVars
<1>3. ASSUME NEW k \in Line,
             \/ AcquireLease(k) \/ ReleaseLease(k) \/ CheckLease(k) \/ ForwardAnswer(k)
             \/ RepeatOperation(k)
      PROVE  TimesInv'
  <2>1. CASE AcquireLease(k)
    BY <2>1, AcquireTimes
  <2>2. CASE ReleaseLease(k)
    BY <2>2 DEF ReleaseLease, TimesInv, actorVars, agentVars
  <2>3. CASE CheckLease(k) \/ ForwardAnswer(k) \/ RepeatOperation(k)
    BY <2>3, UnchangedKeepsTimes
       DEF CheckLease, ForwardAnswer, RepeatOperation, actorVars, agentVars
  <2> QED
    BY <1>3, <2>1, <2>2, <2>3
<1>4. ASSUME NEW c \in Client,
             \/ Replay(c) \/ Reconnect(c) \/ Quit(c) \/ ReadInteraction(c) \/ LoopResumes(c)
      PROVE  TimesInv'
  BY <1>4, UnchangedKeepsTimes
     DEF Replay, Reconnect, Quit, ReadInteraction, LoopResumes, Resumes, actorVars, agentVars
<1>5. ASSUME NEW c \in Client, NEW t \in Task,
             \/ Click(c, t) \/ TaskReleases(c, t) \/ TaskDismisses(c, t)
             \/ TaskFails(c, t) \/ NobodyWaits(c, t)
      PROVE  TimesInv'
  BY <1>5, UnchangedKeepsTimes
     DEF Click, TaskReleases, TaskDismisses, TaskFails, NobodyWaits, Resumes, actorVars, agentVars
<1>6. CASE UNCHANGED vars
  BY <1>6, UnchangedKeepsTimes DEF vars, actorVars, agentVars
<1> QED
  BY <1>1, <1>2, <1>3, <1>4, <1>5, <1>6 DEF Next

\* The tasks of a client end, and one task takes a step.
LEMMA EndedTasks ==
    ASSUME ClientsInv, NEW c \in Client, EndTasks(c)
    PROVE  task' \in [Task -> Responder]
<1>1. \A t \in Task : task[t] \in Responder /\ [task[t] EXCEPT !.at = "ended"] \in Responder
  BY DEF ClientsInv, Responder
<1> QED
  BY <1>1 DEF EndTasks

LEMMA TaskMoves ==
    ASSUME ClientsInv, NEW t \in Task, NEW label \in {"releasing", "ended"},
           task' = [task EXCEPT ![t].at = label]
    PROVE  task' \in [Task -> Responder]
<1>1. [task[t] EXCEPT !.at = label] \in Responder
  BY DEF ClientsInv, Responder
<1> QED
  BY <1>1 DEF ClientsInv

LEMMA UnchangedKeepsClients ==
    ASSUME ClientsInv, UNCHANGED <<feed, shown, loop>>, task' \in [Task -> Responder]
    PROVE  ClientsInv'
  BY DEF ClientsInv

\* What a step does to the dialogs, the event loops and the tasks.
LEMMA NextClients == ASSUME TimesInv, ClientsInv, [Next]_vars PROVE ClientsInv'
<1> DEFINE Same == UNCHANGED viewVars
<1>0. Same => ClientsInv'
  BY UnchangedKeepsClients DEF viewVars, ClientsInv
<1>1. CASE Tick \/ ClockStep \/ TimerFires \/ UNCHANGED vars
  BY <1>0, <1>1 DEF Tick, ClockStep, TimerFires, vars
<1>2. CASE Ask
  <2>1. asked + 1 \in Question
    BY <1>2, LeasesAssumption DEF Ask, TimesInv, Question
  <2>2. \A c \in Client : << >> \in Seq(Question) /\ Append(feed[c], asked + 1) \in Seq(Question)
    BY <2>1 DEF ClientsInv
  <2> QED
    BY <1>2, <2>2 DEF Ask, ClientsInv
<1>3. ASSUME NEW k \in Line,
             \/ AcquireLease(k) \/ ReleaseLease(k) \/ CheckLease(k) \/ ForwardAnswer(k)
             \/ RepeatOperation(k)
      PROVE  ClientsInv'
  BY <1>0, <1>3 DEF AcquireLease, ReleaseLease, CheckLease, ForwardAnswer, RepeatOperation
<1>4. ASSUME NEW c \in Client, Replay(c) PROVE ClientsInv'
  <2>1. asked \in Question
    BY <1>4, LeasesAssumption DEF Replay, TimesInv, Question
  <2>2. Append(feed[c], asked) \in Seq(Question)
    BY <2>1 DEF ClientsInv
  <2> QED
    BY <1>4, <2>2 DEF Replay, ClientsInv
<1>5. ASSUME NEW c \in Client, Reconnect(c) PROVE ClientsInv'
  BY <1>0, <1>5 DEF Reconnect
<1>6. ASSUME NEW c \in Client, Quit(c) PROVE ClientsInv'
  <2>1. << >> \in Seq(Question)
    OBVIOUS
  <2>2. task' \in [Task -> Responder]
    BY <1>6, EndedTasks DEF Quit
  <2> QED
    BY <1>6, <2>1, <2>2 DEF Quit, ClientsInv
<1>7. ASSUME NEW c \in Client, ReadInteraction(c) PROVE ClientsInv'
  <2>1. Head(feed[c]) \in Question /\ Tail(feed[c]) \in Seq(Question)
    BY <1>7 DEF ReadInteraction, ClientsInv
  <2>2. Dialog(Head(feed[c])) \subseteq Interaction
    BY <2>1 DEF Dialog, Interaction
  <2>3. task' \in [Task -> Responder]
    BY <1>7, EndedTasks DEF ReadInteraction, ClientsInv
  <2> QED
    BY <1>7, <2>1, <2>2, <2>3 DEF ReadInteraction, ClientsInv
<1>8. ASSUME NEW c \in Client, LoopResumes(c) PROVE ClientsInv'
  <2>1. \A i \in Interaction, l \in {"owned", "unavailable"} : [i EXCEPT !.lease = l] \in Interaction
    BY DEF Interaction
  <2>2. {[i EXCEPT !.lease = IF Good(c) THEN "owned" ELSE "unavailable"] : i \in shown[c]}
           \subseteq Interaction
    BY <2>1 DEF ClientsInv
  <2>3. UNCHANGED <<feed, task>>
    BY <1>8 DEF LoopResumes, Resumes
  <2> QED
    BY <1>8, <2>2, <2>3 DEF LoopResumes, ClientsInv
<1>9. ASSUME NEW c \in Client, NEW t \in Task, Click(c, t) PROVE ClientsInv'
  <2>1. PICK i \in shown[c] : task' = [task EXCEPT ![t] =
                 [at |-> "responding", client |-> {c}, question |-> i.question]]
    BY <1>9 DEF Click
  <2>2. [at |-> "responding", client |-> {c}, question |-> i.question] \in Responder
    BY DEF ClientsInv, Interaction, Responder
  <2> QED
    BY <1>9, <2>1, <2>2 DEF Click, ClientsInv
<1>10. ASSUME NEW c \in Client, NEW t \in Task,
              TaskReleases(c, t) \/ TaskFails(c, t) \/ NobodyWaits(c, t)
       PROVE  ClientsInv'
  <2>1. UNCHANGED <<feed, shown, loop>>
    BY <1>10 DEF TaskReleases, TaskFails, NobodyWaits, Resumes
  <2>2. task' \in [Task -> Responder]
    BY <1>10, TaskMoves DEF TaskReleases, TaskFails, NobodyWaits, ClientsInv
  <2> QED
    BY <2>1, <2>2, UnchangedKeepsClients
<1>11. ASSUME NEW c \in Client, NEW t \in Task, TaskDismisses(c, t) PROVE ClientsInv'
  <2>1. task' \in [Task -> Responder]
    BY <1>11, EndedTasks DEF TaskDismisses
  <2>2. UNCHANGED <<feed, loop>>
    BY <1>11 DEF TaskDismisses, Resumes
  <2> QED
    BY <1>11, <2>1, <2>2 DEF TaskDismisses, ClientsInv
<1> QED
  BY <1>1, <1>2, <1>3, <1>4, <1>5, <1>6, <1>7, <1>8, <1>9, <1>10, <1>11 DEF Next

\* What a step does to the requests, the connections and the responses.

LEMMA UnchangedKeepsLines ==
    ASSUME LinesInv, UNCHANGED lineVars, UNCHANGED answers, inputs \in Nat, inputs' \in Nat,
           inputs' >= inputs, lapsed' \subseteq checked
    PROVE  LinesInv' /\ RequestsKept
<1>1. UNCHANGED <<requests, current, wire, checked, responses>>
  BY DEF lineVars
<1>2. RequestsKept
  BY <1>1, UnchangedRequests
<1>3. RequestsInv'
  <2>1. RequestsInv /\ UNCHANGED <<requests, answers>>
    BY <1>1 DEF LinesInv
  <2> QED
    BY <2>1, SameRequests
<1>4. WireInv'
  BY <1>1, LeasesAssumption DEF LinesInv, WireInv
<1>5. ChecksInv'
  <2>1. checked' \subseteq checked /\ lapsed' \subseteq checked'
    BY <1>1
  <2>2. \A j \in checked' : wire'[j] # << >> /\ Head(wire'[j]) = Head(wire[j])
    BY <1>1 DEF LinesInv, ChecksInv
  <2>3. \A j \in checked' : requests'[j[1]][Key(j)].row = Asks(j).row
    BY <1>1 DEF Asks
  <2> QED
    BY <1>2, <2>1, <2>2, <2>3, FewerChecksKept
<1>6. ResponsesInv'
  BY <1>1, <1>2, SameResponses
<1> QED
  BY <1>2, <1>3, <1>4, <1>5, <1>6 DEF LinesInv

\* A response is acted on, and nothing is sent.
LEMMA ResumedKeeps ==
    ASSUME LinesInv, inputs \in Nat, NEW c \in Client, NEW kind, Resumes(c, kind),
           UNCHANGED <<requests, wire>>
    PROVE  LinesInv' /\ RequestsKept
<1>1. /\ UNCHANGED <<answers, current, checked, inputs, lapsed>> /\ responses[c] # << >>
      /\ responses' = [responses EXCEPT ![c] = Tail(@)]
  BY DEF Resumes, agentVars
<1>2. RequestsKept
  BY UnchangedRequests
<1>3. RequestsInv'
  <2>1. RequestsInv /\ UNCHANGED <<requests, answers>>
    BY <1>1 DEF LinesInv
  <2> QED
    BY <2>1, SameRequests
<1>4. WireInv'
  BY <1>1 DEF LinesInv, WireInv
<1>5. ChecksInv'
  BY <1>1 DEF LinesInv, ChecksInv, Asks, Key
<1>6. ResponsesInv'
  BY <1>1, <1>2, TakesResponse
<1> QED
  BY <1>2, <1>3, <1>4, <1>5, <1>6 DEF LinesInv

LEMMA AcquireLines ==
    ASSUME LinesInv, inputs \in Nat, NEW k \in Line, AcquireLease(k)
    PROVE  LinesInv' /\ RequestsKept
<1>1. /\ wire[k] # << >> /\ k \notin checked /\ Asks(k).row = "absent" /\ Asks(k).kind = "acquire"
      /\ UNCHANGED <<answers, inputs, lapsed>>
  BY DEF AcquireLease, Executes, Reads, agentVars
<1>2. PICK good \in BOOLEAN : Completes(k, good)
  BY DEF AcquireLease, Claimable
<1>3. answers' \subseteq Client \X Question /\ lapsed' \subseteq checked \ {k}
  BY <1>1 DEF LinesInv, RequestsInv, ChecksInv
<1>4. inputs' \in Nat /\ inputs' >= inputs /\ answers \subseteq answers'
  BY <1>1
<1>5. good /\ Asks(k).kind = "respond" => <<k[1], Asks(k).question>> \in answers'
  BY <1>1
<1> QED
  BY <1>1, <1>2, <1>3, <1>4, <1>5, CompletesKeeps

LEMMA ReleaseLines ==
    ASSUME LinesInv, inputs \in Nat, NEW k \in Line, ReleaseLease(k)
    PROVE  LinesInv' /\ RequestsKept
<1>1. /\ wire[k] # << >> /\ k \notin checked /\ Asks(k).row = "absent" /\ Asks(k).kind = "release"
      /\ UNCHANGED <<answers, inputs>>
  BY DEF ReleaseLease, Executes, Reads, agentVars
<1>2. PICK good \in BOOLEAN : Completes(k, good)
  BY DEF ReleaseLease, Releasable
<1>3. answers' \subseteq Client \X Question
  BY <1>1 DEF LinesInv, RequestsInv
<1>4. lapsed' \subseteq checked \ {k}
  BY <1>1 DEF ReleaseLease, LinesInv, ChecksInv
<1>5. inputs' \in Nat /\ inputs' >= inputs /\ answers \subseteq answers'
  BY <1>1
<1>6. good /\ Asks(k).kind = "respond" => <<k[1], Asks(k).question>> \in answers'
  BY <1>1
<1> QED
  BY <1>1, <1>2, <1>3, <1>4, <1>5, <1>6, CompletesKeeps

LEMMA CheckLines ==
    ASSUME LinesInv, inputs \in Nat, NEW k \in Line, CheckLease(k)
    PROVE  LinesInv' /\ RequestsKept
<1>1. CASE HasLease(k[1])
  BY <1>1, CheckedKeeps
<1>2. CASE ~HasLease(k[1])
  <2>1. /\ wire[k] # << >> /\ k \notin checked /\ Asks(k).row = "absent"
        /\ UNCHANGED <<answers, inputs, lapsed>> /\ Completes(k, FALSE)
    BY <1>2 DEF CheckLease, Executes, Reads, agentVars
  <2>2. answers' \subseteq Client \X Question /\ lapsed' \subseteq checked \ {k}
    BY <2>1 DEF LinesInv, RequestsInv, ChecksInv
  <2>3. FALSE \in BOOLEAN /\ inputs' \in Nat /\ inputs' >= inputs /\ answers \subseteq answers'
    BY <2>1
  <2>4. FALSE /\ Asks(k).kind = "respond" => <<k[1], Asks(k).question>> \in answers'
    OBVIOUS
  <2> QED
    BY <2>1, <2>2, <2>3, <2>4, CompletesKeeps
<1> QED
  BY <1>1, <1>2

LEMMA ForwardLines ==
    ASSUME LinesInv, inputs \in Nat, NEW k \in Line, ForwardAnswer(k)
    PROVE  LinesInv' /\ RequestsKept
<1>1. /\ k \in checked /\ wire[k] # << >> /\ Asks(k).kind = "respond"
      /\ lapsed' = lapsed \ {k} /\ lapsed \subseteq checked
  BY DEF ForwardAnswer, LinesInv, ChecksInv
<1>2. k[1] \in Client /\ Asks(k).question \in Question
  BY <1>1, FirstRequest DEF Sound
<1>3. answers \subseteq Client \X Question
  BY DEF LinesInv, RequestsInv
<1>4. CASE answers' = answers \cup {<<k[1], Asks(k).question>>} /\ Completes(k, TRUE) /\ UNCHANGED inputs
  <2>1. answers' \subseteq Client \X Question /\ answers \subseteq answers'
    BY <1>2, <1>3, <1>4
  <2>2. TRUE /\ Asks(k).kind = "respond" => <<k[1], Asks(k).question>> \in answers'
    BY <1>4
  <2>3. TRUE \in BOOLEAN /\ inputs' \in Nat /\ inputs' >= inputs
    BY <1>4
  <2>4. lapsed' \subseteq checked \ {k}
    BY <1>1
  <2> QED
    BY <1>1, <1>4, <2>1, <2>2, <2>3, <2>4, CompletesKeeps
<1>5. CASE Input /\ Completes(k, FALSE) /\ UNCHANGED answers
  <2>1. inputs' \in Nat /\ inputs' >= inputs
    BY <1>5 DEF Input
  <2> QED
    BY <1>1, <1>3, <1>5, <2>1, CompletesKeeps
<1> QED
  BY <1>4, <1>5 DEF ForwardAnswer

LEMMA ReadLines ==
    ASSUME LinesInv, NEW c \in Client, ReadInteraction(c)
    PROVE  LinesInv' /\ RequestsKept
<1>1. /\ Sends(c, "acquire", 0, 0) /\ 0 \in Question \cup {0} /\ 0 \in Task \cup {0}
      /\ UNCHANGED <<current, checked, answers, lapsed, inputs>> /\ UNCHANGED responses
  BY DEF ReadInteraction, agentVars
<1>2. RequestsInv' /\ WireInv' /\ ChecksInv' /\ RequestsKept
  BY <1>1, SendsKeeps
<1> QED
  BY <1>1, <1>2, SameResponses DEF LinesInv

LEMMA ClickLines ==
    ASSUME LinesInv, ClientsInv, NEW c \in Client, NEW t \in Task, Click(c, t)
    PROVE  /\ LinesInv' /\ RequestsKept
           /\ \E i \in shown[c] : RequestSent(c, Fresh("respond", i.question, t))
<1>1. PICK i \in shown[c] : Sends(c, "respond", i.question, t)
  BY DEF Click
<1>2. i.question \in Question
  BY DEF ClientsInv, Interaction
<1>3. UNCHANGED <<current, checked, answers, lapsed, inputs>> /\ UNCHANGED responses
  BY DEF Click, agentVars
<1>4. /\ RequestsInv' /\ WireInv' /\ ChecksInv' /\ RequestsKept
      /\ RequestSent(c, Fresh("respond", i.question, t))
  BY <1>1, <1>2, <1>3, SendsKeeps
<1> QED
  BY <1>3, <1>4, SameResponses DEF LinesInv

LEMMA TaskReleasesLines ==
    ASSUME LinesInv, NEW c \in Client, NEW t \in Task, TaskReleases(c, t)
    PROVE  LinesInv' /\ RequestsKept /\ RequestSent(c, Fresh("release", 0, t))
<1>1. /\ Sends(c, "release", 0, t) /\ 0 \in Question \cup {0} /\ responses[c] # << >>
      /\ responses' = [responses EXCEPT ![c] = Tail(@)]
      /\ UNCHANGED <<current, checked, answers, lapsed, inputs>>
  BY DEF TaskReleases, Resumes, agentVars
<1>2. /\ RequestsInv' /\ WireInv' /\ ChecksInv' /\ RequestsKept
      /\ RequestSent(c, Fresh("release", 0, t))
  BY <1>1, SendsKeeps
<1> QED
  BY <1>1, <1>2, TakesResponse DEF LinesInv

\* Every step keeps what was requested, and what was accepted stays accepted.
LEMMA NextLines ==
    ASSUME TimesInv, ClientsInv, LinesInv, [Next]_vars
    PROVE  LinesInv' /\ RequestsKept
<1>0. inputs \in 0 .. MaxInputs /\ inputs \in Nat
  BY LeasesAssumption DEF TimesInv
<1>1. CASE Tick \/ ClockStep \/ TimerFires
  <2>1. /\ UNCHANGED lineVars /\ UNCHANGED answers /\ inputs' \in Nat /\ inputs' >= inputs
        /\ lapsed' \subseteq checked
    BY <1>0, <1>1 DEF Tick, ClockStep, TimerFires, NoteExpiry, agentVars, Input
  <2> QED
    BY <1>0, <2>1, UnchangedKeepsLines
<1>2. ASSUME Ask \/ UNCHANGED vars \/ \E c \in Client : Replay(c)
      PROVE  LinesInv' /\ RequestsKept
  <2>1. /\ UNCHANGED lineVars /\ UNCHANGED answers /\ inputs' \in Nat /\ inputs' >= inputs
        /\ lapsed' \subseteq checked
    BY <1>0, <1>2 DEF Ask, Replay, vars, agentVars, Input, LinesInv, ChecksInv
  <2> QED
    BY <1>0, <2>1, UnchangedKeepsLines
<1>3. ASSUME NEW k \in Line,
             \/ AcquireLease(k) \/ ReleaseLease(k) \/ CheckLease(k) \/ ForwardAnswer(k)
             \/ RepeatOperation(k)
      PROVE  LinesInv' /\ RequestsKept
  BY <1>0, <1>3, AcquireLines, ReleaseLines, CheckLines, ForwardLines, RepeatKeeps
<1>4. ASSUME NEW c \in Client, Reconnect(c) \/ Quit(c) \/ ReadInteraction(c) \/ LoopResumes(c)
      PROVE  LinesInv' /\ RequestsKept
  <2>1. CASE LoopResumes(c)
    BY <1>0, <2>1, ResumedKeeps DEF LoopResumes
  <2> QED
    BY <1>0, <1>4, <2>1, ReconnectKeeps, QuitKeeps, ReadLines
<1>5. ASSUME NEW c \in Client, NEW t \in Task,
             \/ Click(c, t) \/ TaskReleases(c, t) \/ TaskDismisses(c, t)
             \/ TaskFails(c, t) \/ NobodyWaits(c, t)
      PROVE  LinesInv' /\ RequestsKept
  <2>1. CASE TaskDismisses(c, t) \/ TaskFails(c, t) \/ NobodyWaits(c, t)
    BY <1>0, <2>1, ResumedKeeps DEF TaskDismisses, TaskFails, NobodyWaits
  <2> QED
    BY <1>5, <2>1, ClickLines, TaskReleasesLines
<1> QED
  BY <1>1, <1>2, <1>3, <1>4, <1>5 DEF Next

LEMMA NextLeasesInv == LeasesInv /\ [Next]_vars => LeasesInv'
  BY NextLeaseInv, NextTimes, NextClients, NextLines DEF LeasesInv

\* The queues, rows and checks stay well formed: what is on its way was requested,
\* a checked answer is the first request of its connection and no other executes
\* it, and what a response says is what the row says (run_connection).
THEOREM LeasesInvariant == Spec => []LeasesInv
  BY InitLeasesInv, NextLeasesInv, PTL DEF Spec

\* The agent has one lease at most, for no longer than the time to live, every
\* answer forwarded to it is to a question it asked, and an answer is checked on
\* the connection that asks for it only (acquire_lease, send_ui_response).
THEOREM LeasesTypeCorrect == Spec => []TypeOK
<1>1. LeasesInv => TypeOK
  <2> SUFFICES ASSUME LeasesInv PROVE TypeOK
    OBVIOUS
  <2>1. Cardinality(lease) <= 1
    <3>1. CASE lease = {}
      BY <3>1, FS_EmptySet
    <3>2. CASE lease # {}
      <4>1. PICK l : l \in lease
        BY <3>2
      <4>2. lease = {l}
        BY <4>1 DEF LeasesInv, LeaseInv, LeaseShape
      <4> QED
        BY <4>2, FS_Singleton
    <3> QED
      BY <3>1, <3>2
  <2>2. \A l \in lease : l \in [holder : Client, left : 0 .. Ttl]
    BY DEF LeasesInv, LeaseInv, LeaseShape, TimesInv
  <2>3. LinesInv /\ TimesInv /\ ClientsInv
    BY DEF LeasesInv
  <2> QED
    BY <2>1, <2>2, <2>3 DEF TypeOK, TimesInv, ClientsInv, LinesInv, RequestsInv, WireInv, ChecksInv,
                            ResponsesInv, Request, Response, Interaction, Responder
<1> QED
  BY <1>1, LeasesInvariant, PTL

\* When an answer is forwarded the lease is still that client's, unless it
\* expired after the check, or the client gave it back itself on its next
\* connection: no other client's request gets in (send_ui_response).
THEOREM CheckedIsHolderCorrect == Spec => []CheckedIsHolder
<1>1. Init => CheckInv
  BY InitLeaseInv DEF Init, CheckInv, CheckedIsHolder
<1>2. LeasesInv => checked \subseteq Line
  BY DEF LeasesInv, LinesInv, ChecksInv
<1>3. CheckInv => CheckedIsHolder
  BY DEF CheckInv
<1> QED
  BY <1>1, <1>2, <1>3, NextCheckInv, LeasesInvariant, PTL DEF Spec

---------------------------------------------------------------------------
\* A dialog is closed by the answer to its own question.

\* The task that waits for the answer to a request.
Backed(c, m) ==
    /\ m.kind = "respond" =>
          /\ m.task \in Task
          /\ task[m.task].client = {c} /\ task[m.task].question = m.question
          /\ task[m.task].at # "none"
    /\ m.kind = "release" =>
          /\ m.task \in Task
          /\ task[m.task].client = {c} /\ task[m.task].at \in {"releasing", "ended"}

TasksInv == \A c \in Client : \A i \in 1 .. Len(requests[c]) : Backed(c, requests[c][i])

\* A task that lives answers the question its client shows, and it releases the
\* lease only when its answer was forwarded.
DialogsInv ==
    /\ \A c \in Client : \A i, j \in shown[c] : i.question = j.question
    /\ \A c \in Client, t \in Task : task[t].client = {c} =>
          /\ Live(t) => \A i \in shown[c] : i.question = task[t].question
          /\ task[t].at = "releasing" => <<c, task[t].question>> \in answers
    /\ \A t \in Task : task[t].at = "none" => task[t].client = {}

DialogInv == TasksInv /\ DialogsInv

\* A step that starts no task: those there are stay, or get on.
TasksGoOn ==
    \A t \in Task :
       /\ task'[t].client = task[t].client /\ task'[t].question = task[t].question
       /\ \/ task'[t].at = task[t].at
          \/ task[t].at # "none" /\ task'[t].at = "ended"

LEMMA UnchangedGoOn == UNCHANGED task => TasksGoOn
  BY DEF TasksGoOn

LEMMA EndedGoOn ==
    ASSUME ClientsInv, DialogsInv, NEW c \in Client, EndTasks(c)
    PROVE  TasksGoOn
<1>1. \A t \in Task : task[t] \in Responder
  BY DEF ClientsInv
<1>2. \A t \in Task : task'[t] = IF task[t].client = {c}
                                 THEN [task[t] EXCEPT !.at = "ended"] ELSE task[t]
  BY DEF EndTasks
<1>3. ASSUME NEW t \in Task
      PROVE  /\ task'[t].client = task[t].client /\ task'[t].question = task[t].question
             /\ \/ task'[t].at = task[t].at
                \/ task[t].at # "none" /\ task'[t].at = "ended"
  <2>1. CASE task[t].client = {c}
    <3>1. task[t].at # "none" /\ task'[t] = [task[t] EXCEPT !.at = "ended"]
      BY <1>2, <2>1 DEF DialogsInv
    <3> QED
      BY <1>1, <3>1 DEF Responder
  <2>2. CASE task[t].client # {c}
    BY <1>2, <2>2
  <2> QED
    BY <2>1, <2>2
<1> QED
  BY <1>3 DEF TasksGoOn

\* Requests get rows, and the daemon makes none.
NoNewRequests == \A c \in Client : Len(requests'[c]) = Len(requests[c])

LEMMA DaemonMakesNone ==
    ASSUME LinesInv, NEW k \in Line,
           \/ AcquireLease(k) \/ ReleaseLease(k) \/ CheckLease(k) \/ ForwardAnswer(k)
           \/ RepeatOperation(k)
    PROVE  NoNewRequests
<1>1. wire[k] # << >>
  BY DEF AcquireLease, ReleaseLease, CheckLease, ForwardAnswer, RepeatOperation, Executes, Reads,
         LinesInv, ChecksInv
<1>2. k[1] \in Client /\ Key(k) \in 1 .. Len(requests[k[1]])
  BY <1>1, FirstRequest
<1>3. \/ UNCHANGED requests
      \/ \E v \in {"pending", "good", "failed"} : RowSet(k[1], Key(k), v)
  BY DEF AcquireLease, ReleaseLease, CheckLease, ForwardAnswer, RepeatOperation, Completes, RowSet
<1>4. CASE UNCHANGED requests
  BY <1>4 DEF NoNewRequests
<1>5. ASSUME NEW v \in {"pending", "good", "failed"}, RowSet(k[1], Key(k), v)
      PROVE  NoNewRequests
  <2>1. RowOnly(k[1], Key(k), v)
    BY <1>2, <1>5, SetRow DEF LinesInv, RequestsInv
  <2> QED
    BY <2>1 DEF RowOnly, NoNewRequests
<1> QED
  BY <1>3, <1>4, <1>5

\* The requests that there were stay backed when tasks get on.
LEMMA BackedStays ==
    ASSUME RequestsKept, TasksInv, NEW c \in Client, NEW i \in 1 .. Len(requests[c]),
           \A t \in Task : task[t].at # "none" =>
              /\ task'[t].client = task[t].client /\ task'[t].question = task[t].question
              /\ task'[t].at \in {task[t].at, "releasing", "ended"}
              /\ task[t].at = "ended" => task'[t].at \in {"releasing", "ended"}
    PROVE  Backed(c, requests[c][i])'
<1>1. /\ requests'[c][i].kind = requests[c][i].kind
      /\ requests'[c][i].question = requests[c][i].question
      /\ requests'[c][i].task = requests[c][i].task
  BY DEF RequestsKept
<1>2. Backed(c, requests[c][i])
  BY DEF TasksInv
<1> QED
  BY <1>1, <1>2 DEF Backed

LEMMA TasksKept ==
    ASSUME RequestsKept, TasksInv, TasksGoOn, NoNewRequests
    PROVE  TasksInv'
<1>1. ASSUME NEW c \in Client, NEW i \in 1 .. Len(requests'[c])
      PROVE  Backed(c, requests[c][i])'
  <2>1. i \in 1 .. Len(requests[c])
    BY DEF NoNewRequests
  <2> QED
    BY <2>1, BackedStays DEF TasksGoOn
<1> QED
  BY <1>1 DEF TasksInv

LEMMA SentTasksKept ==
    ASSUME RequestsKept, TasksInv, TasksGoOn, NEW c \in Client, NEW m, RequestSent(c, m),
           m.kind = "acquire"
    PROVE  TasksInv'
<1>1. ASSUME NEW d \in Client, NEW i \in 1 .. Len(requests'[d])
      PROVE  Backed(d, requests[d][i])'
  <2>1. CASE i \in 1 .. Len(requests[d])
    BY <2>1, BackedStays DEF TasksGoOn
  <2>2. CASE requests'[d][i] = m
    BY <2>2 DEF Backed
  <2> QED
    BY <2>1, <2>2 DEF RequestSent
<1> QED
  BY <1>1 DEF TasksInv

LEMMA DialogsKept ==
    ASSUME DialogsInv, TasksGoOn, answers \subseteq answers',
           \A c \in Client : \A j \in shown'[c] : \E i \in shown[c] : j.question = i.question
    PROVE  DialogsInv'
<1>1. \A c \in Client : \A i, j \in shown'[c] : i.question = j.question
  BY DEF DialogsInv
<1>2. ASSUME NEW c \in Client, NEW t \in Task, task'[t].client = {c}
      PROVE  /\ Live(t)' => \A i \in shown'[c] : i.question = task'[t].question
             /\ task'[t].at = "releasing" => <<c, task'[t].question>> \in answers'
  BY <1>2 DEF DialogsInv, TasksGoOn, Live
<1>3. \A t \in Task : task'[t].at = "none" => task'[t].client = {}
  BY DEF DialogsInv, TasksGoOn
<1> QED
  BY <1>1, <1>2, <1>3 DEF DialogsInv

LEMMA InitDialogInv == Init => DialogInv
<1> SUFFICES ASSUME Init PROVE DialogInv
  OBVIOUS
<1>1. \A c \in Client : requests[c] = << >> /\ Len(requests[c]) = 0 /\ shown[c] = {}
  BY DEF Init
<1>2. \A t \in Task : task[t].at = "none" /\ task[t].client = {}
  BY DEF Init, NoTask
<1>3. TasksInv
  BY <1>1 DEF TasksInv
<1>4. DialogsInv
  BY <1>1, <1>2 DEF DialogsInv
<1> QED
  BY <1>3, <1>4 DEF DialogInv

\* The request of the first response, and the task that waits for it.
LEMMA FirstBacked ==
    ASSUME LinesInv, TasksInv, NEW c \in Client, NEW kind, Resumes(c, kind)
    PROVE  LET m == requests[c][Head(responses[c]).key]
           IN  /\ m.kind = kind /\ Backed(c, m) /\ Waiter(c) = m.task
               /\ Good(c) /\ kind = "respond" => <<c, m.question>> \in answers
<1> DEFINE m == requests[c][Head(responses[c]).key]
<1>1. responses[c] # << >> /\ m.kind = kind
  BY DEF Resumes
<1>2. /\ Head(responses[c]).key \in 1 .. Len(requests[c])
      /\ Good(c) => m.row = "good"
  BY <1>1, FirstResponse DEF Good
<1>3. Sound(c, m) /\ Backed(c, m)
  BY <1>2 DEF LinesInv, RequestsInv, TasksInv
<1> QED
  BY <1>1, <1>2, <1>3 DEF Sound, Waiter

LEMMA ReadDialog ==
    ASSUME LeasesInv, DialogInv, NEW c \in Client, ReadInteraction(c)
    PROVE  DialogInv'
<1>0. LinesInv /\ ClientsInv /\ TasksInv /\ DialogsInv
  BY DEF LeasesInv, DialogInv
<1> DEFINE q == Head(feed[c])
<1>1. /\ shown' = [shown EXCEPT ![c] = Dialog(q)] /\ UNCHANGED answers
      /\ IF Remounts(c, q) THEN EndTasks(c) ELSE UNCHANGED task
  BY DEF ReadInteraction, agentVars
<1> HIDE DEF q
<1>2. TasksGoOn
  BY <1>0, <1>1, EndedGoOn, UnchangedGoOn
<1>3. RequestsKept /\ RequestSent(c, Fresh("acquire", 0, 0))
  <2>1. /\ Sends(c, "acquire", 0, 0) /\ 0 \in Question \cup {0} /\ 0 \in Task \cup {0}
        /\ UNCHANGED <<current, checked, answers, lapsed, inputs>>
    BY DEF ReadInteraction, agentVars
  <2> QED
    BY <1>0, <2>1, SendsKeeps
<1>4. TasksInv'
  <2>1. Fresh("acquire", 0, 0).kind = "acquire"
    BY DEF Fresh
  <2> QED
    BY <1>0, <1>2, <1>3, <2>1, SentTasksKept
<1>5. /\ \A i \in Dialog(q) : i.question = q
      /\ \A d \in Client : shown'[d] = IF d = c THEN Dialog(q) ELSE shown[d]
  BY <1>0, <1>1 DEF Dialog, ClientsInv
<1>6. CASE Remounts(c, q)
  <2>1. \A t \in Task : task[t].client = {c} => task'[t].at = "ended" /\ ~Live(t)'
    <3>1. \A t \in Task : task[t] \in Responder
      BY <1>0 DEF ClientsInv
    <3>2. \A t \in Task : task[t].client = {c} => task'[t] = [task[t] EXCEPT !.at = "ended"]
      BY <1>1, <1>6 DEF EndTasks
    <3>3. \A t \in Task : task[t].client = {c} => task'[t].at = "ended"
      BY <3>1, <3>2 DEF Responder
    <3> QED
      BY <3>3 DEF Live
  <2>2. \A d \in Client : \A i, j \in shown'[d] : i.question = j.question
    BY <1>0, <1>5 DEF DialogsInv
  <2>3. ASSUME NEW d \in Client, NEW t \in Task, task'[t].client = {d}
        PROVE  /\ Live(t)' => \A i \in shown'[d] : i.question = task'[t].question
               /\ task'[t].at = "releasing" => <<d, task'[t].question>> \in answers'
    <3>1. CASE d = c
      BY <1>2, <2>1, <2>3, <3>1 DEF TasksGoOn
    <3>2. CASE d # c
      BY <1>0, <1>1, <1>2, <1>5, <2>3, <3>2 DEF TasksGoOn, DialogsInv, Live
    <3> QED
      BY <3>1, <3>2
  <2>4. \A t \in Task : task'[t].at = "none" => task'[t].client = {}
    BY <1>0, <1>2 DEF DialogsInv, TasksGoOn
  <2> QED
    BY <1>4, <2>2, <2>3, <2>4 DEF DialogInv, DialogsInv
<1>7. CASE ~Remounts(c, q)
  <2>1. PICK i \in shown[c] : i.question = q
    BY <1>7 DEF Remounts
  <2>2. \A d \in Client : \A j \in shown'[d] : \E e \in shown[d] : j.question = e.question
    BY <1>5, <2>1
  <2> QED
    BY <1>0, <1>1, <1>2, <1>4, <2>2, DialogsKept DEF DialogInv
<1> QED
  BY <1>6, <1>7

LEMMA ClickDialog ==
    ASSUME LeasesInv, DialogInv, NEW c \in Client, NEW t \in Task, Click(c, t)
    PROVE  DialogInv'
<1>0. LinesInv /\ ClientsInv /\ TasksInv /\ DialogsInv
  BY DEF LeasesInv, DialogInv
<1>1. PICK i \in shown[c] :
         /\ task' = [task EXCEPT ![t] =
               [at |-> "responding", client |-> {c}, question |-> i.question]]
         /\ Sends(c, "respond", i.question, t)
  BY DEF Click
<1>2. /\ task[t].at = "none" /\ UNCHANGED shown
      /\ UNCHANGED <<current, checked, answers, lapsed, inputs>>
  BY DEF Click, agentVars
<1>3. i.question \in Question
  BY <1>0 DEF ClientsInv, Interaction
<1>4. RequestsKept /\ RequestSent(c, Fresh("respond", i.question, t))
  BY <1>0, <1>1, <1>2, <1>3, SendsKeeps
<1>5. /\ task'[t].at = "responding" /\ task'[t].client = {c} /\ task'[t].question = i.question
      /\ \A u \in Task : u # t => task'[u] = task[u]
  BY <1>0, <1>1 DEF ClientsInv
<1>6. TasksInv'
  <2>1. ASSUME NEW d \in Client, NEW j \in 1 .. Len(requests'[d])
        PROVE  Backed(d, requests[d][j])'
    <3>1. CASE j \in 1 .. Len(requests[d])
      <4>1. \A u \in Task : task[u].at # "none" => task'[u] = task[u]
        BY <1>2, <1>5
      <4> QED
        BY <1>0, <1>4, <3>1, <4>1, BackedStays
    <3>2. CASE d = c /\ requests'[d][j] = Fresh("respond", i.question, t)
      BY <1>5, <3>2 DEF Backed, Fresh
    <3> QED
      BY <1>4, <3>1, <3>2 DEF RequestSent
  <2> QED
    BY <2>1 DEF TasksInv
<1>7. DialogsInv'
  <2>1. ASSUME NEW d \in Client, NEW u \in Task, task'[u].client = {d}
        PROVE  /\ Live(u)' => \A j \in shown'[d] : j.question = task'[u].question
               /\ task'[u].at = "releasing" => <<d, task'[u].question>> \in answers'
    <3>1. CASE u = t
      BY <1>0, <1>2, <1>5, <2>1, <3>1 DEF DialogsInv
    <3>2. CASE u # t
      BY <1>0, <1>2, <1>5, <2>1, <3>2 DEF DialogsInv, Live
    <3> QED
      BY <3>1, <3>2
  <2>2. \A u \in Task : task'[u].at = "none" => task'[u].client = {}
    BY <1>0, <1>5 DEF DialogsInv
  <2> QED
    BY <1>0, <1>2, <2>1, <2>2 DEF DialogsInv
<1> QED
  BY <1>6, <1>7 DEF DialogInv

LEMMA TaskReleasesDialog ==
    ASSUME LeasesInv, DialogInv, NEW c \in Client, NEW t \in Task, TaskReleases(c, t)
    PROVE  DialogInv'
<1>0. LinesInv /\ ClientsInv /\ TasksInv /\ DialogsInv
  BY DEF LeasesInv, DialogInv
<1>1. /\ Resumes(c, "respond") /\ t = Waiter(c) /\ Live(t) /\ Good(c)
      /\ task' = [task EXCEPT ![t].at = "releasing"] /\ UNCHANGED <<shown, answers>>
  BY DEF TaskReleases, Resumes, agentVars
<1>2. task[t].client = {c} /\ <<c, task[t].question>> \in answers
  <2>1. LET m == requests[c][Head(responses[c]).key]
        IN  /\ m.kind = "respond" /\ Backed(c, m) /\ t = m.task
            /\ <<c, m.question>> \in answers
    BY <1>0, <1>1, FirstBacked
  <2> QED
    BY <2>1 DEF Backed
<1>3. RequestsKept /\ RequestSent(c, Fresh("release", 0, t))
  BY <1>0, TaskReleasesLines
<1>4. /\ task'[t].at = "releasing" /\ task'[t].client = {c}
      /\ task'[t].question = task[t].question
      /\ \A u \in Task : u # t => task'[u] = task[u]
  BY <1>0, <1>1, <1>2 DEF ClientsInv, Responder
<1>5. TasksInv'
  <2>1. ASSUME NEW d \in Client, NEW j \in 1 .. Len(requests'[d])
        PROVE  Backed(d, requests[d][j])'
    <3>1. CASE j \in 1 .. Len(requests[d])
      <4>1. \A u \in Task : task[u].at # "none" =>
               /\ task'[u].client = task[u].client /\ task'[u].question = task[u].question
               /\ task'[u].at \in {task[u].at, "releasing", "ended"}
               /\ task[u].at = "ended" => task'[u].at \in {"releasing", "ended"}
        BY <1>2, <1>4
      <4> QED
        BY <1>0, <1>3, <3>1, <4>1, BackedStays
    <3>2. CASE d = c /\ requests'[d][j] = Fresh("release", 0, t)
      BY <1>4, <3>2 DEF Backed, Fresh
    <3> QED
      BY <1>3, <3>1, <3>2 DEF RequestSent
  <2> QED
    BY <2>1 DEF TasksInv
<1>6. DialogsInv'
  <2>1. ASSUME NEW d \in Client, NEW u \in Task, task'[u].client = {d}
        PROVE  /\ Live(u)' => \A j \in shown'[d] : j.question = task'[u].question
               /\ task'[u].at = "releasing" => <<d, task'[u].question>> \in answers'
    <3>1. CASE u = t
      <4>1. d = c
        BY <1>4, <2>1, <3>1
      <4> QED
        BY <1>0, <1>1, <1>2, <1>4, <3>1, <4>1 DEF DialogsInv
    <3>2. CASE u # t
      BY <1>0, <1>1, <1>4, <2>1, <3>2 DEF DialogsInv, Live
    <3> QED
      BY <3>1, <3>2
  <2>2. \A u \in Task : task'[u].at = "none" => task'[u].client = {}
    BY <1>0, <1>4 DEF DialogsInv
  <2> QED
    BY <1>0, <1>1, <2>1, <2>2 DEF DialogsInv
<1> QED
  BY <1>5, <1>6 DEF DialogInv

\* Every other step starts no task and shows no question.
LEMMA QuietDialog ==
    ASSUME LeasesInv, DialogInv, RequestsKept, NoNewRequests, TasksGoOn, answers \subseteq answers',
           \A c \in Client : \A j \in shown'[c] : \E i \in shown[c] : j.question = i.question
    PROVE  DialogInv'
  BY TasksKept, DialogsKept DEF DialogInv

LEMMA ViewUnchangedDialog ==
    ASSUME LeasesInv, DialogInv, RequestsKept, NoNewRequests, UNCHANGED <<shown, task>>,
           answers \subseteq answers'
    PROVE  DialogInv'
  BY QuietDialog, UnchangedGoOn

LEMMA NextDialogInv == LeasesInv /\ DialogInv /\ [Next]_vars => DialogInv'
<1> SUFFICES ASSUME LeasesInv, DialogInv, [Next]_vars PROVE DialogInv'
  OBVIOUS
<1>0. /\ LinesInv /\ TimesInv /\ ClientsInv /\ TasksInv /\ DialogsInv
      /\ RequestsKept
  BY NextLines DEF LeasesInv, DialogInv
<1>a. UNCHANGED requests => NoNewRequests
  BY DEF NoNewRequests
<1>1. ASSUME Tick \/ ClockStep \/ TimerFires \/ Ask \/ UNCHANGED vars PROVE DialogInv'
  <2>1. UNCHANGED <<shown, task, requests, answers>>
    BY <1>1 DEF Tick, ClockStep, TimerFires, Ask, vars, viewVars, lineVars, agentVars
  <2> QED
    BY <1>0, <1>a, <2>1, ViewUnchangedDialog
<1>2. ASSUME NEW k \in Line,
             \/ AcquireLease(k) \/ ReleaseLease(k) \/ CheckLease(k) \/ ForwardAnswer(k)
             \/ RepeatOperation(k)
      PROVE  DialogInv'
  <2>1. UNCHANGED <<shown, task>> /\ answers \subseteq answers'
    BY <1>2 DEF AcquireLease, ReleaseLease, CheckLease, ForwardAnswer, RepeatOperation, viewVars,
                agentVars
  <2>2. NoNewRequests
    BY <1>0, <1>2, DaemonMakesNone
  <2> QED
    BY <1>0, <2>1, <2>2, ViewUnchangedDialog
<1>3. ASSUME NEW c \in Client, Replay(c) \/ Reconnect(c) PROVE DialogInv'
  <2>1. UNCHANGED <<shown, task, requests, answers>>
    BY <1>3 DEF Replay, Reconnect, viewVars, lineVars, agentVars
  <2> QED
    BY <1>0, <1>a, <2>1, ViewUnchangedDialog
<1>4. ASSUME NEW c \in Client, Quit(c) PROVE DialogInv'
  <2>1. /\ UNCHANGED <<requests, answers>> /\ EndTasks(c)
        /\ shown' = [shown EXCEPT ![c] = {}]
    BY <1>4 DEF Quit, agentVars
  <2>2. \A d \in Client : shown'[d] \subseteq shown[d]
    BY <1>0, <2>1 DEF ClientsInv
  <2> QED
    BY <1>0, <1>a, <2>1, <2>2, EndedGoOn, QuietDialog
<1>5. ASSUME NEW c \in Client, ReadInteraction(c) PROVE DialogInv'
  BY <1>5, ReadDialog
<1>6. ASSUME NEW c \in Client, LoopResumes(c) PROVE DialogInv'
  <2>1. /\ UNCHANGED <<requests, answers, task>>
        /\ shown' = [shown EXCEPT ![c] =
              {[i EXCEPT !.lease = IF Good(c) THEN "owned" ELSE "unavailable"] : i \in @}]
    BY <1>6 DEF LoopResumes, Resumes, agentVars
  <2>2. \A d \in Client : \A i \in shown[d] : i \in Interaction
    BY <1>0 DEF ClientsInv
  <2>3. \A d \in Client : \A j \in shown'[d] : \E i \in shown[d] : j.question = i.question
    BY <1>0, <2>1, <2>2 DEF ClientsInv, Interaction
  <2> QED
    BY <1>0, <1>a, <2>1, <2>3, UnchangedGoOn, QuietDialog
<1>7. ASSUME NEW c \in Client, NEW t \in Task, Click(c, t) \/ TaskReleases(c, t) PROVE DialogInv'
  BY <1>7, ClickDialog, TaskReleasesDialog
<1>8. ASSUME NEW c \in Client, NEW t \in Task, TaskDismisses(c, t) PROVE DialogInv'
  <2>1. /\ UNCHANGED <<requests, answers>> /\ EndTasks(c)
        /\ shown' = [shown EXCEPT ![c] = {}]
    BY <1>8 DEF TaskDismisses, Resumes, agentVars
  <2>2. \A d \in Client : shown'[d] \subseteq shown[d]
    BY <1>0, <2>1 DEF ClientsInv
  <2> QED
    BY <1>0, <1>a, <2>1, <2>2, EndedGoOn, QuietDialog
<1>9. ASSUME NEW c \in Client, NEW t \in Task, TaskFails(c, t) PROVE DialogInv'
  <2>1. /\ UNCHANGED <<requests, answers, shown>> /\ Live(t)
        /\ task' = [task EXCEPT ![t].at = "ended"]
    BY <1>9 DEF TaskFails, Resumes, agentVars
  <2>2. TasksGoOn
    BY <1>0, <2>1 DEF TasksGoOn, ClientsInv, Responder, Live
  <2> QED
    BY <1>0, <1>a, <2>1, <2>2, QuietDialog
<1>10. ASSUME NEW c \in Client, NEW t \in Task, NobodyWaits(c, t) PROVE DialogInv'
  <2>1. UNCHANGED <<shown, task, requests, answers>>
    BY <1>10 DEF NobodyWaits, Resumes, agentVars
  <2> QED
    BY <1>0, <1>a, <2>1, ViewUnchangedDialog
<1> QED
  BY <1>1, <1>2, <1>3, <1>4, <1>5, <1>6, <1>7, <1>8, <1>9, <1>10 DEF Next

\* The only step that closes a dialog of a client that goes on.
LEMMA ClosedByItsAnswer ==
    ASSUME LeasesInv, DialogInv, [Next]_vars, NEW c \in Client,
           shown[c] # {}, shown'[c] = {}, loop'[c] # "ended"
    PROVE  \A i \in shown[c] : <<c, i.question>> \in answers
<1>0. LinesInv /\ ClientsInv /\ TasksInv /\ DialogsInv
  BY DEF LeasesInv, DialogInv
<1>1. ~UNCHANGED shown
  OBVIOUS
<1>2. ASSUME NEW d \in Client, NEW t \in Task, TaskDismisses(d, t)
      PROVE  \A i \in shown[c] : <<c, i.question>> \in answers
  <2>1. shown' = [shown EXCEPT ![d] = {}]
    BY <1>2 DEF TaskDismisses
  <2>2. c = d
    BY <1>0, <2>1 DEF ClientsInv
  <2>3. Resumes(d, "release") /\ t = Waiter(d) /\ Live(t)
    BY <1>2 DEF TaskDismisses
  <2>4. LET m == requests[d][Head(responses[d]).key]
        IN  m.kind = "release" /\ Backed(d, m) /\ t = m.task
    BY <1>0, <2>3, FirstBacked
  <2>5. task[t].client = {d} /\ task[t].at = "releasing"
    BY <2>3, <2>4 DEF Backed, Live
  <2>6. <<d, task[t].question>> \in answers
    BY <1>0, <2>5 DEF DialogsInv
  <2>7. \A i \in shown[d] : i.question = task[t].question
    BY <1>0, <2>3, <2>5 DEF DialogsInv
  <2> QED
    BY <2>2, <2>6, <2>7
<1>3. ASSUME NEW d \in Client, ReadInteraction(d) PROVE FALSE
  <2>1. shown' = [shown EXCEPT ![d] = Dialog(Head(feed[d]))] /\ Dialog(Head(feed[d])) # {}
    BY <1>3 DEF ReadInteraction, Dialog
  <2> QED
    BY <1>0, <2>1 DEF ClientsInv
<1>4. ASSUME NEW d \in Client, LoopResumes(d) PROVE FALSE
  <2>1. PICK f \in {"owned", "unavailable"} :
           shown' = [shown EXCEPT ![d] = {[i EXCEPT !.lease = f] : i \in @}]
    BY <1>4 DEF LoopResumes
  <2>2. /\ c = d => shown'[c] = {[i EXCEPT !.lease = f] : i \in shown[c]}
        /\ c # d => shown'[c] = shown[c]
    BY <1>0, <2>1 DEF ClientsInv
  <2>3. PICK i : i \in shown[c]
    OBVIOUS
  <2>4. c = d
    BY <2>2
  <2>5. [i EXCEPT !.lease = f] \in shown'[c]
    BY <2>2, <2>3, <2>4
  <2> QED
    BY <2>5
<1>5. ASSUME NEW d \in Client, Quit(d) PROVE FALSE
  BY <1>0, <1>5 DEF Quit, ClientsInv
<1>6. ASSUME \/ Tick \/ ClockStep \/ TimerFires \/ Ask \/ UNCHANGED vars
             \/ \E k \in Line :
                   \/ AcquireLease(k) \/ ReleaseLease(k) \/ CheckLease(k) \/ ForwardAnswer(k)
                   \/ RepeatOperation(k)
             \/ \E d \in Client : \/ Replay(d) \/ Reconnect(d)
                                  \/ \E t \in Task : \/ Click(d, t) \/ TaskReleases(d, t)
                                                     \/ TaskFails(d, t) \/ NobodyWaits(d, t)
      PROVE  UNCHANGED shown
  BY <1>6 DEF Tick, ClockStep, TimerFires, Ask, vars, AcquireLease, ReleaseLease, CheckLease,
              ForwardAnswer, RepeatOperation, Replay, Reconnect, Click, TaskReleases, TaskFails,
              NobodyWaits, viewVars
<1> QED
  BY <1>1, <1>2, <1>3, <1>4, <1>5, <1>6 DEF Next

\* A dialog is closed only after the client's own answer to its question went to
\* the agent, although respond_interaction dismisses by the agent's name alone:
\* the key of the dialog ends the tasks of the question before (interaction_key).
THEOREM OwnDialogCorrect == Spec => OwnDialogDismissed
<1>1. Spec => [](LeasesInv /\ DialogInv)
  BY InitDialogInv, InitLeasesInv, NextLeasesInv, NextDialogInv, PTL DEF Spec
<1>2. LeasesInv /\ DialogInv /\ [Next]_vars =>
         [\A c \in Client :
             shown[c] # {} /\ shown'[c] = {} /\ loop'[c] # "ended" =>
                \A i \in shown[c] : <<c, i.question>> \in answers]_vars
  BY ClosedByItsAnswer
<1> QED
  BY <1>1, <1>2, PTL DEF Spec, OwnDialogDismissed
=============================================================================

------------------------- MODULE OperationsProofs -------------------------
(***************************************************************************)
(* Proofs about Operations, for every set of requests, however many        *)
(* connections are lost and however often the daemon restarts: the effect  *)
(* of an operation happens at most once, and an outcome that is sent to a  *)
(* caller is the one the operation had and is durable.                     *)
(***************************************************************************)
EXTENDS Operations, SequenceTheorems, TLAPS

---------------------------------------------------------------------------
\* The inductive invariant.

\* The types of the daemon's state.
DaemonTypeOK ==
    /\ task \in [Connection -> [at : {"idle", "execute", "complete"}, request : SUBSET Request,
                                outcome : SUBSET Outcome]]
    /\ operations \in [Operation -> [status : {"absent", "pending", "completed", "indeterminate"},
                                     payload : SUBSET {PayloadOf[r] : r \in Request},
                                     outcome : SUBSET Outcome]]
    /\ executed \in [Operation -> Seq(Outcome)]
    /\ responses \in [Connection -> Seq([request : Request, answer : Answer])]
    /\ answers \in [Request -> SUBSET Answer]

\* The task of connection t works on request r of operation o.
Works(t, r, o) == r \in t.request /\ o \in OperationOf[r]

\* An operation is executed by the one connection that claimed it, while its
\* row is pending with that request's payload (execute_request between
\* claim_operation and complete_operation).
Claimed ==
    \A c \in Connection, r \in Request, o \in Operation :
       Works(task[c], r, o) =>
          /\ operations[o].status = "pending"
          /\ operations[o].payload = {PayloadOf[r]}
          /\ \A d \in Connection, q \in Request : Works(task[d], q, o) => d = c /\ q = r
          /\ task[c].at = "execute" => executed[o] = << >>
          /\ task[c].at = "complete" => \E v \in Outcome : task[c].outcome = {v} /\ executed[o] = <<v>>

\* A task that is idle works on nothing; one that has executed has an outcome.
TaskShape ==
    \A c \in Connection :
       /\ task[c].at = "idle" => task[c].request = {}
       /\ task[c].at = "complete" => \E v \in Outcome : task[c].outcome = {v}

\* What a row says of the past.
Rows ==
    \A o \in Operation :
       /\ operations[o].status = "absent" => operations[o] = NoRow /\ executed[o] = << >>
       /\ \A r \in Request : PayloadOf[r] \in operations[o].payload
                              => operations[o].payload = {PayloadOf[r]}
       /\ operations[o].status = "completed" =>
             \E v \in Outcome : operations[o].outcome = {v} /\ executed[o] = <<v>>

OperationInv ==
    /\ DaemonTypeOK
    /\ Claimed
    /\ TaskShape
    /\ Rows
    /\ AtMostOnce
    /\ DurableOutcome

---------------------------------------------------------------------------
\* The parts of a sequence that is not empty.
LEMMA HeadAndTail ==
    ASSUME NEW S, NEW q \in Seq(S), q # << >>
    PROVE  /\ Head(q) \in S /\ 1 \in DOMAIN q /\ Head(q) = q[1]
           /\ Tail(q) \in Seq(S)
           /\ \A i \in DOMAIN Tail(q) : i + 1 \in DOMAIN q /\ Tail(q)[i] = q[i + 1]
<1>1. Len(q) \in Nat /\ Len(q) # 0 /\ DOMAIN q = 1 .. Len(q)
  OBVIOUS
<1>2. /\ Tail(q) \in Seq(S) /\ Len(Tail(q)) = Len(q) - 1
      /\ DOMAIN Tail(q) = 1 .. Len(q) - 1
  BY <1>1
<1>3. \A i \in 1 .. Len(q) - 1 : Tail(q)[i] = q[i + 1]
  BY <1>1
<1> QED
  BY <1>1, <1>2, <1>3

---------------------------------------------------------------------------
\* What callers have been given.

\* Caller r has received v, or a response with it is on its way.
Given(r, v, ans, res) ==
    \/ v \in ans[r]
    \/ \E c \in Connection : \E i \in DOMAIN res[c] : res[c][i] = Response(r, v)

\* The table holds v as the outcome of r's operation o, whose only execution
\* returned it.
Stored(r, o, v, rows, runs) ==
    /\ runs[o] = <<v>>
    /\ rows[o] = [status |-> "completed", payload |-> {PayloadOf[r]}, outcome |-> {v}]

\* DurableOutcome in these terms.
LEMMA DurableOutcomeIs ==
    DurableOutcome <=>
        \A r \in Request, o \in Operation, v \in Outcome :
            o \in OperationOf[r] /\ Given(r, v, answers, responses)
                => Stored(r, o, v, operations, executed)
  BY DEF DurableOutcome, Given, Stored

\* Its primed form.
LEMMA DurableOutcomeNextIs ==
    DurableOutcome' <=>
        \A r \in Request, o \in Operation, v \in Outcome :
            o \in OperationOf[r] /\ Given(r, v, answers', responses')
                => Stored(r, o, v, operations', executed')
  BY DEF DurableOutcome, Given, Stored

\* outbound.response adds at most the response it is given.
LEMMA RespondAdds ==
    ASSUME responses \in [Connection -> Seq([request : Request, answer : Answer])],
           NEW c \in Connection, NEW r \in Request, NEW a \in Answer,
           Respond(c, r, a)
    PROVE  /\ responses' \in [Connection -> Seq([request : Request, answer : Answer])]
           /\ \A q \in Request, v \in Outcome :
                 Given(q, v, answers, responses')
                    => Given(q, v, answers, responses) \/ (q = r /\ v = a)
<1> DEFINE R == [request : Request, answer : Answer]
           x == Response(r, a)
<1>1. x \in R
  BY DEF Response
<1>2. CASE c \notin connection
  BY <1>2 DEF Respond
<1>3. CASE c \in connection
  <2>1. responses' = [responses EXCEPT ![c] = Append(responses[c], x)]
    BY <1>3 DEF Respond
  <2>2. responses[c] \in Seq(R)
    OBVIOUS
  <2>3. Append(responses[c], x) \in Seq(R)
    BY <1>1, <2>2
  <2>4. responses' \in [Connection -> Seq(R)]
    BY <2>1, <2>3
  <2>5. ASSUME NEW q \in Request, NEW v \in Outcome, NEW d \in Connection,
               NEW i \in DOMAIN responses'[d], responses'[d][i] = Response(q, v)
        PROVE  \/ \E j \in DOMAIN responses[d] : responses[d][j] = Response(q, v)
               \/ q = r /\ v = a
    <3>1. CASE d # c
      BY <2>1, <2>5, <3>1
    <3>2. CASE d = c
      <4>1. responses'[d] = Append(responses[c], x)
        BY <2>1, <3>2
      <4>2. CASE i \in DOMAIN responses[c]
        <5>1. responses'[d][i] = responses[c][i]
          BY <1>1, <2>2, <4>1, <4>2
        <5> QED
          BY <2>5, <3>2, <4>2, <5>1
      <4>3. CASE i \notin DOMAIN responses[c]
        <5>1. responses'[d][i] = x
          BY <1>1, <2>2, <4>1, <4>3
        <5>2. Response(q, v) = Response(r, a)
          BY <2>5, <5>1
        <5> QED
          BY <5>2 DEF Response
      <4> QED
        BY <4>2, <4>3
    <3> QED
      BY <3>1, <3>2
  <2> QED
    BY <2>4, <2>5 DEF Given
<1> QED
  BY <1>2, <1>3

---------------------------------------------------------------------------
\* Steps of the client, and answers that execute nothing.

\* A step that changes neither tasks nor rows nor executions keeps the
\* invariant if what it gives to callers was given before or is stored.
LEMMA QuietStep ==
    ASSUME OperationInv,
           UNCHANGED <<task, operations, executed>>,
           responses' \in [Connection -> Seq([request : Request, answer : Answer])],
           answers' \in [Request -> SUBSET Answer],
           \A r \in Request, o \in Operation, v \in Outcome :
               o \in OperationOf[r] /\ Given(r, v, answers', responses')
                   => \/ Given(r, v, answers, responses)
                      \/ Stored(r, o, v, operations, executed)
    PROVE  OperationInv'
<1>1. DaemonTypeOK'
  BY DEF OperationInv, DaemonTypeOK
<1>2. Claimed' /\ TaskShape' /\ Rows' /\ AtMostOnce'
  <2>1. Claimed' /\ TaskShape'
    BY DEF OperationInv, Claimed, TaskShape, Works
  <2>2. Rows' /\ AtMostOnce'
    BY DEF OperationInv, Rows, AtMostOnce, NoRow
  <2> QED
    BY <2>1, <2>2
<1>3. DurableOutcome'
  <2>1. DurableOutcome
    BY DEF OperationInv
  <2> QED
    BY <2>1, DurableOutcomeIs, DurableOutcomeNextIs
<1> QED
  BY <1>1, <1>2, <1>3 DEF OperationInv

\* ClientHandle::request: a stopped runner gives an error, not an outcome.
LEMMA MakeRequestKeepsInv ==
    ASSUME OperationInv, NEW r \in Request, MakeRequest(r)
    PROVE  OperationInv'
<1>1. /\ answers \in [Request -> SUBSET Answer]
      /\ responses \in [Connection -> Seq([request : Request, answer : Answer])]
  BY DEF OperationInv, DaemonTypeOK
<1>2. /\ UNCHANGED <<task, operations, executed, responses>>
      /\ \/ answers' = answers
         \/ answers' = [answers EXCEPT ![r] = {"client_stopped"}]
  BY DEF MakeRequest
<1>3. "client_stopped" \in Answer \ Outcome
  BY OutcomeAssumption DEF Answer, Error
<1>4. /\ answers' \in [Request -> SUBSET Answer]
      /\ \A q \in Request : answers'[q] = answers[q] \/ answers'[q] = {"client_stopped"}
  <2>1. CASE answers' = answers
    BY <1>1, <2>1
  <2>2. CASE answers' = [answers EXCEPT ![r] = {"client_stopped"}]
    <3>1. {"client_stopped"} \in SUBSET Answer
      BY <1>3
    <3> QED
      BY <1>1, <2>2, <3>1
  <2> QED
    BY <1>2, <2>1, <2>2
<1>5. \A q \in Request, v \in Outcome : v \in answers'[q] => v \in answers[q]
  BY <1>3, <1>4
<1> QED
  BY <1>1, <1>2, <1>4, <1>5, QuietStep DEF Given

\* complete_response: the caller is given what was on its way to it.
LEMMA ReceiveResponseKeepsInv ==
    ASSUME OperationInv, NEW c \in Connection, ReceiveResponse(c)
    PROVE  OperationInv'
<1> DEFINE R == [request : Request, answer : Answer]
           x == Head(responses[c])
<1>1. /\ answers \in [Request -> SUBSET Answer]
      /\ responses \in [Connection -> Seq(R)]
      /\ responses[c] \in Seq(R) /\ responses[c] # << >>
  BY DEF OperationInv, DaemonTypeOK, ReceiveResponse
<1>2. /\ UNCHANGED <<task, operations, executed>>
      /\ responses' = [responses EXCEPT ![c] = Tail(responses[c])]
      /\ answers' = answers \/ answers' = [answers EXCEPT ![x.request] = {x.answer}]
  BY DEF ReceiveResponse
<1>3. /\ x \in R /\ 1 \in DOMAIN responses[c] /\ x = responses[c][1]
      /\ Tail(responses[c]) \in Seq(R)
      /\ \A i \in DOMAIN Tail(responses[c]) :
            i + 1 \in DOMAIN responses[c] /\ Tail(responses[c])[i] = responses[c][i + 1]
  BY <1>1, HeadAndTail
<1>4. responses' \in [Connection -> Seq(R)] /\ answers' \in [Request -> SUBSET Answer]
  <2>1. responses' \in [Connection -> Seq(R)]
    BY <1>1, <1>2, <1>3
  <2>2. x.request \in Request /\ {x.answer} \in SUBSET Answer
    BY <1>3
  <2>3. answers' \in [Request -> SUBSET Answer]
    BY <1>1, <1>2, <2>2
  <2> QED
    BY <2>1, <2>3
<1>5. ASSUME NEW q \in Request, NEW v \in Outcome, Given(q, v, answers', responses')
      PROVE  Given(q, v, answers, responses)
  <2>1. CASE v \in answers'[q]
    <3>1. CASE v \in answers[q]
      BY <3>1 DEF Given
    <3>2. CASE v \notin answers[q]
      <4>1. x.request = q /\ x.answer = v
        BY <1>1, <1>2, <1>3, <2>1, <3>2
      <4>2. x = Response(q, v)
        BY <1>3, <4>1 DEF Response
      <4> QED
        BY <1>3, <4>2 DEF Given
    <3> QED
      BY <3>1, <3>2
  <2>2. CASE \E d \in Connection : \E i \in DOMAIN responses'[d] : responses'[d][i] = Response(q, v)
    <3>1. PICK d \in Connection : \E i \in DOMAIN responses'[d] : responses'[d][i] = Response(q, v)
      BY <2>2
    <3>2. CASE d = c
      BY <1>1, <1>2, <1>3, <3>1, <3>2 DEF Given
    <3>3. CASE d # c
      BY <1>1, <1>2, <3>1, <3>3 DEF Given
    <3> QED
      BY <3>2, <3>3
  <2> QED
    BY <1>5, <2>1, <2>2 DEF Given
<1> QED
  BY <1>2, <1>4, <1>5, QuietStep

\* The connection is lost: responses are lost with it.
LEMMA DisconnectKeepsInv ==
    ASSUME OperationInv, Disconnect
    PROVE  OperationInv'
<1>1. /\ answers \in [Request -> SUBSET Answer]
      /\ responses \in [Connection -> Seq([request : Request, answer : Answer])]
  BY DEF OperationInv, DaemonTypeOK
<1>2. PICK c \in connection : responses' = [responses EXCEPT ![c] = << >>]
  BY DEF Disconnect
<1>3. UNCHANGED <<task, operations, executed, answers>>
  BY DEF Disconnect
<1>4. responses' \in [Connection -> Seq([request : Request, answer : Answer])]
  <2>1. << >> \in Seq([request : Request, answer : Answer])
    OBVIOUS
  <2> QED
    BY <1>1, <1>2, <2>1
<1>5. \A q \in Request, v \in Outcome :
         Given(q, v, answers', responses') => Given(q, v, answers, responses)
  BY <1>1, <1>2, <1>3 DEF Given
<1> QED
  BY <1>1, <1>3, <1>4, <1>5, QuietStep

\* fail_pending gives errors only.
LEMMA ClientStopsKeepsInv ==
    ASSUME OperationInv, ClientStops
    PROVE  OperationInv'
<1>1. answers \in [Request -> SUBSET Answer]
  BY DEF OperationInv, DaemonTypeOK
<1>2. /\ UNCHANGED <<task, operations, executed>>
      /\ responses' = [c \in Connection |-> << >>]
      /\ answers' = [r \in Request |-> IF \E i \in DOMAIN pending : pending[i] = r
                                       THEN {"client_stopped"} ELSE answers[r]]
  BY DEF ClientStops
<1>3. {"client_stopped"} \in SUBSET Answer /\ "client_stopped" \notin Outcome
  BY OutcomeAssumption DEF Answer, Error
<1>4. /\ responses' \in [Connection -> Seq([request : Request, answer : Answer])]
      /\ answers' \in [Request -> SUBSET Answer]
  BY <1>1, <1>2, <1>3
<1>5. \A q \in Request, v \in Outcome :
         Given(q, v, answers', responses') => Given(q, v, answers, responses)
  BY <1>2, <1>3 DEF Given
<1> QED
  BY <1>2, <1>4, <1>5, QuietStep

\* Connecting, a daemon task that ends with its connection: nothing is given.
LEMMA SilentKeepsInv ==
    ASSUME OperationInv, UNCHANGED <<task, operations, executed, answers, responses>>
    PROVE  OperationInv'
<1>1. /\ answers \in [Request -> SUBSET Answer]
      /\ responses \in [Connection -> Seq([request : Request, answer : Answer])]
  BY DEF OperationInv, DaemonTypeOK
<1> QED
  BY <1>1, QuietStep

\* An answer that is an error, or the outcome the store holds.
LEMMA AnswerKeepsInv ==
    ASSUME OperationInv, NEW c \in Connection, NEW r \in Request, NEW a \in Answer,
           UNCHANGED <<task, operations, executed, answers>>,
           Respond(c, r, a),
           a \in Outcome => \A o \in OperationOf[r] : Stored(r, o, a, operations, executed)
    PROVE  OperationInv'
<1>1. /\ answers \in [Request -> SUBSET Answer]
      /\ responses \in [Connection -> Seq([request : Request, answer : Answer])]
  BY DEF OperationInv, DaemonTypeOK
<1>2. /\ responses' \in [Connection -> Seq([request : Request, answer : Answer])]
      /\ \A q \in Request, v \in Outcome :
            Given(q, v, answers, responses')
               => Given(q, v, answers, responses) \/ (q = r /\ v = a)
  BY <1>1, RespondAdds
<1>3. \A q \in Request, o \in Operation, v \in Outcome :
         o \in OperationOf[q] /\ Given(q, v, answers', responses')
            => Given(q, v, answers, responses) \/ Stored(q, o, v, operations, executed)
  BY <1>2
<1> QED
  BY <1>1, <1>2, <1>3, QuietStep

\* A repeated request is given an error or what the store holds of it.
LEMMA RepeatKeepsInv ==
    ASSUME OperationInv, NEW c \in Connection, NEW r \in Request, NEW o \in OperationOf[r],
           Repeat(c, r, o)
    PROVE  OperationInv'
<1> DEFINE row == operations[o]
           a == ClaimAnswer(row, r)
<1>1. /\ o \in Operation
      /\ row \in [status : {"absent", "pending", "completed", "indeterminate"},
                  payload : SUBSET {PayloadOf[q] : q \in Request},
                  outcome : SUBSET Outcome]
  BY RequestAssumption DEF OperationInv, DaemonTypeOK
<1>2. UNCHANGED <<task, operations, executed, answers>> /\ Respond(c, r, a) /\ row # NoRow
  BY DEF Repeat, clientVars
<1>3. row.status # "absent"
  BY <1>1, <1>2 DEF OperationInv, Rows
<1>4. \/ a \in Error
      \/ /\ row.status = "completed" /\ PayloadOf[r] \in row.payload
         /\ a = TheElement(row.outcome)
  BY <1>1, <1>3 DEF ClaimAnswer, Error
<1>5. CASE a \in Error
  <2>1. a \in Answer /\ a \notin Outcome
    BY <1>5, OutcomeAssumption DEF Answer
  <2> HIDE DEF a
  <2> QED
    BY <1>2, <2>1, AnswerKeepsInv
<1>6. CASE /\ row.status = "completed" /\ PayloadOf[r] \in row.payload
           /\ a = TheElement(row.outcome)
  <2>1. PICK v \in Outcome : row.outcome = {v} /\ executed[o] = <<v>>
    BY <1>1, <1>6 DEF OperationInv, Rows
  <2>2. a = v
    BY <1>6, <2>1 DEF TheElement
  <2>3. row.payload = {PayloadOf[r]}
    BY <1>1, <1>3, <1>6 DEF OperationInv, Rows
  <2>4. Stored(r, o, v, operations, executed)
    BY <1>1, <1>6, <2>1, <2>3 DEF Stored
  <2>5. \A p \in OperationOf[r] : p = o
    BY RequestAssumption
  <2>6. v \in Answer
    BY DEF Answer
  <2> HIDE DEF a
  <2> QED
    BY <1>2, <2>2, <2>4, <2>5, <2>6, AnswerKeepsInv
<1> QED
  BY <1>4, <1>5, <1>6

\* A store that fails to claim executes nothing and gives an error.
LEMMA ClaimFailsKeepsInv ==
    ASSUME OperationInv, NEW c \in Connection, NEW r \in Request, ClaimFails(c, r)
    PROVE  OperationInv'
<1>1. /\ UNCHANGED <<task, operations, executed, answers>>
      /\ Respond(c, r, "operation_conflict")
  BY DEF ClaimFails, clientVars
<1>2. "operation_conflict" \in Answer \ Outcome
  BY OutcomeAssumption DEF Answer, Error
<1> QED
  BY <1>1, <1>2, AnswerKeepsInv

\* A request the device may not make is given an error.
LEMMA RefuseKeepsInv ==
    ASSUME OperationInv, NEW c \in Connection, NEW r \in Request, Refuse(c, r)
    PROVE  OperationInv'
<1>1. /\ UNCHANGED <<task, operations, executed, answers>>
      /\ Respond(c, r, "permission_denied")
  BY DEF Refuse, clientVars
<1>2. "permission_denied" \in Answer \ Outcome
  BY OutcomeAssumption DEF Answer, Error
<1> QED
  BY <1>1, <1>2, AnswerKeepsInv

---------------------------------------------------------------------------
\* Steps of a daemon task.

\* A task that turns to something with no operation, or to nothing.
LEMMA TaskStep ==
    ASSUME OperationInv, NEW c \in Connection, NEW t,
           t \in [at : {"idle", "execute", "complete"}, request : SUBSET Request,
                  outcome : SUBSET Outcome],
           t.at = "idle" => t.request = {}, t.at # "complete",
           \A q \in Request, o \in Operation : ~Works(t, q, o),
           task' = [task EXCEPT ![c] = t],
           UNCHANGED <<operations, executed, answers>>,
           responses' \in [Connection -> Seq([request : Request, answer : Answer])],
           \A q \in Request, o \in Operation, v \in Outcome :
               o \in OperationOf[q] /\ Given(q, v, answers, responses')
                   => Given(q, v, answers, responses)
    PROVE  OperationInv'
<1>1. DaemonTypeOK'
  BY DEF OperationInv, DaemonTypeOK
<1>2. task \in [Connection -> [at : {"idle", "execute", "complete"}, request : SUBSET Request,
                               outcome : SUBSET Outcome]]
  BY DEF OperationInv, DaemonTypeOK
<1>3. \A d \in Connection : task'[d] = IF d = c THEN t ELSE task[d]
  BY <1>2
<1>4. \A d \in Connection, q \in Request, o \in Operation :
         Works(task'[d], q, o) => d # c /\ task'[d] = task[d] /\ Works(task[d], q, o)
  BY <1>3
<1>5. Claimed
  BY DEF OperationInv
<1>6. Claimed'
  <2> SUFFICES ASSUME NEW d \in Connection, NEW q \in Request, NEW o \in Operation,
                      Works(task'[d], q, o)
               PROVE  /\ operations[o].status = "pending"
                      /\ operations[o].payload = {PayloadOf[q]}
                      /\ \A e \in Connection, p \in Request :
                            Works(task'[e], p, o) => e = d /\ p = q
                      /\ task'[d].at = "execute" => executed[o] = << >>
                      /\ task'[d].at = "complete" =>
                            \E v \in Outcome : task'[d].outcome = {v} /\ executed[o] = <<v>>
    BY DEF Claimed, Works
  <2>1. task'[d] = task[d] /\ Works(task[d], q, o)
    BY <1>4
  <2>2. \A e \in Connection, p \in Request : Works(task'[e], p, o) => Works(task[e], p, o)
    BY <1>4
  <2> QED
    BY <1>5, <2>1, <2>2 DEF Claimed
<1>7. TaskShape'
  BY <1>3 DEF OperationInv, TaskShape
<1>8. Rows' /\ AtMostOnce'
  BY DEF OperationInv, Rows, AtMostOnce, NoRow
<1>9. DurableOutcome'
  <2>1. DurableOutcome
    BY DEF OperationInv
  <2> QED
    BY <2>1, DurableOutcomeIs, DurableOutcomeNextIs
<1> QED
  BY <1>1, <1>6, <1>7, <1>8, <1>9 DEF OperationInv

\* A read-only request has no operation.
LEMMA AcceptReadOnlyKeepsInv ==
    ASSUME OperationInv, NEW c \in Connection, NEW r \in Request, AcceptReadOnly(c, r)
    PROVE  OperationInv'
<1> DEFINE t == Executing(r)
<1>1. /\ t \in [at : {"idle", "execute", "complete"}, request : SUBSET Request,
                outcome : SUBSET Outcome]
      /\ t.at = "execute" /\ t.request = {r}
  BY DEF Executing
<1>2. \A q \in Request, o \in Operation : ~Works(t, q, o)
  BY <1>1 DEF Works, AcceptReadOnly
<1>3. /\ task' = [task EXCEPT ![c] = t]
      /\ UNCHANGED <<operations, executed, answers, responses>>
  BY DEF AcceptReadOnly, clientVars
<1>4. responses \in [Connection -> Seq([request : Request, answer : Answer])]
  BY DEF OperationInv, DaemonTypeOK
<1> HIDE DEF t
<1> QED
  BY <1>1, <1>2, <1>3, <1>4, TaskStep

\* The idle task is one of the tasks TaskStep is about.
LEMMA IdleTask ==
    /\ Idle \in [at : {"idle", "execute", "complete"}, request : SUBSET Request,
                 outcome : SUBSET Outcome]
    /\ Idle.at = "idle" /\ Idle.request = {}
    /\ \A q \in Request, o \in Operation : ~Works(Idle, q, o)
  BY DEF Idle, Works

\* The outcome of a read-only request is promised nothing.
LEMMA FinishKeepsInv ==
    ASSUME OperationInv, NEW c \in Connection, NEW r \in Request, Finish(c, r)
    PROVE  OperationInv'
<1> DEFINE a == TheElement(task[c].outcome)
<1>1. /\ task' = [task EXCEPT ![c] = Idle] /\ OperationOf[r] = {}
      /\ UNCHANGED <<operations, executed, answers>>
      /\ Respond(c, r, a)
  BY DEF Finish, clientVars
<1>2. responses \in [Connection -> Seq([request : Request, answer : Answer])]
  BY DEF OperationInv, DaemonTypeOK
<1>3. a \in Answer
  <2>1. PICK v \in Outcome : task[c].outcome = {v}
    BY DEF OperationInv, TaskShape, Finish
  <2> QED
    BY <2>1 DEF TheElement, Answer
<1> HIDE DEF a
<1>4. /\ responses' \in [Connection -> Seq([request : Request, answer : Answer])]
      /\ \A q \in Request, v \in Outcome :
            Given(q, v, answers, responses')
               => Given(q, v, answers, responses) \/ (q = r /\ v = a)
  BY <1>1, <1>2, <1>3, RespondAdds
<1>5. \A q \in Request, o \in Operation, v \in Outcome :
         o \in OperationOf[q] /\ Given(q, v, answers, responses')
            => Given(q, v, answers, responses)
  BY <1>1, <1>4
<1> QED
  BY <1>1, <1>4, <1>5, IdleTask, TaskStep

\* An outcome that was not persisted is not given to the caller.
LEMMA CompleteFailsKeepsInv ==
    ASSUME OperationInv, NEW c \in Connection, NEW r \in Request, CompleteFails(c, r)
    PROVE  OperationInv'
<1>1. /\ task' = [task EXCEPT ![c] = Idle]
      /\ UNCHANGED <<operations, executed, answers>>
      /\ Respond(c, r, "operation_outcome_not_persisted")
  BY DEF CompleteFails, clientVars
<1>2. responses \in [Connection -> Seq([request : Request, answer : Answer])]
  BY DEF OperationInv, DaemonTypeOK
<1>3. "operation_outcome_not_persisted" \in Answer \ Outcome
  BY OutcomeAssumption DEF Answer, Error
<1>4. /\ responses' \in [Connection -> Seq([request : Request, answer : Answer])]
      /\ \A q \in Request, v \in Outcome :
            Given(q, v, answers, responses')
               => \/ Given(q, v, answers, responses)
                  \/ q = r /\ v = "operation_outcome_not_persisted"
  BY <1>1, <1>2, <1>3, RespondAdds
<1>5. \A q \in Request, o \in Operation, v \in Outcome :
         o \in OperationOf[q] /\ Given(q, v, answers, responses')
            => Given(q, v, answers, responses)
  BY <1>3, <1>4
<1> QED
  BY <1>1, <1>4, <1>5, IdleTask, TaskStep

\* claim_operation inserted the row: no other task works on the operation, and
\* it has never been executed.
LEMMA ClaimKeepsInv ==
    ASSUME OperationInv, NEW c \in Connection, NEW r \in Request, NEW o \in OperationOf[r],
           Claim(c, r, o)
    PROVE  OperationInv'
<1> DEFINE t == Executing(r)
           row == [status |-> "pending", payload |-> {PayloadOf[r]}, outcome |-> {}]
           T == [at : {"idle", "execute", "complete"}, request : SUBSET Request,
                 outcome : SUBSET Outcome]
           P == [status : {"absent", "pending", "completed", "indeterminate"},
                 payload : SUBSET {PayloadOf[q] : q \in Request},
                 outcome : SUBSET Outcome]
<1>1. o \in Operation /\ \A p \in OperationOf[r] : p = o
  BY RequestAssumption
<1>2. /\ task \in [Connection -> T] /\ operations \in [Operation -> P]
      /\ executed \in [Operation -> Seq(Outcome)]
      /\ responses \in [Connection -> Seq([request : Request, answer : Answer])]
      /\ answers \in [Request -> SUBSET Answer]
  BY DEF OperationInv, DaemonTypeOK
<1>3. /\ task' = [task EXCEPT ![c] = t] /\ operations' = [operations EXCEPT ![o] = row]
      /\ UNCHANGED <<executed, answers, responses>>
      /\ operations[o] = NoRow
  BY DEF Claim, clientVars
<1>4. t \in T /\ t.at = "execute" /\ t.request = {r}
  BY DEF Executing
<1>5. row \in P /\ row.status = "pending" /\ row.payload = {PayloadOf[r]}
  OBVIOUS
<1>6. operations[o].status = "absent" /\ executed[o] = << >>
  BY <1>1, <1>3 DEF NoRow, OperationInv, Rows
<1> HIDE DEF t, row
<1>7. /\ \A d \in Connection : task'[d] = IF d = c THEN t ELSE task[d]
      /\ \A p \in Operation : operations'[p] = IF p = o THEN row ELSE operations[p]
  BY <1>2, <1>3
<1>8. DaemonTypeOK'
  <2>1. task' \in [Connection -> T] /\ operations' \in [Operation -> P]
    BY <1>2, <1>3, <1>4, <1>5
  <2> QED
    BY <1>2, <1>3, <2>1 DEF DaemonTypeOK
<1> HIDE DEF T, P
<1>9. \A q \in Request, p \in Operation : Works(t, q, p) => q = r /\ p = o
  BY <1>1, <1>4 DEF Works
<1>10. Claimed
  BY DEF OperationInv
<1>11. \A d \in Connection, q \in Request : ~Works(task[d], q, o)
  BY <1>1, <1>6, <1>10 DEF Claimed
<1>12. Claimed'
  <2> SUFFICES ASSUME NEW d \in Connection, NEW q \in Request, NEW p \in Operation,
                      Works(task'[d], q, p)
               PROVE  /\ operations'[p].status = "pending"
                      /\ operations'[p].payload = {PayloadOf[q]}
                      /\ \A e \in Connection, s \in Request :
                            Works(task'[e], s, p) => e = d /\ s = q
                      /\ task'[d].at = "execute" => executed[p] = << >>
                      /\ task'[d].at = "complete" =>
                            \E v \in Outcome : task'[d].outcome = {v} /\ executed[p] = <<v>>
    BY <1>3 DEF Claimed, Works
  <2>1. CASE d = c
    <3>1. q = r /\ p = o /\ task'[d] = t /\ operations'[p] = row
      BY <1>7, <1>9, <2>1
    <3>2. \A e \in Connection, s \in Request : Works(task'[e], s, p) => e = d /\ s = q
      BY <1>7, <1>9, <1>11, <2>1, <3>1
    <3> QED
      BY <1>4, <1>5, <1>6, <3>1, <3>2
  <2>2. CASE d # c
    <3>1. task'[d] = task[d] /\ Works(task[d], q, p) /\ p # o /\ operations'[p] = operations[p]
      BY <1>7, <1>11, <2>2
    <3>2. \A e \in Connection, s \in Request : Works(task'[e], s, p) => Works(task[e], s, p)
      BY <1>7, <1>9, <3>1
    <3> QED
      BY <1>10, <3>1, <3>2 DEF Claimed
  <2> QED
    BY <2>1, <2>2
<1>13. TaskShape'
  BY <1>4, <1>7 DEF OperationInv, TaskShape
<1>14. Rows'
  <2>1. Rows
    BY DEF OperationInv
  <2> SUFFICES ASSUME NEW p \in Operation
               PROVE  /\ operations'[p].status = "absent" =>
                            operations'[p] = NoRow /\ executed[p] = << >>
                      /\ \A q \in Request : PayloadOf[q] \in operations'[p].payload
                                            => operations'[p].payload = {PayloadOf[q]}
                      /\ operations'[p].status = "completed" =>
                            \E v \in Outcome : operations'[p].outcome = {v} /\ executed[p] = <<v>>
    BY <1>3 DEF Rows, NoRow
  <2>2. CASE p = o
    BY <1>5, <1>7, <2>2
  <2>3. CASE p # o
    BY <1>7, <2>1, <2>3 DEF Rows
  <2> QED
    BY <2>2, <2>3
<1>15. AtMostOnce'
  BY <1>3 DEF OperationInv, AtMostOnce
<1>16. DurableOutcome'
  <2>1. \A q \in Request, p \in Operation, v \in Outcome :
           Stored(q, p, v, operations, executed) => Stored(q, p, v, operations', executed')
    <3>1. \A q \in Request, v \in Outcome : ~Stored(q, o, v, operations, executed)
      BY <1>6 DEF Stored
    <3> QED
      BY <1>3, <1>7, <3>1 DEF Stored
  <2>2. DurableOutcome
    BY DEF OperationInv
  <2> QED
    BY <1>3, <2>1, <2>2, DurableOutcomeIs, DurableOutcomeNextIs
<1> QED
  BY <1>8, <1>12, <1>13, <1>14, <1>15, <1>16 DEF OperationInv

\* DaemonController::execute: the claim says that it is the first execution.
LEMMA ExecuteKeepsInv ==
    ASSUME OperationInv, NEW c \in Connection, Execute(c)
    PROVE  OperationInv'
<1> DEFINE T == [at : {"idle", "execute", "complete"}, request : SUBSET Request,
                 outcome : SUBSET Outcome]
<1>1. /\ task \in [Connection -> T]
      /\ executed \in [Operation -> Seq(Outcome)]
      /\ responses \in [Connection -> Seq([request : Request, answer : Answer])]
      /\ answers \in [Request -> SUBSET Answer]
  BY DEF OperationInv, DaemonTypeOK
<1>2. PICK v \in Outcome :
         /\ task' = [task EXCEPT ![c].at = "complete", ![c].outcome = {v}]
         /\ executed' = [o \in Operation |->
                            IF \E r \in task[c].request : o \in OperationOf[r]
                            THEN Append(executed[o], v) ELSE executed[o]]
  BY DEF Execute
<1>3. task[c].at = "execute" /\ UNCHANGED <<operations, answers, responses>>
  BY DEF Execute, clientVars
<1>4. /\ task'[c] \in T /\ task'[c].at = "complete" /\ task'[c].outcome = {v}
      /\ task'[c].request = task[c].request
      /\ \A d \in Connection : d # c => task'[d] = task[d]
      /\ task' \in [Connection -> T]
  BY <1>1, <1>2
<1>5. Claimed
  BY DEF OperationInv
<1>6. \A d \in Connection, q \in Request, p \in Operation :
         Works(task'[d], q, p) <=> Works(task[d], q, p)
  BY <1>4 DEF Works
<1>7. ASSUME NEW p \in Operation, NEW q \in Request, Works(task[c], q, p)
      PROVE  executed[p] = << >> /\ executed'[p] = <<v>>
  <2>1. executed[p] = << >>
    BY <1>3, <1>5, <1>7 DEF Claimed
  <2>2. executed'[p] = Append(executed[p], v)
    BY <1>2, <1>7 DEF Works
  <2> QED
    BY <2>1, <2>2
<1>8. ASSUME NEW p \in Operation, \A q \in Request : ~Works(task[c], q, p)
      PROVE  executed'[p] = executed[p]
  <2>1. task[c].request \subseteq Request
    BY <1>1
  <2> QED
    BY <1>2, <1>8, <2>1 DEF Works
<1>9. DaemonTypeOK'
  <2>1. <<v>> \in Seq(Outcome)
    OBVIOUS
  <2>2. ASSUME NEW p \in Operation PROVE executed'[p] \in Seq(Outcome)
    <3>1. CASE \E q \in Request : Works(task[c], q, p)
      <4>1. executed'[p] = <<v>>
        BY <1>7, <3>1
      <4> QED
        BY <2>1, <4>1
    <3>2. CASE \A q \in Request : ~Works(task[c], q, p)
      <4>1. executed'[p] = executed[p]
        BY <1>8, <3>2
      <4> QED
        BY <1>1, <4>1
    <3> QED
      BY <3>1, <3>2
  <2>3. executed' \in [Operation -> Seq(Outcome)]
    BY <1>2, <2>2
  <2> QED
    BY <1>1, <1>3, <1>4, <2>3 DEF OperationInv, DaemonTypeOK
<1> HIDE DEF T
<1>10. Claimed'
  <2> SUFFICES ASSUME NEW d \in Connection, NEW q \in Request, NEW p \in Operation,
                      Works(task'[d], q, p)
               PROVE  /\ operations[p].status = "pending"
                      /\ operations[p].payload = {PayloadOf[q]}
                      /\ \A e \in Connection, s \in Request :
                            Works(task'[e], s, p) => e = d /\ s = q
                      /\ task'[d].at = "execute" => executed'[p] = << >>
                      /\ task'[d].at = "complete" =>
                            \E w \in Outcome : task'[d].outcome = {w} /\ executed'[p] = <<w>>
    BY <1>3 DEF Claimed, Works
  <2>1. Works(task[d], q, p)
    BY <1>6
  <2>2. \A e \in Connection, s \in Request : Works(task'[e], s, p) => Works(task[e], s, p)
    BY <1>6
  <2>3. CASE d = c
    <3>1. executed'[p] = <<v>>
      BY <1>7, <2>1, <2>3
    <3> QED
      BY <1>4, <1>5, <2>1, <2>2, <2>3, <3>1 DEF Claimed
  <2>4. CASE d # c
    <3>1. executed'[p] = executed[p]
      BY <1>5, <1>8, <2>1, <2>4 DEF Claimed
    <3> QED
      BY <1>4, <1>5, <2>1, <2>2, <2>4, <3>1 DEF Claimed
  <2> QED
    BY <2>3, <2>4
<1>11. TaskShape'
  BY <1>4 DEF OperationInv, TaskShape
<1>12. \A p \in Operation : operations[p].status # "pending" => executed'[p] = executed[p]
  BY <1>5, <1>8 DEF Claimed
<1>13. Rows'
  BY <1>3, <1>12 DEF OperationInv, Rows, NoRow
<1>14. AtMostOnce'
  <2> SUFFICES ASSUME NEW p \in Operation
               PROVE  Len(executed'[p]) <= 1
    BY DEF AtMostOnce
  <2>1. CASE \E q \in Request : Works(task[c], q, p)
    <3>1. executed'[p] = <<v>>
      BY <1>7, <2>1
    <3> QED
      BY <3>1
  <2>2. CASE \A q \in Request : ~Works(task[c], q, p)
    BY <1>8, <2>2 DEF OperationInv, AtMostOnce
  <2> QED
    BY <2>1, <2>2
<1>15. DurableOutcome'
  <2>1. \A q \in Request, p \in Operation, w \in Outcome :
           Stored(q, p, w, operations, executed) => Stored(q, p, w, operations', executed')
    BY <1>3, <1>12 DEF Stored
  <2>2. DurableOutcome
    BY DEF OperationInv
  <2> QED
    BY <1>3, <2>1, <2>2, DurableOutcomeIs, DurableOutcomeNextIs
<1> QED
  BY <1>9, <1>10, <1>11, <1>13, <1>14, <1>15 DEF OperationInv

\* complete_operation stores the outcome before the caller is given it.
LEMMA CompleteKeepsInv ==
    ASSUME OperationInv, NEW c \in Connection, NEW r \in Request, NEW o \in OperationOf[r],
           Complete(c, r, o)
    PROVE  OperationInv'
<1> DEFINE T == [at : {"idle", "execute", "complete"}, request : SUBSET Request,
                 outcome : SUBSET Outcome]
           P == [status : {"absent", "pending", "completed", "indeterminate"},
                 payload : SUBSET {PayloadOf[q] : q \in Request},
                 outcome : SUBSET Outcome]
           a == TheElement(task[c].outcome)
<1>1. o \in Operation /\ \A p \in OperationOf[r] : p = o
  BY RequestAssumption
<1>2. /\ task \in [Connection -> T] /\ operations \in [Operation -> P]
      /\ executed \in [Operation -> Seq(Outcome)]
      /\ responses \in [Connection -> Seq([request : Request, answer : Answer])]
      /\ answers \in [Request -> SUBSET Answer]
  BY DEF OperationInv, DaemonTypeOK
<1>3. /\ task' = [task EXCEPT ![c] = Idle]
      /\ operations' = [operations EXCEPT ![o] = [status |-> "completed",
                            payload |-> operations[o].payload, outcome |-> task[c].outcome]]
      /\ UNCHANGED <<executed, answers>>
      /\ Respond(c, r, a)
      /\ task[c].at = "complete" /\ Works(task[c], r, o)
  BY DEF Complete, clientVars, Works
<1>4. Claimed
  BY DEF OperationInv
<1>5. PICK v \in Outcome : task[c].outcome = {v} /\ executed[o] = <<v>>
  BY <1>1, <1>3, <1>4 DEF Claimed
<1>6. a = v /\ v \in Answer
  BY <1>5 DEF TheElement, Answer
<1>7. operations[o].payload = {PayloadOf[r]}
  BY <1>1, <1>3, <1>4 DEF Claimed
<1>8. /\ operations' \in [Operation -> P]
      /\ operations'[o] = [status |-> "completed", payload |-> {PayloadOf[r]}, outcome |-> {v}]
      /\ \A p \in Operation : p # o => operations'[p] = operations[p]
  <2>1. operations[o] \in P /\ {v} \in SUBSET Outcome
    BY <1>1, <1>2
  <2>2. operations' = [operations EXCEPT ![o] = [status |-> "completed",
                          payload |-> {PayloadOf[r]}, outcome |-> {v}]]
    BY <1>3, <1>5, <1>7
  <2>3. {PayloadOf[r]} \in SUBSET {PayloadOf[q] : q \in Request}
    OBVIOUS
  <2>4. [status |-> "completed", payload |-> {PayloadOf[r]}, outcome |-> {v}] \in P
    BY <2>1, <2>3
  <2> QED
    BY <1>1, <1>2, <2>2, <2>4
<1> HIDE DEF a
<1>9. /\ responses' \in [Connection -> Seq([request : Request, answer : Answer])]
      /\ \A q \in Request, w \in Outcome :
            Given(q, w, answers, responses')
               => Given(q, w, answers, responses) \/ (q = r /\ w = v)
  BY <1>2, <1>3, <1>6, RespondAdds
<1>10. DaemonTypeOK'
  <2>1. task' \in [Connection -> T]
    BY <1>2, <1>3, IdleTask
  <2> QED
    BY <1>2, <1>3, <1>8, <1>9, <2>1 DEF DaemonTypeOK
<1>11. \A d \in Connection : task'[d] = IF d = c THEN Idle ELSE task[d]
  BY <1>2, <1>3
<1> HIDE DEF T, P
<1>12. \A d \in Connection, q \in Request, p \in Operation :
          Works(task'[d], q, p)
             => /\ task'[d] = task[d] /\ Works(task[d], q, p)
                /\ p # o /\ operations'[p] = operations[p]
  <2> SUFFICES ASSUME NEW d \in Connection, NEW q \in Request, NEW p \in Operation,
                      Works(task'[d], q, p)
               PROVE  /\ task'[d] = task[d] /\ Works(task[d], q, p)
                      /\ p # o /\ operations'[p] = operations[p]
    OBVIOUS
  <2>1. d # c /\ task'[d] = task[d] /\ Works(task[d], q, p)
    BY <1>11, IdleTask
  <2>2. p # o
    BY <1>1, <1>3, <1>4, <2>1 DEF Claimed
  <2> QED
    BY <1>8, <2>1, <2>2
<1>13. Claimed'
  <2> SUFFICES ASSUME NEW d \in Connection, NEW q \in Request, NEW p \in Operation,
                      Works(task'[d], q, p)
               PROVE  /\ operations'[p].status = "pending"
                      /\ operations'[p].payload = {PayloadOf[q]}
                      /\ \A e \in Connection, s \in Request :
                            Works(task'[e], s, p) => e = d /\ s = q
                      /\ task'[d].at = "execute" => executed[p] = << >>
                      /\ task'[d].at = "complete" =>
                            \E w \in Outcome : task'[d].outcome = {w} /\ executed[p] = <<w>>
    <3>1. executed' = executed
      BY <1>3
    <3> QED
      BY <3>1 DEF Claimed, Works
  <2>1. task'[d] = task[d] /\ Works(task[d], q, p) /\ operations'[p] = operations[p]
    BY <1>12
  <2>2. \A e \in Connection, s \in Request : Works(task'[e], s, p) => Works(task[e], s, p)
    BY <1>12
  <2> QED
    BY <1>4, <2>1, <2>2 DEF Claimed
<1>14. TaskShape'
  BY <1>11, IdleTask DEF OperationInv, TaskShape
<1>15. Rows'
  <2>1. Rows
    BY DEF OperationInv
  <2> SUFFICES ASSUME NEW p \in Operation
               PROVE  /\ operations'[p].status = "absent" =>
                            operations'[p] = NoRow /\ executed[p] = << >>
                      /\ \A q \in Request : PayloadOf[q] \in operations'[p].payload
                                            => operations'[p].payload = {PayloadOf[q]}
                      /\ operations'[p].status = "completed" =>
                            \E w \in Outcome : operations'[p].outcome = {w} /\ executed[p] = <<w>>
    BY <1>3 DEF Rows, NoRow
  <2>2. CASE p = o
    BY <1>5, <1>8, <2>2
  <2>3. CASE p # o
    BY <1>8, <2>1, <2>3 DEF Rows
  <2> QED
    BY <2>2, <2>3
<1>16. AtMostOnce'
  BY <1>3 DEF OperationInv, AtMostOnce
<1>17. DurableOutcome'
  <2>1. \A q \in Request, p \in Operation, w \in Outcome :
           Stored(q, p, w, operations, executed) => Stored(q, p, w, operations', executed')
    <3>1. operations[o].status = "pending"
      BY DEF Complete
    <3>2. \A q \in Request, w \in Outcome : ~Stored(q, o, w, operations, executed)
      BY <3>1 DEF Stored
    <3> QED
      BY <1>3, <1>8, <3>2 DEF Stored
  <2>2. Stored(r, o, v, operations', executed')
    BY <1>3, <1>5, <1>8 DEF Stored
  <2>3. DurableOutcome
    BY DEF OperationInv
  <2>4. \A q \in Request, p \in Operation, w \in Outcome :
           p \in OperationOf[q] /\ Given(q, w, answers, responses')
              => Stored(q, p, w, operations', executed')
    BY <1>1, <1>9, <2>1, <2>2, <2>3, DurableOutcomeIs
  <2> QED
    BY <1>3, <2>4, DurableOutcomeNextIs
<1> QED
  BY <1>10, <1>13, <1>14, <1>15, <1>16, <1>17 DEF OperationInv

---------------------------------------------------------------------------
\* recover_interrupted leaves finished rows alone and makes none claimable.
LEMMA CrashKeepsInv ==
    ASSUME OperationInv, Crash
    PROVE  OperationInv'
<1> DEFINE T == [at : {"idle", "execute", "complete"}, request : SUBSET Request,
                 outcome : SUBSET Outcome]
           P == [status : {"absent", "pending", "completed", "indeterminate"},
                 payload : SUBSET {PayloadOf[q] : q \in Request},
                 outcome : SUBSET Outcome]
<1>1. /\ operations \in [Operation -> P]
      /\ executed \in [Operation -> Seq(Outcome)]
      /\ answers \in [Request -> SUBSET Answer]
  BY DEF OperationInv, DaemonTypeOK
<1>2. /\ task' = [c \in Connection |-> Idle]
      /\ responses' = [c \in Connection |-> << >>]
      /\ operations' = [o \in Operation |-> Recovered(operations[o])]
      /\ UNCHANGED <<executed, answers>>
  BY DEF Crash
<1>3. ASSUME NEW row \in P
      PROVE  /\ Recovered(row) \in P
             /\ Recovered(row).payload = row.payload
             /\ row.status # "pending" => Recovered(row) = row
             /\ Recovered(row).status \in {"absent", "completed"} => Recovered(row) = row
  BY DEF Recovered
<1>4. DaemonTypeOK'
  <2>1. operations' \in [Operation -> P]
    BY <1>1, <1>2, <1>3
  <2>2. task' \in [Connection -> T]
    BY <1>2, IdleTask
  <2>3. responses' \in [Connection -> Seq([request : Request, answer : Answer])]
    BY <1>2
  <2> QED
    BY <1>1, <1>2, <2>1, <2>2, <2>3 DEF DaemonTypeOK
<1>5. ASSUME NEW p \in Operation
      PROVE  /\ operations'[p].payload = operations[p].payload
             /\ operations[p].status # "pending" => operations'[p] = operations[p]
             /\ operations'[p].status \in {"absent", "completed"} => operations'[p] = operations[p]
  <2>1. operations[p] \in P /\ operations'[p] = Recovered(operations[p])
    BY <1>1, <1>2
  <2> QED
    BY <1>3, <2>1
<1> HIDE DEF T, P
<1>6. Claimed' /\ TaskShape'
  BY <1>2, IdleTask DEF Claimed, TaskShape
<1>7. Rows'
  <2>1. Rows
    BY DEF OperationInv
  <2> SUFFICES ASSUME NEW p \in Operation
               PROVE  /\ operations'[p].status = "absent" =>
                            operations'[p] = NoRow /\ executed[p] = << >>
                      /\ \A q \in Request : PayloadOf[q] \in operations'[p].payload
                                            => operations'[p].payload = {PayloadOf[q]}
                      /\ operations'[p].status = "completed" =>
                            \E w \in Outcome : operations'[p].outcome = {w} /\ executed[p] = <<w>>
    BY <1>2 DEF Rows, NoRow
  <2> QED
    BY <1>5, <2>1 DEF Rows
<1>8. AtMostOnce'
  BY <1>2 DEF OperationInv, AtMostOnce
<1>9. DurableOutcome'
  <2>1. \A q \in Request, p \in Operation, w \in Outcome :
           Stored(q, p, w, operations, executed) => Stored(q, p, w, operations', executed')
    <3> SUFFICES ASSUME NEW q \in Request, NEW p \in Operation, NEW w \in Outcome,
                        Stored(q, p, w, operations, executed)
                 PROVE  Stored(q, p, w, operations', executed')
      OBVIOUS
    <3>1. operations[p].status = "completed"
      BY DEF Stored
    <3>2. operations'[p] = operations[p]
      BY <1>5, <3>1
    <3> QED
      BY <1>2, <3>2 DEF Stored
  <2>2. \A q \in Request, w \in Outcome :
           Given(q, w, answers', responses') => Given(q, w, answers, responses)
    BY <1>2 DEF Given
  <2>3. DurableOutcome
    BY DEF OperationInv
  <2> QED
    BY <2>1, <2>2, <2>3, DurableOutcomeIs, DurableOutcomeNextIs
<1> QED
  BY <1>4, <1>6, <1>7, <1>8, <1>9 DEF OperationInv

\* The empty table and the idle daemon.
LEMMA InitInv ==
    ASSUME Init
    PROVE  OperationInv
<1>1. DaemonTypeOK
  <2>1. << >> \in Seq(Outcome) /\ << >> \in Seq([request : Request, answer : Answer])
    OBVIOUS
  <2>2. NoRow \in [status : {"absent", "pending", "completed", "indeterminate"},
                   payload : SUBSET {PayloadOf[q] : q \in Request},
                   outcome : SUBSET Outcome]
    BY DEF NoRow
  <2> QED
    BY <2>1, <2>2, IdleTask DEF Init, DaemonTypeOK
<1>2. Claimed /\ TaskShape
  BY IdleTask DEF Init, Claimed, TaskShape
<1>3. Rows
  BY DEF Init, Rows, NoRow
<1>4. AtMostOnce
  BY DEF Init, AtMostOnce
<1>5. DurableOutcome
  BY DEF Init, DurableOutcome
<1> QED
  BY <1>1, <1>2, <1>3, <1>4, <1>5 DEF OperationInv

\* Every step keeps the invariant.
LEMMA NextInv ==
    ASSUME OperationInv, [Next]_vars
    PROVE  OperationInv'
<1>1. CASE UNCHANGED vars
  BY <1>1, SilentKeepsInv DEF vars, clientVars, daemonVars
<1>2. CASE \E r \in Request : MakeRequest(r)
  BY <1>2, MakeRequestKeepsInv
<1>3. CASE Connect
  BY <1>3, SilentKeepsInv DEF Connect
<1>4. CASE Disconnect
  BY <1>4, DisconnectKeepsInv
<1>5. CASE ClientStops
  BY <1>5, ClientStopsKeepsInv
<1>6. CASE Crash
  BY <1>6, CrashKeepsInv
<1>7. ASSUME NEW c \in Connection, ReceiveResponse(c) \/ ConnectionEnds(c)
      PROVE  OperationInv'
  <2>1. CASE ReceiveResponse(c)
    BY <2>1, ReceiveResponseKeepsInv
  <2>2. CASE ConnectionEnds(c)
    BY <2>2, SilentKeepsInv DEF ConnectionEnds, clientVars
  <2> QED
    BY <1>7, <2>1, <2>2
<1>8. ASSUME NEW c \in Connection, Handle(c)
      PROVE  OperationInv'
  <2>1. CASE Execute(c)
    BY <2>1, ExecuteKeepsInv
  <2>2. ASSUME NEW r \in Request,
               AcceptReadOnly(c, r) \/ ClaimFails(c, r) \/ Finish(c, r) \/ CompleteFails(c, r)
        PROVE  OperationInv'
    BY <2>2, AcceptReadOnlyKeepsInv, ClaimFailsKeepsInv, FinishKeepsInv, CompleteFailsKeepsInv
  <2>3. ASSUME NEW r \in Request, Refuse(c, r)
        PROVE  OperationInv'
    BY <2>3, RefuseKeepsInv
  <2>4. ASSUME NEW r \in Request, NEW o \in OperationOf[r],
               Claim(c, r, o) \/ Repeat(c, r, o) \/ Complete(c, r, o)
        PROVE  OperationInv'
    BY <2>4, ClaimKeepsInv, RepeatKeepsInv, CompleteKeepsInv
  <2> QED
    BY <1>8, <2>1, <2>2, <2>3, <2>4 DEF Handle
<1> QED
  BY <1>1, <1>2, <1>3, <1>4, <1>5, <1>6, <1>7, <1>8 DEF Next

\* The inductive invariant holds in every reachable state.
THEOREM OperationInvariant == Spec => []OperationInv
<1>1. Init => OperationInv
  BY InitInv
<1>2. OperationInv /\ [Next]_vars => OperationInv'
  BY NextInv
<1> QED
  BY <1>1, <1>2, PTL DEF Spec

\* The effect of an operation happens at most once: for any set of requests,
\* retries, lost connections and restarts of the daemon
\* (server.rs: execute_request; store.rs: claim_operation, recover_interrupted).
THEOREM AtMostOnceCorrect == Spec => []AtMostOnce
<1>1. OperationInv => AtMostOnce
  BY DEF OperationInv
<1> QED
  BY <1>1, OperationInvariant, PTL

\* An outcome a caller has, or that is on its way to it, is the one its
\* operation had and the one the store keeps for it
\* (server.rs: execute_request; store.rs: complete_operation).
THEOREM DurableOutcomeCorrect == Spec => []DurableOutcome
<1>1. OperationInv => DurableOutcome
  BY DEF OperationInv
<1> QED
  BY <1>1, OperationInvariant, PTL

---------------------------------------------------------------------------
\* The client's side, and the requests on their way.

\* A request is pending once, from when it is made to when it is answered, and
\* the response index holds pending requests only.
PendingInv ==
    /\ issued \subseteq Request
    /\ pending \in Seq(Request)
    /\ \A i \in DOMAIN pending : pending[i] \in issued
    /\ \A i, j \in DOMAIN pending : pending[i] = pending[j] => i = j
    /\ \A r \in sent : \E i \in DOMAIN pending : pending[i] = r

\* Every connection but the first was opened because one was lost.
ConnectionInv ==
    /\ connection \subseteq {opened}
    /\ stopped \in BOOLEAN
    /\ opened \in Nat
    /\ disconnects \in 0 .. MaxDisconnects
    /\ crashes \in 0 .. MaxCrashes
    /\ opened <= disconnects + crashes + 1
    /\ ~stopped /\ connection = {} => opened <= disconnects + crashes
    /\ connection # {} => opened # 0

ClientInv ==
    /\ PendingInv
    /\ ConnectionInv
    /\ inbox \in [Connection -> Seq(Request)]

LEMMA InitClientInv == Init => ClientInv
<1> SUFFICES ASSUME Init PROVE ClientInv
  OBVIOUS
<1>1. << >> \in Seq(Request)
  OBVIOUS
<1>2. 0 \in 0 .. MaxDisconnects /\ 0 \in 0 .. MaxCrashes
  BY RequestAssumption
<1>3. PendingInv
  BY <1>1 DEF Init, PendingInv
<1>4. ConnectionInv
  <2>1. /\ connection = {} /\ opened = 0 /\ stopped = FALSE
        /\ disconnects = 0 /\ crashes = 0
    BY DEF Init
  <2>2. /\ connection \subseteq {opened} /\ opened \in Nat /\ opened <= disconnects + crashes
        /\ opened <= disconnects + crashes + 1
    BY <2>1
  <2> QED
    BY <1>2, <2>1, <2>2 DEF ConnectionInv
<1> QED
  BY <1>1, <1>3, <1>4 DEF Init, ClientInv

\* self.pending.remove: the other requests stay, in their order.
LEMMA RemoveAtIs ==
    ASSUME NEW S, NEW q \in Seq(S), NEW k \in DOMAIN q
    PROVE  /\ RemoveAt(q, k) \in Seq(S)
           /\ DOMAIN RemoveAt(q, k) = 1 .. Len(q) - 1
           /\ \A i \in DOMAIN RemoveAt(q, k) :
                 RemoveAt(q, k)[i] = q[IF i < k THEN i ELSE i + 1]
<1>1. Len(q) \in Nat /\ k \in 1 .. Len(q) /\ DOMAIN q = 1 .. Len(q)
  OBVIOUS
<1> DEFINE a == SubSeq(q, 1, k - 1)
           b == SubSeq(q, k + 1, Len(q))
<1>2. a \in Seq(S) /\ Len(a) = k - 1 /\ \A i \in 1 .. k - 1 : a[i] = q[i]
  BY <1>1
<1>3. b \in Seq(S) /\ Len(b) = Len(q) - k /\ \A i \in 1 .. Len(q) - k : b[i] = q[k + i]
  BY <1>1
<1>4. RemoveAt(q, k) = a \o b
  BY DEF RemoveAt
<1> HIDE DEF a, b
<1>5. /\ a \o b \in Seq(S) /\ Len(a \o b) = Len(q) - 1
      /\ \A i \in 1 .. Len(q) - 1 : (a \o b)[i] = IF i <= k - 1 THEN a[i] ELSE b[i - (k - 1)]
  <2>1. a \o b \in Seq(S) /\ Len(a \o b) = Len(a) + Len(b)
    BY <1>2, <1>3, ConcatProperties
  <2>2. \A i \in 1 .. Len(a) + Len(b) :
           (a \o b)[i] = IF i <= Len(a) THEN a[i] ELSE b[i - Len(a)]
    BY <1>2, <1>3, ConcatProperties
  <2>3. Len(a) + Len(b) = Len(q) - 1
    BY <1>1, <1>2, <1>3
  <2> QED
    BY <1>2, <2>1, <2>2, <2>3
<1>6. ASSUME NEW i \in 1 .. Len(q) - 1
      PROVE  (a \o b)[i] = q[IF i < k THEN i ELSE i + 1]
  <2>1. CASE i < k
    BY <1>1, <1>2, <1>5, <2>1
  <2>2. CASE ~(i < k)
    <3>1. i - (k - 1) \in 1 .. Len(q) - k /\ k + (i - (k - 1)) = i + 1 /\ ~(i <= k - 1)
      BY <1>1, <2>2
    <3>2. b[i - (k - 1)] = q[i + 1]
      BY <1>3, <3>1
    <3> QED
      BY <1>5, <2>2, <3>1, <3>2
  <2> QED
    BY <2>1, <2>2
<1>7. DOMAIN (a \o b) = 1 .. Len(q) - 1
  BY <1>5
<1> QED
  BY <1>4, <1>5, <1>6, <1>7

\* complete_response takes a request out of the table and out of the index.
LEMMA AnsweredKeepsPending ==
    ASSUME PendingInv, NEW k \in DOMAIN pending, pending' = RemoveAt(pending, k),
           sent' = sent \ {pending[k]}, UNCHANGED issued
    PROVE  PendingInv'
<1> DEFINE At(i) == IF i < k THEN i ELSE i + 1
<1>1. /\ pending \in Seq(Request) /\ Len(pending) \in Nat
      /\ DOMAIN pending = 1 .. Len(pending) /\ k \in 1 .. Len(pending)
  BY DEF PendingInv
<1>2. /\ pending' \in Seq(Request) /\ DOMAIN pending' = 1 .. Len(pending) - 1
      /\ \A i \in DOMAIN pending' : pending'[i] = pending[At(i)]
  BY <1>1, RemoveAtIs
<1>3. \A i \in DOMAIN pending' : At(i) \in DOMAIN pending
  BY <1>1, <1>2
<1>4. \A i, j \in DOMAIN pending' : At(i) = At(j) => i = j
  BY <1>1, <1>2
<1>5. ASSUME NEW j \in DOMAIN pending, j # k PROVE \E i \in DOMAIN pending' : At(i) = j
  <2>1. CASE j < k
    <3>1. j \in DOMAIN pending' /\ At(j) = j
      BY <1>1, <1>2, <2>1
    <3> QED
      BY <3>1
  <2>2. CASE ~(j < k)
    <3>1. j - 1 \in DOMAIN pending' /\ At(j - 1) = j
      BY <1>1, <1>2, <1>5, <2>2
    <3> QED
      BY <3>1
  <2> QED
    BY <2>1, <2>2
<1> HIDE DEF At
<1>6. \A i, j \in DOMAIN pending' : pending'[i] = pending'[j] => i = j
  BY <1>2, <1>3, <1>4 DEF PendingInv
<1>7. ASSUME NEW r \in sent' PROVE \E i \in DOMAIN pending' : pending'[i] = r
  <2>1. PICK j \in DOMAIN pending : pending[j] = r
    BY <1>7 DEF PendingInv
  <2>2. PICK i \in DOMAIN pending' : At(i) = j
    BY <1>5, <1>7, <2>1
  <2> QED
    BY <1>2, <2>1, <2>2
<1>8. \A i \in DOMAIN pending' : pending'[i] \in issued'
  BY <1>2, <1>3 DEF PendingInv
<1> QED
  BY <1>2, <1>6, <1>7, <1>8 DEF PendingInv

\* insert_pending: a new key at the end.
LEMMA InsertKeepsPending ==
    ASSUME PendingInv, NEW r \in Request, r \notin issued, issued' = issued \cup {r},
           pending' = Append(pending, r), sent' \subseteq sent \cup {r}
    PROVE  PendingInv'
<1>1. /\ pending \in Seq(Request) /\ Len(pending) \in Nat /\ DOMAIN pending = 1 .. Len(pending)
      /\ pending' \in Seq(Request) /\ DOMAIN pending' = 1 .. Len(pending) + 1
      /\ \A i \in DOMAIN pending : i \in DOMAIN pending' /\ pending'[i] = pending[i]
      /\ Len(pending) + 1 \in DOMAIN pending' /\ pending'[Len(pending) + 1] = r
  BY DEF PendingInv
<1>2. \A i \in DOMAIN pending' : i \in DOMAIN pending \/ i = Len(pending) + 1
  BY <1>1
<1>3. \A i \in DOMAIN pending : pending[i] # r
  BY DEF PendingInv
<1>4. \A i, j \in DOMAIN pending' : pending'[i] = pending'[j] => i = j
  BY <1>1, <1>2, <1>3 DEF PendingInv
<1>5. \A i \in DOMAIN pending' : pending'[i] \in issued'
  BY <1>1, <1>2 DEF PendingInv
<1>6. \A q \in sent' : \E i \in DOMAIN pending' : pending'[i] = q
  BY <1>1 DEF PendingInv
<1> QED
  BY <1>1, <1>4, <1>5, <1>6 DEF PendingInv

LEMMA FewerSentKeepsPending ==
    ASSUME PendingInv, UNCHANGED <<issued, pending>>,
           \A r \in sent' : \E i \in DOMAIN pending : pending[i] = r
    PROVE  PendingInv'
  BY DEF PendingInv

LEMMA MakeRequestKeepsClient ==
    ASSUME ClientInv, NEW r \in Request, MakeRequest(r)
    PROVE  ClientInv'
<1>1. ConnectionInv'
  BY DEF MakeRequest, ClientInv, ConnectionInv, boundVars
<1>2. CASE stopped
  <2>1. PendingInv'
    BY <1>2 DEF MakeRequest, ClientInv, PendingInv
  <2> QED
    BY <1>1, <1>2, <2>1 DEF MakeRequest, ClientInv
<1>3. CASE ~stopped
  <2>1. PendingInv'
    <3>1. sent' \subseteq sent \cup {r}
      BY <1>3 DEF MakeRequest
    <3> QED
      BY <1>3, <3>1, InsertKeepsPending DEF MakeRequest, ClientInv
  <2>2. \A c \in Connection : Append(inbox[c], r) \in Seq(Request)
    BY DEF ClientInv
  <2>3. inbox' \in [Connection -> Seq(Request)]
    BY <1>3, <2>2 DEF MakeRequest, ClientInv
  <2> QED
    BY <1>1, <2>1, <2>3 DEF ClientInv
<1> QED
  BY <1>2, <1>3

LEMMA ConnectKeepsClient == ASSUME ClientInv, Connect PROVE ClientInv'
<1>1. /\ opened' = opened + 1 /\ connection' = {opened + 1} /\ connection = {}
      /\ ~stopped /\ UNCHANGED <<stopped, disconnects, crashes, issued, pending>>
      /\ inbox' = [inbox EXCEPT ![opened + 1] = pending]
      /\ sent' = {pending[i] : i \in DOMAIN pending}
  BY DEF Connect, Resent, boundVars
<1>2. ConnectionInv'
  <2>1. opened + 1 # 0 /\ opened + 1 \in Nat /\ opened + 1 <= disconnects + crashes + 1
    BY <1>1, RequestAssumption DEF ClientInv, ConnectionInv
  <2> QED
    BY <1>1, <2>1 DEF ClientInv, ConnectionInv
<1>3. PendingInv'
  BY <1>1, FewerSentKeepsPending DEF ClientInv
<1>4. inbox' \in [Connection -> Seq(Request)]
  BY <1>1 DEF ClientInv, PendingInv
<1> QED
  BY <1>2, <1>3, <1>4 DEF ClientInv

LEMMA ReceiveKeepsClient ==
    ASSUME ClientInv, NEW c \in Connection, ReceiveResponse(c)
    PROVE  ClientInv'
<1> DEFINE r == Head(responses[c]).request
<1>1. UNCHANGED <<issued, connection, opened, stopped, inbox, disconnects, crashes>>
  BY DEF ReceiveResponse, boundVars
<1>2. ConnectionInv'
  BY <1>1 DEF ClientInv, ConnectionInv
<1>3. PendingInv'
  <2>1. CASE r \in sent
    <3>1. PICK k \in DOMAIN pending : pending[k] = r /\ pending' = RemoveAt(pending, k)
      BY <2>1 DEF ReceiveResponse
    <3>2. sent' = sent \ {r}
      BY <2>1 DEF ReceiveResponse, Unindexed
    <3> QED
      BY <1>1, <3>1, <3>2, AnsweredKeepsPending DEF ClientInv
  <2>2. CASE r \notin sent
    <3>1. UNCHANGED <<sent, pending>>
      BY <2>2 DEF ReceiveResponse
    <3> QED
      BY <1>1, <3>1 DEF ClientInv, PendingInv
  <2> QED
    BY <2>1, <2>2
<1> QED
  BY <1>1, <1>2, <1>3 DEF ClientInv

LEMMA DisconnectKeepsClient == ASSUME ClientInv, Disconnect PROVE ClientInv'
<1>1. /\ connection # {} /\ connection' = {} /\ sent' = {}
      /\ disconnects < MaxDisconnects /\ disconnects' = disconnects + 1
      /\ UNCHANGED <<issued, pending, opened, stopped, crashes>>
  BY DEF Disconnect
<1>2. PICK c \in connection : \E n \in 0 .. Len(inbox[c]) :
         inbox' = [inbox EXCEPT ![c] = SubSeq(inbox[c], 1, n)]
  BY DEF Disconnect
<1>3. PICK n \in 0 .. Len(inbox[c]) : inbox' = [inbox EXCEPT ![c] = SubSeq(inbox[c], 1, n)]
  BY <1>2
<1>4. ConnectionInv'
  <2>1. disconnects' \in 0 .. MaxDisconnects /\ opened <= disconnects' + crashes
    BY <1>1, RequestAssumption DEF ClientInv, ConnectionInv
  <2>2. disconnects' \in Nat /\ crashes \in Nat /\ opened \in Nat
    BY <2>1 DEF ClientInv, ConnectionInv
  <2> QED
    BY <1>1, <2>1, <2>2 DEF ClientInv, ConnectionInv
<1>5. PendingInv'
  BY <1>1, FewerSentKeepsPending DEF ClientInv
<1>6. c \in Connection
  BY RequestAssumption DEF ClientInv, ConnectionInv, Connection
<1>7. SubSeq(inbox[c], 1, n) \in Seq(Request)
  BY <1>6 DEF ClientInv
<1>8. inbox' \in [Connection -> Seq(Request)]
  BY <1>3, <1>6, <1>7 DEF ClientInv
<1> QED
  BY <1>4, <1>5, <1>8 DEF ClientInv

LEMMA StopsKeepsClient == ASSUME ClientInv, ClientStops PROVE ClientInv'
<1>1. << >> \in Seq(Request)
  OBVIOUS
<1>2. PendingInv'
  BY <1>1 DEF ClientStops, ClientInv, PendingInv
<1>3. ConnectionInv'
  BY DEF ClientStops, ClientInv, ConnectionInv, boundVars
<1> QED
  BY <1>2, <1>3 DEF ClientStops, ClientInv

LEMMA CrashKeepsClient == ASSUME ClientInv, Crash PROVE ClientInv'
<1>1. /\ connection' = {} /\ sent' = {}
      /\ crashes < MaxCrashes /\ crashes' = crashes + 1
      /\ inbox' = [c \in Connection |-> << >>]
      /\ UNCHANGED <<issued, pending, opened, stopped, disconnects>>
  BY DEF Crash
<1>2. ConnectionInv'
  <2>1. crashes' \in 0 .. MaxCrashes /\ opened <= disconnects + crashes'
    BY <1>1, RequestAssumption DEF ClientInv, ConnectionInv
  <2>2. crashes' \in Nat /\ disconnects \in Nat /\ opened \in Nat
    BY <2>1 DEF ClientInv, ConnectionInv
  <2> QED
    BY <1>1, <2>1, <2>2 DEF ClientInv, ConnectionInv
<1>3. PendingInv'
  BY <1>1, FewerSentKeepsPending DEF ClientInv
<1>4. << >> \in Seq(Request)
  OBVIOUS
<1> QED
  BY <1>1, <1>2, <1>3, <1>4 DEF ClientInv

\* A step of the daemon leaves the client alone and reads requests at most.
LEMMA DaemonKeepsClient ==
    ASSUME ClientInv, UNCHANGED <<clientVars, boundVars>>,
           \/ UNCHANGED inbox
           \/ \E c \in Connection : \/ inbox' = [inbox EXCEPT ![c] = << >>]
                                    \/ inbox[c] # << >> /\ inbox' = [inbox EXCEPT ![c] = Tail(@)]
    PROVE  ClientInv'
<1>1. PendingInv'
  BY DEF ClientInv, PendingInv, clientVars
<1>2. ConnectionInv'
  BY DEF ClientInv, ConnectionInv, clientVars, boundVars
<1>3. << >> \in Seq(Request)
  OBVIOUS
<1>4. \A c \in Connection : inbox[c] # << >> => Tail(inbox[c]) \in Seq(Request)
  BY DEF ClientInv
<1>5. inbox' \in [Connection -> Seq(Request)]
  BY <1>3, <1>4 DEF ClientInv
<1> QED
  BY <1>1, <1>2, <1>5 DEF ClientInv

LEMMA NextClientInv == ClientInv /\ [Next]_vars => ClientInv'
<1> SUFFICES ASSUME ClientInv, [Next]_vars PROVE ClientInv'
  OBVIOUS
<1>1. CASE UNCHANGED vars
  BY <1>1, DaemonKeepsClient DEF vars, daemonVars
<1>2. CASE \E r \in Request : MakeRequest(r)
  BY <1>2, MakeRequestKeepsClient
<1>3. CASE Connect \/ Disconnect \/ ClientStops \/ Crash
  BY <1>3, ConnectKeepsClient, DisconnectKeepsClient, StopsKeepsClient, CrashKeepsClient
<1>4. ASSUME NEW c \in Connection, ReceiveResponse(c) PROVE ClientInv'
  BY <1>4, ReceiveKeepsClient
<1>5. ASSUME NEW c \in Connection, ConnectionEnds(c) PROVE ClientInv'
  BY <1>5, DaemonKeepsClient DEF ConnectionEnds
<1>6. ASSUME NEW c \in Connection, Handle(c) PROVE ClientInv'
  <2>1. CASE Execute(c)
    BY <2>1, DaemonKeepsClient DEF Execute
  <2>2. ASSUME NEW r \in Request, Finish(c, r) \/ CompleteFails(c, r) PROVE ClientInv'
    BY <2>2, DaemonKeepsClient DEF Finish, CompleteFails
  <2>3. ASSUME NEW r \in Request, Refuse(c, r) \/ AcceptReadOnly(c, r) \/ ClaimFails(c, r)
        PROVE  ClientInv'
    BY <2>3, DaemonKeepsClient DEF Refuse, AcceptReadOnly, ClaimFails, Reads
  <2>4. ASSUME NEW r \in Request, NEW o \in OperationOf[r], Claim(c, r, o) \/ Repeat(c, r, o)
        PROVE  ClientInv'
    BY <2>4, DaemonKeepsClient DEF Claim, Repeat, Reads
  <2>5. ASSUME NEW r \in Request, NEW o \in OperationOf[r], Complete(c, r, o) PROVE ClientInv'
    BY <2>5, DaemonKeepsClient DEF Complete
  <2> QED
    BY <1>6, <2>1, <2>2, <2>3, <2>4, <2>5 DEF Handle
<1> QED
  BY <1>1, <1>2, <1>3, <1>4, <1>5, <1>6 DEF Next

\* A request is pending once, the response index holds pending requests only,
\* and a connection is opened only to replace one that was lost
\* (client.rs: insert_pending, complete_response, mark_pending_disconnected).
THEOREM OperationsTypeCorrect == Spec => []TypeOK
<1>1. Spec => []ClientInv
  BY InitClientInv, NextClientInv, PTL DEF Spec
<1>2. OperationInv /\ ClientInv => TypeOK
  <2> SUFFICES ASSUME OperationInv, ClientInv PROVE TypeOK
    OBVIOUS
  <2>1. pending \in Seq(issued)
    <3>1. pending \in Seq(Request) /\ \A i \in DOMAIN pending : pending[i] \in issued
      BY DEF ClientInv, PendingInv
    <3>2. Len(pending) \in Nat /\ DOMAIN pending = 1 .. Len(pending)
          /\ pending = [i \in 1 .. Len(pending) |-> pending[i]]
      BY <3>1
    <3>3. pending \in [1 .. Len(pending) -> issued]
      BY <3>1, <3>2
    <3> QED
      BY <3>2, <3>3
  <2>2. sent \subseteq {pending[i] : i \in DOMAIN pending}
    BY DEF ClientInv, PendingInv
  <2>3. /\ opened \in 0 .. MaxDisconnects + MaxCrashes + 1
        /\ connection \subseteq Connection
    BY RequestAssumption DEF ClientInv, ConnectionInv, Connection
  <2> QED
    BY <2>1, <2>2, <2>3 DEF TypeOK, OperationInv, DaemonTypeOK, ClientInv, PendingInv,
                            ConnectionInv
<1> QED
  BY <1>1, <1>2, OperationInvariant, PTL
=============================================================================

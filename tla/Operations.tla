---------------------------- MODULE Operations ----------------------------
(***************************************************************************)
(* Requests of one device and their retries: the client's pending requests *)
(* (crates/omp-control-client/src/client.rs), the daemon's connections     *)
(* (crates/ompd/src/server.rs: run_connection, execute_request) and the    *)
(* idempotency table of the store (crates/ompd/src/persistence/store.rs).  *)
(*                                                                         *)
(* A mutating request carries an operation id, a read-only one does not.   *)
(* Several requests may carry the same id: the caller may choose it        *)
(* (request_with_operation_id).  The client sends every pending request    *)
(* again on each new connection.  A connection of the daemon is a task of  *)
(* its own: one that the client has given up may still be executing, and   *)
(* may still read what it had received.                                    *)
(*                                                                         *)
(* A request id is fresh on every send, and answers travel only on the     *)
(* connection of their request, so a request and its connection stand for  *)
(* its request id.  The response lane and the socket behind it are one     *)
(* queue.  `executed` is history: no action reads it.                      *)
(***************************************************************************)
EXTENDS Naturals, Sequences, FiniteSets, SequencesExt

CONSTANTS
    Request,        \* the requests the application makes
    Operation,      \* operation ids
    OperationOf,    \* the operation id of a request, an Option
    PayloadOf,      \* what a request asks for; the store keeps its hash
    Unauthorized,   \* the requests the device's scopes do not permit
    Outcome,        \* what executing a request can return
    MaxRequests,    \* bound: requests made
    MaxDisconnects, \* bound: connections the network loses
    MaxCrashes      \* bound: restarts of the daemon

ASSUME RequestAssumption ==
    /\ OperationOf \in [Request -> SUBSET Operation]
    /\ \A r \in Request : \A o, p \in OperationOf[r] : o = p
    /\ PayloadOf \in [Request -> {PayloadOf[r] : r \in Request}]
    /\ Unauthorized \subseteq Request
    /\ MaxRequests \in Nat
    /\ MaxDisconnects \in Nat
    /\ MaxCrashes \in Nat

\* What the daemon or the client runner answers when it has no outcome.
Error == {"operation_in_progress", "operation_indeterminate", "operation_conflict",
          "operation_outcome_not_persisted", "permission_denied", "client_stopped"}

ASSUME OutcomeAssumption == Outcome \cap Error = {}

Answer == Outcome \cup Error

\* One connection for the start and one after each loss.
Connection == 1 .. MaxDisconnects + MaxCrashes + 1

VARIABLES
    \* The client.
    issued,       \* requests made so far
    pending,      \* ClientRunner::pending, by key
    sent,         \* the requests in response_index
    answers,      \* what each caller has received, an Option
    connection,   \* the current connection, an Option
    opened,       \* how many connections have been opened
    stopped,      \* the runner has ended
    \* The daemon.
    inbox,        \* per connection, frames the daemon can still read
    task,         \* per connection, what execute_request is doing
    responses,    \* per connection, responses on their way
    \* The store.
    operations,   \* the table `operations`
    \* History and counters.
    executed,     \* the outcomes of the executions of each operation, in order
    disconnects, crashes

clientVars == <<issued, pending, sent, answers, connection, opened, stopped>>
daemonVars == <<inbox, task, responses>>
boundVars == <<disconnects, crashes>>
vars == <<clientVars, daemonVars, operations, executed, boundVars>>

TheElement(set) == CHOOSE x \in set : TRUE

\* A row of the table, or its absence.
NoRow == [status |-> "absent", payload |-> {}, outcome |-> {}]

\* execute_request: idle, executing a request, or holding its outcome.
Idle == [at |-> "idle", request |-> {}, outcome |-> {}]

Response(r, a) == [request |-> r, answer |-> a]

---------------------------------------------------------------------------
\* The client.

\* insert_pending, and send_pending when there is a connection.  After the
\* runner has ended the caller is told at once.
MakeRequest(r) ==
    /\ r \notin issued
    /\ Cardinality(issued) < MaxRequests
    /\ issued' = issued \cup {r}
    /\ IF stopped
       THEN /\ answers' = [answers EXCEPT ![r] = {"client_stopped"}]
            /\ UNCHANGED <<pending, sent, inbox>>
       ELSE /\ pending' = Append(pending, r)
            /\ sent' = IF connection = {} THEN sent ELSE sent \cup {r}
            /\ inbox' = [c \in Connection |->
                           IF c \in connection THEN Append(inbox[c], r) ELSE inbox[c]]
            /\ UNCHANGED answers
    /\ UNCHANGED <<connection, opened, stopped, task, responses, operations, executed, boundVars>>

\* Mutant of Resent: a new connection starts with the subscriptions alone.
ResentNothing == << >>

\* The requests sent on a new connection (initialize_connection): all pending
\* ones, the read-only ones among them.
Resent == pending

\* ClientRunner::run reaches a new connection.
Connect ==
    /\ ~stopped
    /\ connection = {}
    /\ opened' = opened + 1
    /\ connection' = {opened'}
    /\ inbox' = [inbox EXCEPT ![opened'] = Resent]
    /\ sent' = {Resent[i] : i \in DOMAIN Resent}
    /\ UNCHANGED <<issued, pending, answers, stopped, task, responses, operations, executed,
                   boundVars>>

\* Mutant of Unindexed: the entry stays.
StillIndexed(r) == sent

\* response_index.remove(...)
Unindexed(r) == sent \ {r}

\* complete_response.  A response that matches nothing in flight is reported
\* and ignored.
ReceiveResponse(c) ==
    LET response == Head(responses[c])
        r == response.request
    IN /\ c \in connection
       /\ responses[c] # << >>
       /\ responses' = [responses EXCEPT ![c] = Tail(@)]
       /\ IF r \in sent
          THEN /\ sent' = Unindexed(r)
               /\ \E i \in DOMAIN pending : pending[i] = r /\ pending' = RemoveAt(pending, i)
               /\ answers' = [answers EXCEPT ![r] = {response.answer}]
          ELSE UNCHANGED <<sent, pending, answers>>
       /\ UNCHANGED <<issued, connection, opened, stopped, inbox, task, operations, executed,
                      boundVars>>

\* The connection is lost, and with it the responses on their way; what the
\* daemon had received of the requests it can still read.
Disconnect ==
    /\ connection # {}
    /\ disconnects < MaxDisconnects
    /\ disconnects' = disconnects + 1
    /\ \E c \in connection : \E n \in 0 .. Len(inbox[c]) :
          /\ inbox' = [inbox EXCEPT ![c] = SubSeq(@, 1, n)]
          /\ responses' = [responses EXCEPT ![c] = << >>]
    /\ connection' = {}
    /\ sent' = {}
    /\ UNCHANGED <<issued, pending, answers, opened, stopped, task, operations, executed, crashes>>

\* ClientCommand::Shutdown, or a fatal error (stop_with_error): fail_pending,
\* and the socket is closed.
ClientStops ==
    /\ ~stopped
    /\ stopped' = TRUE
    /\ answers' = [r \in Request |-> IF \E i \in DOMAIN pending : pending[i] = r
                                     THEN {"client_stopped"} ELSE answers[r]]
    /\ pending' = << >>
    /\ sent' = {}
    /\ connection' = {}
    /\ responses' = [c \in Connection |-> << >>]
    /\ UNCHANGED <<issued, opened, inbox, task, operations, executed, boundVars>>

---------------------------------------------------------------------------
\* The daemon.

\* outbound.response(...): on a connection that is gone it goes nowhere.
Respond(c, r, a) ==
    responses' = IF c \in connection
                 THEN [responses EXCEPT ![c] = Append(@, Response(r, a))]
                 ELSE responses

\* Mutant of ClaimAnswer: the request hash is not compared.
ClaimAnswerUnhashed(row, r) ==
    CASE row.status = "pending"       -> "operation_in_progress"
      [] row.status = "indeterminate" -> "operation_indeterminate"
      [] row.status = "completed"     -> TheElement(row.outcome)

\* Store::claim_operation on a row that exists.
ClaimAnswer(row, r) ==
    IF PayloadOf[r] \notin row.payload THEN "operation_conflict"
    ELSE CASE row.status = "pending"       -> "operation_in_progress"
           [] row.status = "indeterminate" -> "operation_indeterminate"
           [] row.status = "completed"     -> TheElement(row.outcome)

\* The next frame of an idle connection.
Reads(c, r) ==
    /\ task[c] = Idle
    /\ inbox[c] # << >>
    /\ r = Head(inbox[c])
    /\ inbox' = [inbox EXCEPT ![c] = Tail(@)]

\* authorized(...) fails: nothing is claimed and nothing executed.
Refuse(c, r) ==
    /\ Reads(c, r)
    /\ r \in Unauthorized
    /\ Respond(c, r, "permission_denied")
    /\ UNCHANGED <<clientVars, task, operations, executed, boundVars>>

Executing(r) == [at |-> "execute", request |-> {r}, outcome |-> {}]

\* A read-only request goes to the controller at once.
AcceptReadOnly(c, r) ==
    /\ Reads(c, r)
    /\ r \notin Unauthorized
    /\ OperationOf[r] = {}
    /\ task' = [task EXCEPT ![c] = Executing(r)]
    /\ UNCHANGED <<clientVars, responses, operations, executed, boundVars>>

\* INSERT OR IGNORE inserted the row: OperationClaim::Execute.
Claim(c, r, o) ==
    /\ Reads(c, r)
    /\ r \notin Unauthorized
    /\ operations[o] = NoRow
    /\ operations' = [operations EXCEPT ![o] =
                         [status |-> "pending", payload |-> {PayloadOf[r]}, outcome |-> {}]]
    /\ task' = [task EXCEPT ![c] = Executing(r)]
    /\ UNCHANGED <<clientVars, responses, executed, boundVars>>

\* The row existed.
Repeat(c, r, o) ==
    /\ Reads(c, r)
    /\ r \notin Unauthorized
    /\ operations[o] # NoRow
    /\ Respond(c, r, ClaimAnswer(operations[o], r))
    /\ UNCHANGED <<clientVars, task, operations, executed, boundVars>>

\* The store fails: the request is refused.
ClaimFails(c, r) ==
    /\ Reads(c, r)
    /\ r \notin Unauthorized
    /\ OperationOf[r] # {}
    /\ Respond(c, r, "operation_conflict")
    /\ UNCHANGED <<clientVars, task, operations, executed, boundVars>>

\* DaemonController::execute has its effect and returns.
Execute(c) ==
    /\ task[c].at = "execute"
    /\ \E v \in Outcome :
          /\ task' = [task EXCEPT ![c].at = "complete", ![c].outcome = {v}]
          /\ executed' = [o \in Operation |->
                            IF \E r \in task[c].request : o \in OperationOf[r]
                            THEN Append(executed[o], v) ELSE executed[o]]
    /\ UNCHANGED <<clientVars, inbox, responses, operations, boundVars>>

\* The response to a read-only request.
Finish(c, r) ==
    /\ task[c].at = "complete"
    /\ r \in task[c].request
    /\ OperationOf[r] = {}
    /\ Respond(c, r, TheElement(task[c].outcome))
    /\ task' = [task EXCEPT ![c] = Idle]
    /\ UNCHANGED <<clientVars, inbox, operations, executed, boundVars>>

\* complete_operation, then the response.
Complete(c, r, o) ==
    /\ task[c].at = "complete"
    /\ r \in task[c].request
    /\ o \in OperationOf[r]
    /\ operations[o].status = "pending"
    /\ operations' = [operations EXCEPT ![o] = [status |-> "completed", payload |-> @.payload,
                                               outcome |-> task[c].outcome]]
    /\ Respond(c, r, TheElement(task[c].outcome))
    /\ task' = [task EXCEPT ![c] = Idle]
    /\ UNCHANGED <<clientVars, inbox, executed, boundVars>>

\* The store fails, or the row is not pending: the row stays as it is.
CompleteFails(c, r) ==
    /\ task[c].at = "complete"
    /\ r \in task[c].request
    /\ OperationOf[r] # {}
    /\ Respond(c, r, "operation_outcome_not_persisted")
    /\ task' = [task EXCEPT ![c] = Idle]
    /\ UNCHANGED <<clientVars, inbox, operations, executed, boundVars>>

\* run_connection notices that its client is gone and returns.
ConnectionEnds(c) ==
    /\ c \notin connection
    /\ task[c] = Idle
    /\ inbox[c] # << >>
    /\ inbox' = [inbox EXCEPT ![c] = << >>]
    /\ UNCHANGED <<clientVars, task, responses, operations, executed, boundVars>>

\* Mutant of Recovered: an interrupted operation may be claimed again.
RecoveredForgets(row) == IF row.status = "pending" THEN NoRow ELSE row

\* Store::recover_interrupted.
Recovered(row) ==
    IF row.status = "pending" THEN [row EXCEPT !.status = "indeterminate"] ELSE row

\* The daemon ends at any point and starts again.
Crash ==
    /\ crashes < MaxCrashes
    /\ crashes' = crashes + 1
    /\ inbox' = [c \in Connection |-> << >>]
    /\ task' = [c \in Connection |-> Idle]
    /\ responses' = [c \in Connection |-> << >>]
    /\ operations' = [o \in Operation |-> Recovered(operations[o])]
    /\ connection' = {}
    /\ sent' = {}
    /\ UNCHANGED <<issued, pending, answers, opened, stopped, executed, disconnects>>

---------------------------------------------------------------------------
Init ==
    /\ issued = {}
    /\ pending = << >>
    /\ sent = {}
    /\ answers = [r \in Request |-> {}]
    /\ connection = {}
    /\ opened = 0
    /\ stopped = FALSE
    /\ inbox = [c \in Connection |-> << >>]
    /\ task = [c \in Connection |-> Idle]
    /\ responses = [c \in Connection |-> << >>]
    /\ operations = [o \in Operation |-> NoRow]
    /\ executed = [o \in Operation |-> << >>]
    /\ disconnects = 0
    /\ crashes = 0

Handle(c) ==
    \/ \E r \in Request : \/ Refuse(c, r)
                          \/ AcceptReadOnly(c, r)
                          \/ ClaimFails(c, r)
                          \/ Finish(c, r)
                          \/ CompleteFails(c, r)
                          \/ \E o \in OperationOf[r] : \/ Claim(c, r, o)
                                                       \/ Repeat(c, r, o)
                                                       \/ Complete(c, r, o)
    \/ Execute(c)

Next ==
    \/ \E r \in Request : MakeRequest(r)
    \/ Connect \/ Disconnect \/ ClientStops \/ Crash
    \/ \E c \in Connection : ReceiveResponse(c) \/ Handle(c) \/ ConnectionEnds(c)

Spec == Init /\ [][Next]_vars

\* The runner keeps reconnecting and reading, the daemon's tasks keep running.
\* Nothing is assumed of the network, the application or crashes.
Fairness ==
    /\ WF_vars(Connect)
    /\ \A c \in Connection : WF_vars(ReceiveResponse(c)) /\ WF_vars(Handle(c))

FairSpec == Spec /\ Fairness

---------------------------------------------------------------------------
\* Properties.

\* The shape of the state; the response index holds pending requests only.
TypeOK ==
    /\ issued \subseteq Request
    /\ pending \in Seq(issued)
    /\ sent \subseteq {pending[i] : i \in DOMAIN pending}
    /\ answers \in [Request -> SUBSET Answer]
    /\ connection \subseteq Connection
    /\ opened \in 0 .. MaxDisconnects + MaxCrashes + 1
    /\ stopped \in BOOLEAN
    /\ inbox \in [Connection -> Seq(Request)]
    /\ task \in [Connection -> [at : {"idle", "execute", "complete"}, request : SUBSET Request,
                                outcome : SUBSET Outcome]]
    /\ responses \in [Connection -> Seq([request : Request, answer : Answer])]
    /\ operations \in [Operation -> [status : {"absent", "pending", "completed", "indeterminate"},
                                     payload : SUBSET {PayloadOf[r] : r \in Request},
                                     outcome : SUBSET Outcome]]
    /\ executed \in [Operation -> Seq(Outcome)]
    /\ disconnects \in 0 .. MaxDisconnects
    /\ crashes \in 0 .. MaxCrashes

\* "Repeating a prompt operation ID cannot create two prompts" (PLAN.md): the
\* effect of an operation happens at most once, whatever connections still work
\* on it, however often it is retried, and across restarts of the daemon
\* (server.rs: execute_request; store.rs: claim_operation, recover_interrupted).
AtMostOnce == \A o \in Operation : Len(executed[o]) <= 1

\* Every outcome a caller is given, or is about to be given, is the one its own
\* operation had, and the store will answer it again from then on, also after a
\* restart (execute_request: "persists the operation outcome before replying").
DurableOutcome ==
    \A r \in Request, o \in Operation, v \in Outcome :
        /\ o \in OperationOf[r]
        /\ \/ v \in answers[r]
           \/ \E c \in Connection : \E i \in DOMAIN responses[c] : responses[c][i] = Response(r, v)
        => /\ executed[o] = <<v>>
           /\ operations[o] = [status |-> "completed", payload |-> {PayloadOf[r]}, outcome |-> {v}]

\* A request that was made is answered in the end: no pending request is
\* forgotten by a reconnection, no daemon task holds on to one for ever
\* (client.rs: initialize_connection, mark_pending_disconnected, fail_pending).
EveryRequestAnswered ==
    \A r \in Request : r \in issued ~> answers[r] # {}
===========================================================================

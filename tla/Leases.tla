------------------------------- MODULE Leases -------------------------------
(***************************************************************************)
(* Answering an agent's questions: the interaction lease of one agent and  *)
(* its timer (acquire_lease, release_lease and run_agent_actor of          *)
(* crates/omp-control-plane/src/actor.rs), the daemon's check of an answer *)
(* (send_ui_response of crates/ompd/src/controller.rs), and the clients    *)
(* that show a question, acquire the lease, answer and release             *)
(* (crates/omp-app/src/view.rs, model.rs and actions.rs).                  *)
(*                                                                         *)
(* A connection of the daemon handles its requests one after the other,    *)
(* but a client that lost one goes on with the next, and the daemon with   *)
(* both.  Requests that wait for an answer are sent again, and the table   *)
(* of operations keeps each from being executed twice (module Operations): *)
(* its row, the work of the actor and the outcome are one step.            *)
(* Clocks are kept as the time that is left: of the lease by the daemon's  *)
(* wall clock, of the timer by the monotonic clock.  A client that quits   *)
(* never comes back under its holder id, which is new for every start.     *)
(* Left out: the agent's counters, a restart of the daemon, and the other  *)
(* dialogs that may cover this one (another agent's, or a notice's).       *)
(***************************************************************************)
EXTENDS Naturals, Sequences, FiniteSets

CONSTANTS
    Client,       \* clients, each with its lease holder id
    Mobile,       \* bound: the clients that lose connections, subscribe again or quit
    Ttl,          \* the time to live that clients ask for, in ticks
    MaxQuestions, \* bound: questions the agent asks
    MaxClicks,    \* bound: answers that users give
    MaxInputs     \* bound: reconnections, replays, failures, clock steps, clients that quit

ASSUME LeasesAssumption ==
    /\ Mobile \subseteq Client
    /\ Ttl \in Nat \ {0}
    /\ MaxQuestions \in Nat /\ MaxClicks \in Nat /\ MaxInputs \in Nat

Question == 1 .. MaxQuestions
Task == 1 .. MaxClicks           \* respond_interaction spawns a task for each click
Line == Client \X (0 .. MaxInputs)  \* connections; a client opens another when it loses one

VARIABLES
    lease,     \* the agent's InteractionState: an Option of a holder and the time left
    deadline,  \* lease_deadline of the actor: an Option of the time left
    asked,     \* how many questions the agent has asked
    answers,   \* the answers forwarded to the agent's process
    feed,      \* per client: interaction requests its event loop has not read
    requests,  \* per client: the requests it made, by key, with their row of `operations`
    current,   \* per client: how many connections it has lost
    wire,      \* per connection: the keys of its requests that are not handled
    checked,   \* connections whose first request is an answer with its lease checked
    responses, \* per client: the responses on its connection that it has not acted on
    shown,     \* per client: the dialog, an Option of a question and its lease state
    loop,      \* per client: what its event loop waits for
    task,      \* per click: the task that answers
    inputs,    \* how many inputs there were
    lapsed,    \* history: connections whose lease expired or was given back after the check
    stepped    \* history: whether the wall clock was set

actorVars == <<lease, deadline>>
agentVars == <<asked, answers>>
lineVars == <<requests, current, wire, checked, responses>>
viewVars == <<feed, shown, loop, task>>
vars == <<actorVars, agentVars, lineVars, viewVars, inputs, lapsed, stepped>>

NoTask == [at |-> "none", client |-> {}, question |-> 0]

Input == inputs < MaxInputs /\ inputs' = inputs + 1

\* The holder whose lease has not expired by the wall clock.
Holders == {l.holder : l \in {m \in lease : m.left > 0}}

HasLease(c) == c \in Holders

\* A checked answer whose lease expires is remembered.
NoteExpiry ==
    lapsed' = {k \in checked : k \in lapsed \/ lease' = {} \/ \E l \in lease' : l.left = 0}

---------------------------------------------------------------------------
\* Time and the actor's timer.

Less(n) == IF n = 0 THEN 0 ELSE n - 1

Tick ==
    /\ \E l \in lease : l.left > 0 \/ deadline # {0}
    /\ lease' = {[l EXCEPT !.left = Less(@)] : l \in lease}
    /\ deadline' = {Less(n) : n \in deadline}
    /\ NoteExpiry
    /\ UNCHANGED <<agentVars, lineVars, viewVars, inputs, stepped>>

\* The wall clock is set, forwards or backwards.
ClockStep ==
    /\ lease # {}
    /\ Input
    /\ \E n \in 0 .. Ttl : lease' = {[l EXCEPT !.left = n] : l \in lease}
    /\ stepped' = TRUE
    /\ NoteExpiry
    /\ UNCHANGED <<deadline, agentVars, lineVars, viewVars>>

\* Mutant of TimerFires: a timer that repeats, and leaves an expired lease to
\* whoever acquires next.
TimerRepeats ==
    /\ deadline = {0}
    /\ deadline' = {Ttl}
    /\ UNCHANGED <<lease, lapsed>>
    /\ UNCHANGED <<agentVars, lineVars, viewVars, inputs, stepped>>

\* The timer's arm of run_agent_actor.
TimerFires ==
    /\ deadline = {0}
    /\ deadline' = {}
    /\ lease' = {}
    /\ NoteExpiry
    /\ UNCHANGED <<agentVars, lineVars, viewVars, inputs, stepped>>

---------------------------------------------------------------------------
\* The daemon: one request of a connection at a time.

\* The first request of connection k that is not handled.
Key(k) == Head(wire[k])
Asks(k) == requests[k[1]][Key(k)]

\* The connection is idle and has a request to read.
Reads(k) == k \notin checked /\ wire[k] # << >>

\* The response goes out on the request's own connection, if its client still has it.
Respond(k, good) ==
    /\ wire' = [wire EXCEPT ![k] = Tail(@)]
    /\ checked' = checked \ {k}
    /\ responses' = IF k[2] = current[k[1]] /\ loop[k[1]] # "ended"
                    THEN [responses EXCEPT ![k[1]] = Append(@, [key |-> Key(k), good |-> good])]
                    ELSE responses
    /\ UNCHANGED current

\* complete_operation and the response.
Completes(k, good) ==
    /\ requests' = [requests EXCEPT ![k[1]][Key(k)].row = IF good THEN "good" ELSE "failed"]
    /\ Respond(k, good)

\* claim_operation inserts a row, and the request is executed.
Executes(k, kind) ==
    /\ Reads(k)
    /\ Asks(k).row = "absent"
    /\ Asks(k).kind = kind

\* Another connection of the client has come to the same request.
AlsoElsewhere(k) == \E l \in Line \ {k} : l[1] = k[1] /\ wire[l] # << >> /\ Key(l) = Key(k)

\* A request sent again: its outcome, or operation_in_progress when the other
\* connection has claimed it and waits for the actor or the process.
RepeatOperation(k) ==
    /\ Reads(k)
    /\ \/ Asks(k).row \in {"good", "failed"} /\ Respond(k, Asks(k).row = "good")
       \/ Asks(k).row \in {"absent", "pending"} /\ AlsoElsewhere(k) /\ Respond(k, FALSE)
    /\ UNCHANGED <<actorVars, agentVars, requests, viewVars, inputs, lapsed, stepped>>

\* Mutant of Claimable: whoever asks gets the lease.
ClaimableByAnyone(c) == TRUE

\* acquire_lease refuses with HeldByOther only before the lease expires.
Claimable(c) == Holders \subseteq {c}

\* Mutant of Claim: a timer that runs is not started again.
ClaimKeepsDeadline(c) ==
    /\ lease' = {[holder |-> c, left |-> Ttl]}
    /\ deadline' = IF deadline = {} THEN {Ttl} ELSE deadline

\* Mutant of Claim: a renewal does not replace the lease there is.
ClaimAdds(c) ==
    /\ lease' = lease \cup {[holder |-> c, left |-> Ttl]}
    /\ deadline' = {Ttl}

\* A lease for the whole time to live, new or renewed, and its timer.
Claim(c) ==
    /\ lease' = {[holder |-> c, left |-> Ttl]}
    /\ deadline' = {Ttl}

\* AcquireInteractionLease
AcquireLease(k) ==
    /\ Executes(k, "acquire")
    /\ IF Claimable(k[1]) THEN Claim(k[1]) ELSE UNCHANGED actorVars
    /\ Completes(k, Claimable(k[1]))
    /\ UNCHANGED <<agentVars, viewVars, inputs, lapsed, stepped>>

\* Mutant of Releasable: whoever asks ends the lease.
ReleasableByAnyone(c) == lease # {}

\* release_lease refuses with NotHeld or NotHolder.
Releasable(c) == \E l \in lease : l.holder = c

\* ReleaseInteractionLease.  It may come in while an answer of the same client
\* waits on a connection that the client has lost.
ReleaseLease(k) ==
    /\ Executes(k, "release")
    /\ IF Releasable(k[1])
       THEN /\ lease' = {} /\ deadline' = {}
            /\ lapsed' = lapsed \cup {l \in checked : l[1] = k[1]}
       ELSE UNCHANGED <<actorVars, lapsed>>
    /\ Completes(k, Releasable(k[1]))
    /\ UNCHANGED <<agentVars, viewVars, inputs, stepped>>

\* RespondToUi, first half of send_ui_response: the snapshot is read and its
\* lease checked.
CheckLease(k) ==
    /\ Executes(k, "respond")
    /\ IF HasLease(k[1])
       THEN /\ checked' = checked \cup {k}
            /\ requests' = [requests EXCEPT ![k[1]][Key(k)].row = "pending"]
            /\ UNCHANGED <<current, wire, responses>>
       ELSE Completes(k, FALSE)
    /\ UNCHANGED <<actorVars, agentVars, viewVars, inputs, lapsed, stepped>>

\* Second half: the runtime's lock was waited for, and the answer is forwarded
\* or the process cannot be written to.
ForwardAnswer(k) ==
    /\ k \in checked
    /\ \/ /\ answers' = answers \cup {<<k[1], Asks(k).question>>}
          /\ Completes(k, TRUE)
          /\ UNCHANGED inputs
       \/ /\ Input
          /\ Completes(k, FALSE)
          /\ UNCHANGED answers
    /\ lapsed' = lapsed \ {k}
    /\ UNCHANGED <<actorVars, asked, viewVars, stepped>>

---------------------------------------------------------------------------
\* The agent's process and the delivery of its questions to every client.

\* It asks when it has an answer to its last question, or gave up on that.
Ask ==
    /\ asked < MaxQuestions
    /\ asked' = asked + 1
    /\ feed' = [c \in Client |-> IF loop[c] = "ended" THEN << >>
                                 ELSE Append(feed[c], asked + 1)]
    /\ UNCHANGED <<actorVars, answers, lineVars, shown, loop, task, inputs, lapsed, stepped>>

\* A client subscribes again, and the replay has the last question.
Replay(c) ==
    /\ c \in Mobile
    /\ loop[c] # "ended"
    /\ asked > 0
    /\ Input
    /\ feed' = [feed EXCEPT ![c] = Append(@, asked)]
    /\ UNCHANGED <<actorVars, agentVars, lineVars, shown, loop, task, lapsed, stepped>>

---------------------------------------------------------------------------
\* A client and its connection.

CurrentLine(c) == <<c, current[c]>>

\* insert_pending and send_pending.
Sends(c, kind, q, t) ==
    /\ requests' = [requests EXCEPT ![c] =
          Append(@, [kind |-> kind, question |-> q, task |-> t, row |-> "absent"])]
    /\ wire' = [wire EXCEPT ![CurrentLine(c)] = Append(@, Len(requests[c]) + 1)]

\* The requests of the current connection that the daemon has received when it
\* ends: the one it is executing, and more.
Received(c) ==
    {SubSeq(wire[CurrentLine(c)], 1, n) :
        n \in {i \in 0 .. Len(wire[CurrentLine(c)]) : CurrentLine(c) \in checked => i > 0}}

\* A task that waits for the answer to a request.
Live(t) == task[t].at \in {"responding", "releasing"}

\* The tasks of a client end: they were spawned in the scope of its dialog.
EndTasks(c) ==
    task' = [t \in Task |-> IF task[t].client = {c}
                            THEN [task[t] EXCEPT !.at = "ended"] ELSE task[t]]

\* The connection is lost and another one is open.  Some responses have reached
\* the client, and what has no response is sent again, in the order of its keys.
Reconnect(c) ==
    /\ c \in Mobile
    /\ loop[c] # "ended"
    /\ Input
    /\ \E n \in 0 .. Len(responses[c]), w \in Received(c) :
          LET lost == SubSeq(responses[c], n + 1, Len(responses[c]))
              resent == [i \in DOMAIN lost |-> lost[i].key] \o wire[CurrentLine(c)]
          IN  /\ responses' = [responses EXCEPT ![c] = SubSeq(@, 1, n)]
              /\ current' = [current EXCEPT ![c] = @ + 1]
              /\ wire' = [wire EXCEPT ![CurrentLine(c)] = w, ![<<c, current[c] + 1>>] = resent]
    /\ UNCHANGED <<actorVars, agentVars, requests, checked, viewVars, lapsed, stepped>>

\* The application ends.  What the daemon has received is still executed.
Quit(c) ==
    /\ c \in Mobile
    /\ loop[c] # "ended"
    /\ Input
    /\ loop' = [loop EXCEPT ![c] = "ended"]
    /\ feed' = [feed EXCEPT ![c] = << >>]
    /\ shown' = [shown EXCEPT ![c] = {}]
    /\ EndTasks(c)
    /\ responses' = [responses EXCEPT ![c] = << >>]
    /\ \E w \in Received(c) : wire' = [wire EXCEPT ![CurrentLine(c)] = w]
    /\ UNCHANGED <<actorVars, agentVars, requests, current, checked, lapsed, stepped>>

---------------------------------------------------------------------------
\* The user interface of a client.

\* apply_client_event: the question takes the place of the one shown.
Dialog(q) == {[question |-> q, lease |-> "acquiring"]}

\* Mutant of Remounts: a dialog without a key.
RemountsNever(c, q) == FALSE

\* interaction_key: the dialog of another question is another component.
Remounts(c, q) == \A i \in shown[c] : i.question # q

\* The event loop of connect shows the question and waits for the lease.
ReadInteraction(c) ==
    /\ loop[c] = "idle"
    /\ feed[c] # << >>
    /\ feed' = [feed EXCEPT ![c] = Tail(@)]
    /\ shown' = [shown EXCEPT ![c] = Dialog(Head(feed[c]))]
    /\ IF Remounts(c, Head(feed[c])) THEN EndTasks(c) ELSE UNCHANGED task
    /\ loop' = [loop EXCEPT ![c] = "acquiring"]
    /\ Sends(c, "acquire", 0, 0)
    /\ UNCHANGED <<actorVars, agentVars, current, checked, responses, inputs, lapsed, stepped>>

\* A button of the dialog, enabled while the lease is owned: respond_interaction
\* spawns a task.  The dialog stays, and may be answered again.
Click(c, t) ==
    /\ \E i \in shown[c] :
          /\ i.lease = "owned"
          /\ task' = [task EXCEPT ![t] =
                [at |-> "responding", client |-> {c}, question |-> i.question]]
          /\ Sends(c, "respond", i.question, t)
    /\ task[t].at = "none"
    /\ \A u \in Task : u < t => task[u].at # "none"
    /\ UNCHANGED <<actorVars, agentVars, current, checked, responses, feed, shown, loop, inputs,
                   lapsed, stepped>>

\* complete_response: the first response resumes who waits for it.
Resumes(c, kind) ==
    /\ responses[c] # << >>
    /\ requests[c][Head(responses[c]).key].kind = kind
    /\ responses' = [responses EXCEPT ![c] = Tail(@)]
    /\ UNCHANGED <<actorVars, agentVars, current, checked, feed, inputs, lapsed, stepped>>

Good(c) == Head(responses[c]).good
Waiter(c) == requests[c][Head(responses[c]).key].task

\* set_interaction_lease, on whatever dialog the agent has now.
LoopResumes(c) ==
    /\ Resumes(c, "acquire")
    /\ shown' = [shown EXCEPT ![c] =
          {[i EXCEPT !.lease = IF Good(c) THEN "owned" ELSE "unavailable"] : i \in @}]
    /\ loop' = [loop EXCEPT ![c] = "idle"]
    /\ UNCHANGED <<requests, wire, task>>

\* respond_to_interaction: after the answer, the release.
TaskReleases(c, t) ==
    /\ Resumes(c, "respond")
    /\ t = Waiter(c) /\ Live(t) /\ Good(c)
    /\ task' = [task EXCEPT ![t].at = "releasing"]
    /\ Sends(c, "release", 0, t)
    /\ UNCHANGED <<shown, loop>>

\* After both, the dialog of the agent is dismissed, and with it go the other
\* tasks of the client.
TaskDismisses(c, t) ==
    /\ Resumes(c, "release")
    /\ t = Waiter(c) /\ Live(t) /\ Good(c)
    /\ shown' = [shown EXCEPT ![c] = {}]
    /\ EndTasks(c)
    /\ UNCHANGED <<requests, wire, loop>>

\* After an error the dialog stays.
TaskFails(c, t) ==
    /\ \E kind \in {"respond", "release"} : Resumes(c, kind)
    /\ t = Waiter(c) /\ Live(t) /\ ~Good(c)
    /\ task' = [task EXCEPT ![t].at = "ended"]
    /\ UNCHANGED <<requests, wire, shown, loop>>

\* The task ended with its dialog: nobody receives.
NobodyWaits(c, t) ==
    /\ \E kind \in {"respond", "release"} : Resumes(c, kind)
    /\ t = Waiter(c) /\ ~Live(t)
    /\ UNCHANGED <<requests, wire, shown, loop, task>>

---------------------------------------------------------------------------
Init ==
    /\ lease = {} /\ deadline = {}
    /\ asked = 0 /\ answers = {}
    /\ feed = [c \in Client |-> << >>]
    /\ requests = [c \in Client |-> << >>]
    /\ current = [c \in Client |-> 0]
    /\ wire = [k \in Line |-> << >>]
    /\ checked = {}
    /\ responses = [c \in Client |-> << >>]
    /\ shown = [c \in Client |-> {}]
    /\ loop = [c \in Client |-> "idle"]
    /\ task = [t \in Task |-> NoTask]
    /\ inputs = 0 /\ lapsed = {} /\ stepped = FALSE

Next ==
    \/ Tick \/ ClockStep \/ TimerFires \/ Ask
    \/ \E k \in Line :
          \/ AcquireLease(k) \/ ReleaseLease(k) \/ CheckLease(k) \/ ForwardAnswer(k)
          \/ RepeatOperation(k)
    \/ \E c \in Client :
          \/ Replay(c) \/ Reconnect(c) \/ Quit(c) \/ ReadInteraction(c) \/ LoopResumes(c)
          \/ \E t \in Task : \/ Click(c, t) \/ TaskReleases(c, t) \/ TaskDismisses(c, t)
                             \/ TaskFails(c, t) \/ NobodyWaits(c, t)

Spec == Init /\ [][Next]_vars

\* Time passes, and the actor's timer is not put off for ever.
FairSpec == Spec /\ WF_vars(Tick) /\ WF_vars(TimerFires)

---------------------------------------------------------------------------
TypeOK ==
    /\ \A l \in lease : l \in [holder : Client, left : 0 .. Ttl]
    /\ Cardinality(lease) <= 1
    /\ deadline \in SUBSET (0 .. Ttl)
    /\ asked \in 0 .. MaxQuestions
    /\ answers \subseteq Client \X Question
    /\ feed \in [Client -> Seq(Question)]
    /\ requests \in [Client -> Seq([kind : {"acquire", "release", "respond"},
                                    question : Question \cup {0}, task : Task \cup {0},
                                    row : {"absent", "pending", "good", "failed"}])]
    /\ current \in [Client -> 0 .. MaxInputs]
    /\ wire \in [Line -> Seq(Nat)]
    /\ checked \subseteq Line
    /\ responses \in [Client -> Seq([key : Nat, good : BOOLEAN])]
    /\ shown \in [Client -> SUBSET [question : Question,
                                    lease : {"acquiring", "owned", "unavailable"}]]
    /\ loop \in [Client -> {"idle", "acquiring", "ended"}]
    /\ task \in [Task -> [at : {"none", "responding", "releasing", "ended"},
                          client : SUBSET Client, question : Question \cup {0}]]
    /\ inputs \in 0 .. MaxInputs
    /\ lapsed \subseteq checked
    /\ stepped \in BOOLEAN

\* The lease as the module that says what it promises sees it.
Exclusive == INSTANCE ExclusiveLease WITH Holder <- Client, holder <- Holders

\* Expiry, renewal, release, late timers and steps of the wall clock together
\* implement an exclusive lease: no client takes it from another before it was
\* released or expired (acquire_lease, release_lease, run_agent_actor).
ImplementsExclusiveLease == Exclusive!Spec

\* A lease and its timer come and go together, and while the wall clock is not
\* set the timer does not end a lease before the time its holder was promised,
\* renewals included (lease_deadline in acquire_lease and release_lease).
TimerMatchesLease ==
    /\ lease = {} <=> deadline = {}
    /\ ~stepped => \A l \in lease, n \in deadline : n >= l.left

\* Between the check of a client's lease and the forwarding of its answer, on a
\* connection that may be lost meanwhile, the lease is that client's unless it
\* expires or the client itself gives it back, on its next connection: nothing
\* that another client sends gets in (send_ui_response).
CheckedIsHolder == \A k \in checked \ lapsed : HasLease(k[1])

\* A client that ends does not keep the agent's questions to itself: its lease
\* ends although nobody releases it (the timer of run_agent_actor).
AbandonedLeaseEnds ==
    \A c \in Client :
       (loop[c] = "ended" /\ \A k \in Line : k[1] = c => wire[k] = << >>)
          ~> (\A l \in lease : l.holder # c)

\* A dialog is closed only after the client's own answer to its question went to
\* the agent: answering one question never closes the dialog of the next, which
\* respond_interaction names by the agent alone (dismiss_interaction), however
\* answers, repeats and new questions cross.
OwnDialogDismissed ==
    [][\A c \in Client :
          shown[c] # {} /\ shown'[c] = {} /\ loop'[c] # "ended" =>
             \A i \in shown[c] : <<c, i.question>> \in answers]_vars
=============================================================================

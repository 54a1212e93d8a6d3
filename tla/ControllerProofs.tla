-------------------------- MODULE ControllerProofs --------------------------
(***************************************************************************)
(* Proofs about the controller (module Controller), for any connections,   *)
(* scopes, channel capacity, processes and restarts.                       *)
(*                                                                         *)
(* CoreInv says where a task may be with which operation, that the runtimes*)
(* mutex is held exactly by a launch between its check and its insertion,  *)
(* that nothing is in the map meanwhile, and that processes are born in    *)
(* order.  GhostInv says what a daemon that has spawned nothing can show.  *)
(* ServedInv says where a running process is that nobody has let go.       *)
(***************************************************************************)
EXTENDS Controller, FiniteSetTheorems, TLAPS

Label == {"idle", "lock", "spawn", "agent", "launch_idle", "get_state", "install",
          "take", "set_stopping", "shutdown", "set_stopped", "set_failed", "remove", "down",
          "find", "upsert", "set_running", "request", "read_run", "finish_run", "set_idle",
          "snapshot", "write", "recv"}
Task == [op : Operation \cup {"none", "fail", "agent_end", "exit", "shutdown"},
         at : Label, proc : 0 .. MaxProcess, inst : Nat,
         pid : SUBSET Process, run : SUBSET Nat, seen : Lifecycle \cup {"none"}]
Row == [lifecycle : Lifecycle, process_id : SUBSET Process, active_run_id : SUBSET Nat]
Feed == [queue : Seq(Event), lagged : BOOLEAN]

\* The labels a task goes through before it has a runtime, or without one.
Early == {"idle", "lock", "spawn", "take", "find", "down"}
Persisting == {"snapshot", "write"}
Ending == {"read_run", "finish_run"}

\* Where a task may be with the operation it is on.
ConnectionAt(op, at) ==
    \/ op = "none" /\ at = "idle"
    \/ op = "launch" /\ at \in {"lock", "spawn", "agent", "launch_idle", "get_state",
                                "install"} \cup Persisting
    \/ op \in {"stop", "switch"} /\ at \in {"take", "set_stopping", "shutdown",
                                "set_stopped", "remove"} \cup Persisting
    \/ op = "prompt" /\ at \in {"find", "upsert", "set_running", "request"} \cup Persisting
    \/ op = "steer" /\ at \in {"find", "request"}
    \/ op = "abort" /\ at \in {"find", "request"} \cup Ending
    \/ op = "fail" /\ at \in {"set_idle"} \cup Ending \cup Persisting
BridgeAt(op, at) ==
    \/ op = "none" /\ at \in {"idle", "recv"}
    \/ op = "agent_end" /\ at \in {"set_idle", "recv"} \cup Ending \cup Persisting
    \/ op = "exit" /\ at \in Persisting
MainAt(op, at) ==
    \/ op = "none" /\ at = "idle"
    \/ op = "shutdown" /\ at \in {"take", "set_stopping", "shutdown", "set_stopped",
                                  "set_failed", "down"} \cup Persisting

Launching(w) == work[w].op = "launch" /\ work[w].at # "lock"

\* What holds of the locals t of task w, and of its hold on the mutex.
GoodTask(w, t) ==
    /\ t \in Task
    /\ w \in Connection => ConnectionAt(t.op, t.at)
    /\ w \in Process => BridgeAt(t.op, t.at)
    /\ w = Main => MainAt(t.op, t.at)
    /\ t.at \notin Early => t.proc \in Process
    /\ t.at = "write" => t.seen \in Lifecycle
TaskInv(w) == GoodTask(w, work[w]) /\ (w \in lock <=> Launching(w))

AgentOK ==
    /\ instances \in Nat /\ registered \in 0 .. instances
    /\ snapshot \in [lifecycle : Lifecycle, active_run : SUBSET Nat]
    /\ record \in SUBSET Row

ChildrenOK ==
    /\ process \in [Process -> {"unborn", "running", "exited", "failed", "orphaned"}]
    /\ feed \in [Process -> Feed]
    /\ \A p \in Process : Len(feed[p].queue) <= EventCapacity

MapOK ==
    /\ lock \in SUBSET Connection /\ \A x, y \in lock : x = y
    /\ runtimes \in SUBSET Process /\ \A x, y \in runtimes : x = y
    /\ lock # {} => runtimes = {}

\* Processes are born in order, and the first of this daemon is not after the next.
BornOK ==
    /\ inputs \in Nat
    /\ since \in Nat \ {0}
    /\ \E k \in 0 .. MaxProcess :
         /\ \A p \in Process : process[p] # "unborn" <=> p <= k
         /\ since <= k + 1

CoreInv ==
    /\ AgentOK /\ ChildrenOK /\ MapOK /\ BornOK
    /\ work \in [Worker -> Task]
    /\ \A w \in Worker : TaskInv(w)

\* This daemon has spawned nothing.
Fresh == \A p \in Process : p >= since => process[p] = "unborn"
Busy == {"starting", "running", "stopping"}
GhostInv ==
    Fresh => /\ runtimes = {}
             /\ \A w \in Worker : work[w].at \in Early
             /\ registered # 0 => snapshot.lifecycle \notin Busy /\ snapshot.active_run = {}
             /\ \A row \in record : row.lifecycle \notin Busy

\* The launch that has process p: it has spawned it and still holds the mutex.
LaunchHas(c, p) == c \in lock /\ work[c].at # "spawn" /\ work[c].proc = p

ServedInv ==
    \A p \in Process :
        Running(p) /\ p \notin let_go => p \in runtimes \/ \E c \in Connection : LaunchHas(c, p)

-----------------------------------------------------------------------------
\* Shapes of steps.

\* A step of task w changes no other task and no other hold on the mutex.
TaskStep(w) ==
    /\ work' = [work EXCEPT ![w] = work'[w]]
    /\ lock' \in {lock, lock \ {w}}
    /\ TaskInv(w)'

\* Most steps change nothing else but the agent and its row.
LocalStep(w) ==
    /\ TaskStep(w)
    /\ snapshot' \in [lifecycle : Lifecycle, active_run : SUBSET Nat]
    /\ record' \in SUBSET Row
    /\ UNCHANGED <<registered, instances, runtimes, process, feed, inputs, since>>

LEMMA Sorts ==
    /\ Main \in Worker /\ Main \notin Connection /\ Main \notin Process
    /\ Connection \cap Process = {}
    /\ Connection \subseteq Worker /\ Process \subseteq Worker
    /\ \A p \in Process : p \in 0 .. MaxProcess /\ p \in Nat
    /\ MaxProcess \in Nat /\ MaxInputs \in Nat /\ EventCapacity \in Nat \ {0}
BY ControllerAssumption DEF Worker, Main, Process

\* A task that has nothing to do.
LEMMA NoWorkGood ==
    ASSUME NEW w
    PROVE  GoodTask(w, NoWork) /\ NoWork.op = "none" /\ NoWork.at = "idle"
<1>1. NoWork \in Task
  BY Sorts DEF NoWork, Task, Process, Label
<1>2. NoWork.op = "none" /\ NoWork.at = "idle"
  BY DEF NoWork
<1> HIDE DEF NoWork
<1> QED BY <1>1, <1>2 DEF GoodTask, ConnectionAt, BridgeAt, MainAt, Early

\* Only the task's own part has to be looked at.
LEMMA TasksKept ==
    ASSUME CoreInv, NEW w \in Worker, TaskStep(w)
    PROVE  /\ work' \in [Worker -> Task]
           /\ \A x \in Worker : TaskInv(x)'
<1>1. work'[w] \in Task
  BY DEF TaskStep, TaskInv, GoodTask
<1>2. work' \in [Worker -> Task]
  BY <1>1 DEF TaskStep, CoreInv
<1>3. ASSUME NEW x \in Worker, x # w PROVE TaskInv(x)'
  <2>1. work'[x] = work[x] /\ (x \in lock' <=> x \in lock) /\ TaskInv(x)
    BY <1>3 DEF TaskStep, CoreInv
  <2> QED BY <2>1 DEF TaskInv, Launching, GoodTask
<1> QED BY <1>2, <1>3 DEF TaskStep

LEMMA LocalCore ==
    ASSUME CoreInv, NEW w \in Worker, LocalStep(w)
    PROVE  CoreInv'
<1>1. work' \in [Worker -> Task] /\ \A x \in Worker : TaskInv(x)'
  BY TasksKept DEF LocalStep
<1>2. AgentOK'
  BY DEF LocalStep, CoreInv, AgentOK
<1>3. ChildrenOK' /\ BornOK'
  BY DEF LocalStep, CoreInv, ChildrenOK, BornOK
<1>4. MapOK'
  BY DEF LocalStep, TaskStep, CoreInv, MapOK
<1> QED BY <1>1, <1>2, <1>3, <1>4 DEF CoreInv

\* A task that has got past the early labels is work of this daemon.
LEMMA LateGhost ==
    ASSUME GhostInv, NEW w \in Worker, work[w].at \notin Early, UNCHANGED <<process, since>>
    PROVE  GhostInv'
BY DEF GhostInv, Fresh

LEMMA ReturnStep ==
    ASSUME CoreInv, NEW w \in Worker, Return(w)
    PROVE  TaskStep(w) /\ work'[w] = NoWork /\ lock' = lock \ {w}
<1>1. work' = [work EXCEPT ![w] = NoWork] /\ work'[w] = NoWork
  BY DEF Return, CoreInv
<1>2. GoodTask(w, NoWork)' /\ ~Launching(w)'
  BY <1>1, NoWorkGood DEF GoodTask, Launching
<1>3. TaskInv(w)'
  BY <1>1, <1>2 DEF TaskInv, Return, GoodTask
<1> QED BY <1>1, <1>3 DEF TaskStep, Return

\* A step inside an operation, which keeps what the task holds of the mutex.
LEMMA SetStep ==
    ASSUME CoreInv, NEW w \in Worker, NEW t, GoodTask(w, t),
           work' = [work EXCEPT ![w] = t], UNCHANGED lock,
           (t.op = "launch" /\ t.at # "lock") <=> Launching(w)
    PROVE  TaskStep(w) /\ work'[w] = t
<1>1. work'[w] = t
  BY DEF CoreInv
<1>2. TaskInv(w)'
  BY <1>1 DEF TaskInv, CoreInv, GoodTask, Launching
<1> QED BY <1>1, <1>2 DEF TaskStep

LEMMA GoStep ==
    ASSUME CoreInv, NEW w \in Worker, NEW label \in Label, Go(w, label), UNCHANGED lock,
           w \in Connection => ConnectionAt(work[w].op, label),
           w \in Process => BridgeAt(work[w].op, label),
           w = Main => MainAt(work[w].op, label),
           label \notin Early => work[w].proc \in Process,
           label # "write",
           work[w].op = "launch" => label # "lock" /\ work[w].at # "lock"
    PROVE  TaskStep(w) /\ work'[w] = [work[w] EXCEPT !.at = label]
<1> DEFINE t == [work[w] EXCEPT !.at = label]
<1>1. work[w] \in Task
  BY DEF CoreInv
<1>2. /\ t \in Task /\ t.at = label /\ t.op = work[w].op /\ t.proc = work[w].proc
  BY <1>1 DEF Task
<1>3. work' = [work EXCEPT ![w] = t]
  BY DEF Go
<1> HIDE DEF t
<1>4. GoodTask(w, t)
  BY <1>2 DEF GoodTask
<1>5. (t.op = "launch" /\ t.at # "lock") <=> Launching(w)
  BY <1>2 DEF Launching
<1>6. TaskStep(w) /\ work'[w] = t
  BY <1>3, <1>4, <1>5, SetStep
<1> QED BY <1>6 DEF t
LEMMA LifecycleStep ==
    ASSUME CoreInv, NEW lifecycle \in Lifecycle,
           SetLifecycle(lifecycle) \/ UNCHANGED snapshot
    PROVE  snapshot' \in [lifecycle : Lifecycle, active_run : SUBSET Nat]
BY DEF CoreInv, AgentOK, SetLifecycle

\* Where a task is tells which operation it is on.
LEMMA Where ==
    ASSUME CoreInv, NEW w \in Worker
    PROVE  /\ work[w] \in Task /\ GoodTask(w, work[w])
           /\ w \in lock <=> Launching(w)
           /\ work[w].at \notin Early => work[w].proc \in Process
           /\ work[w].at \in {"upsert", "set_running"} => w \in Connection /\ work[w].op = "prompt"
           /\ work[w].at \in {"lock", "spawn", "agent", "launch_idle", "get_state", "install"}
                => w \in Connection /\ work[w].op = "launch"
           /\ work[w].at = "remove" => w \in Connection /\ work[w].op \in {"stop", "switch"}
           /\ work[w].at = "find" => w \in Connection /\ work[w].op \in {"prompt", "steer", "abort"}
           /\ work[w].at = "request" => w \in Connection /\ work[w].op \in {"prompt", "steer", "abort"}
           /\ work[w].at \in Ending => w # Main /\ work[w].op \in {"abort", "fail", "agent_end"}
           /\ work[w].at = "set_idle" => w # Main /\ work[w].op \in {"fail", "agent_end"}
           /\ work[w].at = "recv" => w \in Process /\ work[w].op \in {"none", "agent_end"}
           /\ work[w].at \in {"take", "set_stopping", "shutdown", "set_stopped"}
                => w \notin Process /\ work[w].op \in {"stop", "switch", "shutdown"}
           /\ work[w].at \in Persisting =>
                \/ w \in Connection /\ work[w].op \in {"launch", "stop", "switch", "prompt", "fail"}
                \/ w \in Process /\ work[w].op \in {"agent_end", "exit"}
                \/ w = Main /\ work[w].op = "shutdown"
           /\ work[w].op = "shutdown" => w = Main
           /\ work[w].op \in {"abort", "fail", "prompt"} => w \in Connection
           /\ work[w].op \in {"agent_end", "exit"} => w \in Process
           /\ work[w].op \in {"launch", "stop", "switch"} => w \in Connection
<1>1. TaskInv(w)
  BY DEF CoreInv
<1>2. w \in Connection \/ w \in Process \/ w = Main
  BY DEF Worker
<1>3. CASE w \in Connection
  <2>1. w \notin Process /\ w # Main /\ ConnectionAt(work[w].op, work[w].at)
    BY <1>1, <1>3, Sorts DEF TaskInv, GoodTask
  <2> QED BY <1>1, <1>3, <2>1 DEF TaskInv, GoodTask, ConnectionAt, Ending, Persisting
<1>4. CASE w \in Process
  <2>1. w \notin Connection /\ w # Main /\ BridgeAt(work[w].op, work[w].at)
    BY <1>1, <1>4, Sorts DEF TaskInv, GoodTask
  <2> QED BY <1>1, <1>4, <2>1 DEF TaskInv, GoodTask, BridgeAt, Ending, Persisting
<1>5. CASE w = Main
  <2>1. w \notin Connection /\ w \notin Process /\ MainAt(work[w].op, work[w].at)
    BY <1>1, <1>5, Sorts DEF TaskInv, GoodTask
  <2> QED BY <1>1, <1>5, <2>1 DEF TaskInv, GoodTask, MainAt, Ending, Persisting
<1> QED BY <1>2, <1>3, <1>4, <1>5
-----------------------------------------------------------------------------
\* Steps that change one task, the agent and its row only.

\* The task goes to a label its operation has, and the agent keeps its type.
LEMMA GoLocal ==
    ASSUME CoreInv, NEW w \in Worker, NEW label \in Label, Go(w, label), UNCHANGED lock,
           work[w].at \notin Early,
           w \in Connection => ConnectionAt(work[w].op, label),
           w \in Process => BridgeAt(work[w].op, label),
           w = Main => MainAt(work[w].op, label),
           label \notin {"write", "lock"}
    PROVE  TaskStep(w) /\ work'[w] = [work[w] EXCEPT !.at = label]
<1>1. work[w].proc \in Process /\ work[w].at # "lock"
  BY Where DEF Early
<1> QED BY <1>1, GoStep

LEMMA PromptUpsertStep ==
    ASSUME CoreInv, NEW c \in Connection, PromptUpsert(c)
    PROVE  LocalStep(c)
<1>1. c \in Worker /\ c # Main /\ c \notin Process
  BY Sorts
<1>2. work[c] \in Task /\ work[c].at = "upsert" /\ work[c].op = "prompt" /\ work[c].at \notin Early
  BY <1>1, Where DEF PromptUpsert, Early
<1>3. TaskStep(c)
  <2>1. CASE Open(c)
    BY <1>1, <1>2, <2>1, GoLocal DEF PromptUpsert, ConnectionAt, Label
  <2>2. CASE ~Open(c)
    BY <1>1, <2>2, ReturnStep DEF PromptUpsert
  <2> QED BY <2>1, <2>2
<1>4. work[c].run \in SUBSET Nat
  BY <1>2 DEF Task
<1>5. snapshot' \in [lifecycle : Lifecycle, active_run : SUBSET Nat]
  BY <1>4 DEF PromptUpsert, CoreInv, AgentOK
<1>6. record \in SUBSET Row
  BY DEF CoreInv, AgentOK
<1> QED BY <1>3, <1>5, <1>6 DEF LocalStep, PromptUpsert, childVars, history

LEMMA PromptRunningStep ==
    ASSUME CoreInv, NEW c \in Connection, PromptRunning(c)
    PROVE  LocalStep(c)
<1>1. c \in Worker /\ c # Main /\ c \notin Process
  BY Sorts
<1>2. /\ work[c] \in Task /\ work[c].at = "set_running" /\ work[c].op = "prompt"
      /\ work[c].proc \in Process
  BY <1>1, Where DEF PromptRunning, Early
<1> DEFINE t == [work[c] EXCEPT !.pid = runtime_process_id(work[c].proc), !.at = "snapshot"]
<1>3. /\ t \in Task /\ t.op = "prompt" /\ t.at = "snapshot" /\ t.proc \in Process
  BY <1>2 DEF Task, runtime_process_id, Label
<1>4. Open(c) => work' = [work EXCEPT ![c] = t] /\ UNCHANGED lock
  BY DEF PromptRunning
<1> HIDE DEF t
<1>5. GoodTask(c, t)
  BY <1>1, <1>3 DEF GoodTask, ConnectionAt, Persisting
<1>6. TaskStep(c)
  <2>1. CASE Open(c)
    BY <1>1, <1>2, <1>3, <1>4, <1>5, <2>1, SetStep DEF Launching
  <2>2. CASE ~Open(c)
    BY <1>1, <2>2, ReturnStep DEF PromptRunning
  <2> QED BY <2>1, <2>2
<1>7. "running" \in Lifecycle /\ (SetLifecycle("running") \/ UNCHANGED snapshot)
  BY DEF PromptRunning, Lifecycle
<1>8. snapshot' \in [lifecycle : Lifecycle, active_run : SUBSET Nat]
  BY <1>7, LifecycleStep
<1>9. record \in SUBSET Row
  BY DEF CoreInv, AgentOK
<1> QED BY <1>6, <1>8, <1>9 DEF LocalStep, PromptRunning, childVars, history

LEMMA RequestStepLocal ==
    ASSUME CoreInv, NEW c \in Connection,
           RequestOk(c) \/ RequestRefused(c) \/ RequestFails(c)
    PROVE  LocalStep(c)
<1>1. c \in Worker /\ c # Main /\ c \notin Process
  BY Sorts
<1>2. /\ work[c] \in Task /\ work[c].at = "request" /\ work[c].at \notin Early
      /\ work[c].op \in {"prompt", "steer", "abort"} /\ work[c].proc \in Process
  BY <1>1, Where DEF RequestOk, RequestRefused, RequestFails, Early
<1>3. /\ UNCHANGED <<registered, instances, snapshot, runtimes, process, feed, record, inputs, since>>
  BY DEF RequestOk, RequestRefused, RequestFails, childVars, history
<1>4. /\ snapshot' \in [lifecycle : Lifecycle, active_run : SUBSET Nat] /\ record' \in SUBSET Row
  BY <1>3 DEF CoreInv, AgentOK
<1>5. CASE Return(c)
  BY <1>1, <1>3, <1>4, <1>5, ReturnStep DEF LocalStep
<1>6. CASE work[c].op = "abort" /\ Go(c, "read_run") /\ UNCHANGED lock
  <2>1. TaskStep(c)
    BY <1>1, <1>2, <1>6, GoLocal DEF ConnectionAt, Label, Ending
  <2> QED BY <1>3, <1>4, <2>1 DEF LocalStep
<1>7. CASE /\ work[c].op = "prompt" /\ UNCHANGED lock
           /\ work' = [work EXCEPT ![c].op = "fail", ![c].at = "read_run"]
  <2> DEFINE t == [work[c] EXCEPT !.op = "fail", !.at = "read_run"]
  <2>1. t \in Task /\ t.op = "fail" /\ t.at = "read_run" /\ t.proc \in Process
    BY <1>2 DEF Task, Label
  <2>2. work' = [work EXCEPT ![c] = t]
    BY <1>7
  <2> HIDE DEF t
  <2>3. GoodTask(c, t)
    BY <1>1, <2>1 DEF GoodTask, ConnectionAt, Ending
  <2>4. TaskStep(c)
    BY <1>1, <1>2, <1>7, <2>1, <2>2, <2>3, SetStep DEF Launching
  <2> QED BY <1>3, <1>4, <2>4 DEF LocalStep
<1> QED BY <1>5, <1>6, <1>7 DEF RequestOk, RequestRefused, RequestFails

LEMMA FindRuntimeStep ==
    ASSUME CoreInv, NEW c \in Connection, FindRuntime(c)
    PROVE  LocalStep(c)
<1>1. c \in Worker /\ c # Main /\ c \notin Process
  BY Sorts
<1>2. work[c] \in Task /\ work[c].at = "find" /\ work[c].op \in {"prompt", "steer", "abort"}
  BY <1>1, Where DEF FindRuntime
<1>3. /\ UNCHANGED <<registered, instances, snapshot, runtimes, process, feed, record, inputs, since>>
  BY DEF FindRuntime, childVars, history
<1>4. /\ snapshot' \in [lifecycle : Lifecycle, active_run : SUBSET Nat] /\ record' \in SUBSET Row
  BY <1>3 DEF CoreInv, AgentOK
<1>5. CASE runtimes = {} \/ (work[c].op = "prompt" /\ registered = 0)
  <2>1. Return(c)
    BY <1>5 DEF FindRuntime
  <2> QED BY <1>1, <1>3, <1>4, <2>1, ReturnStep DEF LocalStep
<1>6. CASE ~(runtimes = {} \/ (work[c].op = "prompt" /\ registered = 0))
  <2> DEFINE p == CHOOSE p \in runtimes : TRUE
             i == IF work[c].op = "prompt" THEN registered ELSE 0
             r == IF work[c].op = "prompt" THEN {inputs} ELSE {}
             l == IF work[c].op = "prompt" THEN "upsert" ELSE "request"
             t == [work[c] EXCEPT !.proc = p, !.inst = i, !.run = r, !.at = l]
  <2>1. p \in Process /\ p \in 0 .. MaxProcess
    <3>1. runtimes # {} /\ runtimes \subseteq Process
      BY <1>6 DEF CoreInv, MapOK
    <3> QED BY <3>1, Sorts
  <2>2. i \in Nat /\ r \in SUBSET Nat
    BY DEF CoreInv, AgentOK, BornOK
  <2>3. l \in Label /\ l \notin Early /\ ConnectionAt(work[c].op, l) /\ l # "write"
    BY <1>2 DEF ConnectionAt, Label, Early
  <2>4. work' = [work EXCEPT ![c] = t] /\ UNCHANGED lock
    BY <1>6 DEF FindRuntime
  <2> HIDE DEF p, i, r, l
  <2>5. t \in Task /\ t.op = work[c].op /\ t.at = l /\ t.proc = p
    BY <1>2, <2>1, <2>2, <2>3 DEF Task
  <2> HIDE DEF t
  <2>6. GoodTask(c, t)
    BY <1>1, <2>1, <2>3, <2>5 DEF GoodTask
  <2>7. TaskStep(c)
    BY <1>1, <1>2, <2>4, <2>5, <2>6, SetStep DEF Launching
  <2> QED BY <1>3, <1>4, <2>7 DEF LocalStep
<1> QED BY <1>5, <1>6

\* Where the end of a run goes on.
LEMMA SkipStep ==
    ASSUME CoreInv, NEW w \in Worker, work[w].at \in Ending, Skip(w)
    PROVE  TaskStep(w)
<1>1. /\ work[w].at \notin Early /\ work[w].op \in {"abort", "fail", "agent_end"} /\ w # Main
      /\ work[w].op \in {"abort", "fail"} => w \in Connection
      /\ work[w].op = "agent_end" => w \in Process
  BY Where DEF Ending, Early
<1>2. CASE work[w].op = "abort"
  BY <1>2, ReturnStep DEF Skip
<1>3. CASE work[w].op # "abort"
  <2>1. Go(w, "set_idle") /\ UNCHANGED lock
    BY <1>3 DEF Skip
  <2>2. /\ w \in Connection => ConnectionAt(work[w].op, "set_idle")
        /\ w \in Process => BridgeAt(work[w].op, "set_idle")
    BY <1>1, <1>3, Sorts DEF ConnectionAt, BridgeAt
  <2>3. "set_idle" \in Label
    BY DEF Label
  <2> QED BY <1>1, <2>1, <2>2, <2>3, GoLocal
<1> QED BY <1>2, <1>3

LEMMA ReadRunStep ==
    ASSUME CoreInv, NEW w \in Worker, ReadRun(w)
    PROVE  LocalStep(w)
<1>2. /\ work[w] \in Task /\ work[w].at = "read_run" /\ work[w].proc \in Process
      /\ work[w].op \in {"abort", "fail", "agent_end"} /\ w # Main
      /\ work[w].op \in {"abort", "fail"} => w \in Connection
      /\ work[w].op = "agent_end" => w \in Process
  BY Where DEF ReadRun, Early, Ending
<1>3. /\ UNCHANGED <<registered, instances, snapshot, runtimes, process, feed, record, inputs, since>>
  BY DEF ReadRun, childVars, history
<1>4. /\ snapshot' \in [lifecycle : Lifecycle, active_run : SUBSET Nat] /\ record' \in SUBSET Row
      /\ snapshot.active_run \in SUBSET Nat
  BY <1>3 DEF CoreInv, AgentOK
<1>5. CASE Skip(w)
  BY <1>2, <1>3, <1>4, <1>5, SkipStep DEF LocalStep, Ending
<1>6. CASE ~Skip(w)
  <2> DEFINE t == [work[w] EXCEPT !.run = snapshot.active_run, !.at = "finish_run"]
  <2>1. t \in Task /\ t.op = work[w].op /\ t.at = "finish_run" /\ t.proc \in Process
    BY <1>2, <1>4 DEF Task, Label
  <2>2. work' = [work EXCEPT ![w] = t] /\ UNCHANGED lock
    BY <1>6 DEF ReadRun
  <2> HIDE DEF t
  <2>3. /\ w \in Connection => ConnectionAt(work[w].op, "finish_run")
        /\ w \in Process => BridgeAt(work[w].op, "finish_run")
    BY <1>2, Sorts DEF ConnectionAt, BridgeAt, Ending
  <2>4. GoodTask(w, t)
    BY <1>2, <2>1, <2>3 DEF GoodTask
  <2>5. TaskStep(w)
    BY <1>2, <2>1, <2>2, <2>4, SetStep DEF Launching
  <2> QED BY <1>3, <1>4, <2>5 DEF LocalStep
<1> QED BY <1>5, <1>6

LEMMA FinishRunStep ==
    ASSUME CoreInv, NEW w \in Worker, FinishRun(w)
    PROVE  LocalStep(w)
<1>1. TaskStep(w)
  BY SkipStep DEF FinishRun, Ending
<1>2. snapshot' \in [lifecycle : Lifecycle, active_run : SUBSET Nat]
  BY DEF FinishRun, CoreInv, AgentOK
<1>3. record \in SUBSET Row
  BY DEF CoreInv, AgentOK
<1> QED BY <1>1, <1>2, <1>3 DEF FinishRun, LocalStep, childVars, history

LEMMA SetIdleStep ==
    ASSUME CoreInv, NEW w \in Worker, SetIdle(w)
    PROVE  LocalStep(w)
<1>1. /\ work[w] \in Task /\ work[w].at = "set_idle" /\ work[w].proc \in Process
      /\ work[w].op \in {"fail", "agent_end"} /\ w # Main
      /\ work[w].op = "fail" => w \in Connection
      /\ work[w].op = "agent_end" => w \in Process
  BY Where DEF SetIdle, Early
<1> DEFINE pid == IF w \in Process THEN work[w].pid ELSE {}
           t == [work[w] EXCEPT !.pid = pid, !.run = {}, !.at = "snapshot"]
<1>2. pid \in SUBSET Process
  BY <1>1 DEF Task
<1>3. work' = [work EXCEPT ![w] = t] /\ UNCHANGED lock
  BY DEF SetIdle
<1> HIDE DEF pid
<1>4. t \in Task /\ t.op = work[w].op /\ t.at = "snapshot" /\ t.proc \in Process
  BY <1>1, <1>2 DEF Task, Label
<1> HIDE DEF t
<1>5. /\ w \in Connection => ConnectionAt(work[w].op, "snapshot")
      /\ w \in Process => BridgeAt(work[w].op, "snapshot")
  BY <1>1, Sorts DEF ConnectionAt, BridgeAt, Persisting
<1>6. GoodTask(w, t)
  BY <1>1, <1>4, <1>5 DEF GoodTask
<1>7. TaskStep(w)
  BY <1>1, <1>3, <1>4, <1>6, SetStep DEF Launching
<1>8. "idle" \in Lifecycle /\ (SetLifecycle("idle") \/ UNCHANGED snapshot)
  BY DEF SetIdle, Lifecycle
<1>9. snapshot' \in [lifecycle : Lifecycle, active_run : SUBSET Nat]
  BY <1>8, LifecycleStep
<1>10. record \in SUBSET Row
  BY DEF CoreInv, AgentOK
<1> QED BY <1>7, <1>9, <1>10 DEF SetIdle, LocalStep, childVars, history

\* Where the operations go on once the row has been written.
LEMMA AfterPersistLabel ==
    ASSUME CoreInv, NEW w \in Worker, work[w].at \in Persisting,
           work[w].op \notin {"fail", "exit"}
    PROVE  LET label == AfterPersist(work[w].op)
           IN /\ label \in {"install", "remove", "request", "recv", "down"}
              /\ w \in Connection => ConnectionAt(work[w].op, label)
              /\ w \in Process => BridgeAt(work[w].op, label)
              /\ w = Main => MainAt(work[w].op, label)
              /\ work[w].op = "launch" => label = "install"
              /\ work[w].op \in {"stop", "switch"} => label = "remove"
              /\ w = Main => label = "down"
<1>1. CASE w \in Connection /\ work[w].op = "launch"
  <2>1. AfterPersist(work[w].op) = "install"
    BY <1>1 DEF AfterPersist
  <2> QED BY <1>1, <2>1, Sorts DEF ConnectionAt
<1>2. CASE w \in Connection /\ work[w].op \in {"stop", "switch"}
  <2>1. AfterPersist(work[w].op) = "remove"
    BY <1>2 DEF AfterPersist
  <2> QED BY <1>2, <2>1, Sorts DEF ConnectionAt
<1>3. CASE w \in Connection /\ work[w].op = "prompt"
  <2>1. AfterPersist(work[w].op) = "request"
    BY <1>3 DEF AfterPersist
  <2> QED BY <1>3, <2>1, Sorts DEF ConnectionAt
<1>4. CASE w \in Process /\ work[w].op = "agent_end"
  <2>1. AfterPersist(work[w].op) = "recv"
    BY <1>4 DEF AfterPersist
  <2> QED BY <1>4, <2>1, Sorts DEF BridgeAt
<1>5. CASE w = Main /\ work[w].op = "shutdown"
  <2>1. AfterPersist(work[w].op) = "down"
    BY <1>5 DEF AfterPersist
  <2> QED BY <1>5, <2>1, Sorts DEF MainAt
<1> QED BY <1>1, <1>2, <1>3, <1>4, <1>5, Where

LEMMA PersistReadStep ==
    ASSUME CoreInv, NEW w \in Worker, PersistRead(w)
    PROVE  LocalStep(w)
<1>1. /\ work[w] \in Task /\ work[w].at = "snapshot" /\ work[w].at \in Persisting
      /\ work[w].proc \in Process /\ work[w].at \notin Early /\ GoodTask(w, work[w])
  BY Where DEF PersistRead, Early, Persisting
<1>2. /\ UNCHANGED <<registered, instances, snapshot, runtimes, process, feed, record, inputs, since>>
  BY DEF PersistRead, childVars, history
<1>3. /\ snapshot' \in [lifecycle : Lifecycle, active_run : SUBSET Nat] /\ record' \in SUBSET Row
      /\ snapshot.lifecycle \in Lifecycle
  BY <1>2 DEF CoreInv, AgentOK
<1>4. CASE Open(w)
  <2> DEFINE t == [work[w] EXCEPT !.seen = snapshot.lifecycle, !.at = "write"]
  <2>1. /\ t \in Task /\ t.op = work[w].op /\ t.at = "write" /\ t.proc \in Process
        /\ t.seen \in Lifecycle
    BY <1>1, <1>3 DEF Task, Label
  <2>2. work' = [work EXCEPT ![w] = t] /\ UNCHANGED lock
    BY <1>4 DEF PersistRead
  <2> HIDE DEF t
  <2>3. /\ w \in Connection => ConnectionAt(work[w].op, "write")
        /\ w \in Process => BridgeAt(work[w].op, "write")
        /\ w = Main => MainAt(work[w].op, "write")
    BY <1>1 DEF GoodTask, ConnectionAt, BridgeAt, MainAt, Persisting, Ending
  <2>4. GoodTask(w, t)
    BY <2>1, <2>3 DEF GoodTask
  <2>5. TaskStep(w)
    BY <1>1, <2>1, <2>2, <2>4, SetStep DEF Launching
  <2> QED BY <1>2, <1>3, <2>5 DEF LocalStep
<1>5. CASE ~Open(w)
  <2>1. PersistFails(w)
    BY <1>5 DEF PersistRead
  <2>2. CASE Return(w)
    BY <1>2, <1>3, <2>2, ReturnStep DEF LocalStep
  <2>3. CASE ~(w \in Connection \/ work[w].op = "exit")
    <3>1. Go(w, AfterPersist(work[w].op)) /\ UNCHANGED lock
      BY <2>1, <2>3 DEF PersistFails
    <3>2. work[w].op \notin {"fail", "exit"}
      BY <2>3, Where
    <3>3. /\ AfterPersist(work[w].op) \in Label
          /\ AfterPersist(work[w].op) \notin {"write", "lock"}
          /\ w \in Process => BridgeAt(work[w].op, AfterPersist(work[w].op))
          /\ w = Main => MainAt(work[w].op, AfterPersist(work[w].op))
      BY <1>1, <3>2, AfterPersistLabel DEF Label
    <3>4. TaskStep(w)
      BY <1>1, <2>3, <3>1, <3>3, GoLocal
    <3> QED BY <1>2, <1>3, <3>4 DEF LocalStep
  <2> QED BY <2>1, <2>2, <2>3 DEF PersistFails
<1> QED BY <1>4, <1>5

LEMMA PersistWriteStep ==
    ASSUME CoreInv, NEW w \in Worker, PersistWrite(w)
    PROVE  LocalStep(w)
<1>1. /\ work[w] \in Task /\ work[w].at = "write" /\ work[w].at \in Persisting
      /\ work[w].proc \in Process /\ GoodTask(w, work[w])
  BY Where DEF PersistWrite, Early, Persisting
<1>2. /\ UNCHANGED <<registered, instances, snapshot, runtimes, process, feed, inputs, since>>
  BY DEF PersistWrite, childVars, history
<1>3. snapshot' \in [lifecycle : Lifecycle, active_run : SUBSET Nat]
  BY <1>2 DEF CoreInv, AgentOK
<1>4. record' \in SUBSET Row
  <2>1. /\ work[w].seen \in Lifecycle /\ work[w].pid \in SUBSET Process
        /\ work[w].run \in SUBSET Nat
    BY <1>1 DEF GoodTask, Task
  <2> QED BY <2>1 DEF PersistWrite, Row
<1>5. CASE work[w].op \in {"fail", "exit"}
  BY <1>2, <1>3, <1>4, <1>5, ReturnStep DEF LocalStep, PersistWrite
<1>6. CASE work[w].op \notin {"fail", "exit"}
  <2> DEFINE l == AfterPersist(work[w].op)
             t == [work[w] EXCEPT !.seen = "none", !.run = {}, !.at = l]
  <2>1. work' = [work EXCEPT ![w] = t] /\ UNCHANGED lock
    BY <1>6 DEF PersistWrite
  <2>2. /\ l \in Label /\ l \notin {"write", "lock"}
        /\ w \in Connection => ConnectionAt(work[w].op, l)
        /\ w \in Process => BridgeAt(work[w].op, l)
        /\ w = Main => MainAt(work[w].op, l)
    BY <1>1, <1>6, AfterPersistLabel DEF Label
  <2> HIDE DEF l
  <2>3. /\ t \in Task /\ t.op = work[w].op /\ t.at = l /\ t.proc \in Process
    BY <1>1, <2>2 DEF Task
  <2> HIDE DEF t
  <2>4. GoodTask(w, t)
    BY <2>2, <2>3 DEF GoodTask
  <2>5. TaskStep(w)
    BY <1>1, <2>1, <2>2, <2>3, <2>4, SetStep DEF Launching
  <2> QED BY <1>2, <1>3, <1>4, <2>5 DEF LocalStep
<1> QED BY <1>5, <1>6

LEMMA LaunchIdleStep ==
    ASSUME CoreInv, NEW c \in Connection, LaunchIdle(c)
    PROVE  LocalStep(c)
<1>1. c \in Worker /\ c # Main /\ c \notin Process
  BY Sorts
<1>2. work[c].at = "launch_idle" /\ work[c].op = "launch" /\ work[c].at \notin Early
  BY <1>1, Where DEF LaunchIdle, Early
<1>3. TaskStep(c)
  <2>1. CASE Open(c)
    BY <1>1, <1>2, <2>1, GoLocal DEF LaunchIdle, ConnectionAt, Label
  <2>2. CASE ~Open(c)
    BY <1>1, <2>2, ReturnStep DEF LaunchIdle
  <2> QED BY <2>1, <2>2
<1>4. "idle" \in Lifecycle /\ (SetLifecycle("idle") \/ UNCHANGED snapshot)
  BY DEF LaunchIdle, Lifecycle
<1>5. snapshot' \in [lifecycle : Lifecycle, active_run : SUBSET Nat]
  BY <1>4, LifecycleStep
<1>6. record \in SUBSET Row
  BY DEF CoreInv, AgentOK
<1> QED BY <1>3, <1>5, <1>6 DEF LocalStep, LaunchIdle, childVars, history

LEMMA LaunchStateStep ==
    ASSUME CoreInv, NEW c \in Connection, LaunchState(c)
    PROVE  LocalStep(c)
<1>1. c \in Worker /\ c # Main /\ c \notin Process
  BY Sorts
<1>2. /\ work[c] \in Task /\ work[c].at = "get_state" /\ work[c].op = "launch"
      /\ work[c].proc \in Process
  BY <1>1, Where DEF LaunchState, Early
<1>3. /\ UNCHANGED <<registered, instances, snapshot, runtimes, process, feed, record, inputs, since>>
  BY DEF LaunchState, childVars, history
<1>4. /\ snapshot' \in [lifecycle : Lifecycle, active_run : SUBSET Nat] /\ record' \in SUBSET Row
  BY <1>3 DEF CoreInv, AgentOK
<1>5. CASE Return(c)
  BY <1>1, <1>3, <1>4, <1>5, ReturnStep DEF LocalStep
<1>6. CASE ~Return(c)
  <2> DEFINE t == [work[c] EXCEPT !.pid = runtime_process_id(work[c].proc), !.at = "snapshot"]
  <2>1. t \in Task /\ t.op = "launch" /\ t.at = "snapshot" /\ t.proc \in Process
    BY <1>2 DEF Task, runtime_process_id, Label
  <2>2. work' = [work EXCEPT ![c] = t] /\ UNCHANGED lock
    BY <1>6 DEF LaunchState
  <2> HIDE DEF t
  <2>3. GoodTask(c, t)
    BY <1>1, <2>1 DEF GoodTask, ConnectionAt, Persisting
  <2>4. TaskStep(c)
    BY <1>1, <1>2, <2>1, <2>2, <2>3, SetStep DEF Launching
  <2> QED BY <1>3, <1>4, <2>4 DEF LocalStep
<1> QED BY <1>5, <1>6

LEMMA SpawnFailsStep ==
    ASSUME CoreInv, NEW c \in Connection, SpawnFails(c)
    PROVE  LocalStep(c)
<1>1. c \in Worker
  BY Sorts
<1>2. TaskStep(c)
  BY <1>1, ReturnStep DEF SpawnFails
<1>3. snapshot \in [lifecycle : Lifecycle, active_run : SUBSET Nat] /\ record \in SUBSET Row
  BY DEF CoreInv, AgentOK
<1> QED BY <1>2, <1>3 DEF LocalStep, SpawnFails, childVars, history

\* The steps of stop and shutdown that tell the actor.
LEMMA TellActorStep ==
    ASSUME CoreInv, NEW w \in Worker, NEW lifecycle \in Lifecycle, NEW label \in Label,
           TellActor(w, lifecycle, label),
           work[w].at \in {"set_stopping", "set_stopped", "set_failed"},
           w \notin Process, label \notin {"write", "lock"},
           w \in Connection => ConnectionAt(work[w].op, label),
           w = Main => MainAt(work[w].op, label)
    PROVE  LocalStep(w)
<1>1. work[w].at \notin Early
  BY DEF Early
<1>2. TaskStep(w)
  <2>1. CASE Open(w) \/ w = Main
    BY <1>1, <2>1, GoLocal DEF TellActor
  <2>2. CASE ~(Open(w) \/ w = Main)
    BY <2>2, ReturnStep DEF TellActor
  <2> QED BY <2>1, <2>2
<1>3. snapshot' \in [lifecycle : Lifecycle, active_run : SUBSET Nat]
  BY LifecycleStep DEF TellActor
<1>4. record \in SUBSET Row
  BY DEF CoreInv, AgentOK
<1> QED BY <1>2, <1>3, <1>4 DEF LocalStep, TellActor, childVars, history

LEMMA StopSteps ==
    ASSUME CoreInv, NEW w \in Worker,
           SetStopping(w) \/ ShutdownReturns(w) \/ SetStopped(w) \/ (w = Main /\ SetFailed)
    PROVE  LocalStep(w)
<1>1. /\ w \notin Process /\ work[w].at \notin Early
      /\ work[w].op \in {"stop", "switch", "shutdown"}
      /\ work[w].op = "shutdown" => w = Main
      /\ work[w].op \in {"stop", "switch"} => w \in Connection
  <2>1. CASE work[w].at \in {"set_stopping", "shutdown", "set_stopped"}
    BY <2>1, Where DEF Early
  <2>2. CASE w = Main /\ work[w].at = "set_failed"
    <3>1. MainAt(work[w].op, work[w].at)
      BY <2>2, Where DEF GoodTask
    <3> QED BY <2>2, <3>1, Sorts DEF MainAt, Early
  <2> QED BY <2>1, <2>2 DEF SetStopping, ShutdownReturns, SetStopped, SetFailed
<1>2. w \in Connection => w # Main /\ work[w].op \in {"stop", "switch"}
  BY <1>1, Sorts
<1>3. {"stopping", "stopped", "failed"} \subseteq Lifecycle
  BY DEF Lifecycle
<1>4. {"shutdown", "snapshot", "set_stopped", "set_failed"} \subseteq Label
  BY DEF Label
<1>5. CASE SetStopping(w)
  <2>1. TellActor(w, "stopping", "shutdown") /\ work[w].at = "set_stopping"
    BY <1>5 DEF SetStopping
  <2>2. /\ w \in Connection => ConnectionAt(work[w].op, "shutdown")
        /\ w = Main => MainAt(work[w].op, "shutdown")
    BY <1>1, <1>2, Sorts, Where DEF ConnectionAt, MainAt
  <2> QED BY <1>1, <1>3, <1>4, <2>1, <2>2, TellActorStep
<1>6. CASE SetStopped(w)
  <2>1. TellActor(w, "stopped", "snapshot") /\ work[w].at = "set_stopped"
    BY <1>6 DEF SetStopped
  <2>2. /\ w \in Connection => ConnectionAt(work[w].op, "snapshot")
        /\ w = Main => MainAt(work[w].op, "snapshot")
    BY <1>1, <1>2, Sorts, Where DEF ConnectionAt, MainAt, Persisting
  <2> QED BY <1>1, <1>3, <1>4, <2>1, <2>2, TellActorStep
<1>7. CASE w = Main /\ SetFailed
  <2>1. TellActor(w, "failed", "snapshot") /\ work[w].at = "set_failed"
    BY <1>7 DEF SetFailed
  <2>2. w \notin Connection /\ MainAt(work[w].op, "snapshot")
    BY <1>1, <1>7, Sorts, Where DEF MainAt, Persisting
  <2> QED BY <1>1, <1>3, <1>4, <2>1, <2>2, TellActorStep
<1>8. CASE ShutdownReturns(w)
  <2>1. work[w].at = "shutdown"
    BY <1>8 DEF ShutdownReturns
  <2>2. /\ w \in Connection => ConnectionAt(work[w].op, "set_stopped")
        /\ w = Main => MainAt(work[w].op, "set_stopped") /\ MainAt(work[w].op, "set_failed")
    BY <1>1, <1>2, Sorts, Where DEF ConnectionAt, MainAt
  <2>3. \/ Go(w, "set_stopped") /\ UNCHANGED lock
        \/ w = Main /\ Go(w, "set_failed") /\ UNCHANGED lock
        \/ Return(w)
    BY <1>8 DEF ShutdownReturns
  <2>4. TaskStep(w)
    <3>1. CASE Go(w, "set_stopped") /\ UNCHANGED lock
      BY <1>1, <1>4, <2>2, <3>1, GoLocal
    <3>2. CASE w = Main /\ Go(w, "set_failed") /\ UNCHANGED lock
      BY <1>1, <1>4, <2>2, <3>2, GoLocal, Sorts
    <3>3. CASE Return(w)
      BY <3>3, ReturnStep
    <3> QED BY <2>3, <3>1, <3>2, <3>3
  <2>5. snapshot \in [lifecycle : Lifecycle, active_run : SUBSET Nat] /\ record \in SUBSET Row
    BY DEF CoreInv, AgentOK
  <2> QED BY <1>8, <2>4, <2>5 DEF LocalStep, ShutdownReturns, childVars, history
<1> QED BY <1>5, <1>6, <1>7, <1>8

-----------------------------------------------------------------------------
\* The other steps.

LEMMA BeginStep ==
    ASSUME CoreInv, GhostInv, NEW c \in Connection, NEW op \in Operation, Begin(c, op)
    PROVE  CoreInv' /\ GhostInv' /\ TaskStep(c)
<1>1. c \in Worker /\ c # Main /\ c \notin Process
  BY Sorts
<1>2. work[c].at = "idle" /\ GoodTask(c, work[c])
  BY <1>1, Where DEF Begin
<1>3. ~Launching(c)
  BY <1>1, <1>2 DEF GoodTask, ConnectionAt, Launching, Ending, Persisting
<1> DEFINE l == FirstLabel(op)
           t == [NoWork EXCEPT !.op = op, !.at = l]
<1>4. /\ l \in {"lock", "take", "find"} /\ ConnectionAt(op, l)
      /\ op = "launch" => l = "lock"
  BY DEF FirstLabel, Operation, ConnectionAt
<1>5. work' = [work EXCEPT ![c] = t] /\ UNCHANGED lock
  BY DEF Begin, daemonVars
<1>6. UNCHANGED <<registered, instances, snapshot, runtimes, process, feed, record, since>>
  BY DEF Begin, daemonVars, childVars
<1> HIDE DEF l
<1>7. t \in Task /\ t.op = op /\ t.at = l
  <2>1. NoWork \in Task
    BY NoWorkGood DEF GoodTask
  <2> QED BY <1>4, <2>1 DEF Task, Label
<1> HIDE DEF t
<1>8. GoodTask(c, t)
  BY <1>1, <1>4, <1>7 DEF GoodTask, Early
<1>9. TaskStep(c) /\ work'[c] = t
  BY <1>1, <1>3, <1>4, <1>5, <1>7, <1>8, SetStep
<1>10. work' \in [Worker -> Task] /\ \A x \in Worker : TaskInv(x)'
  BY <1>1, <1>9, TasksKept
<1>11. inputs' \in Nat
  BY DEF Begin, Input, CoreInv, BornOK
<1>12. AgentOK' /\ ChildrenOK' /\ MapOK' /\ BornOK'
  BY <1>5, <1>6, <1>11 DEF CoreInv, AgentOK, ChildrenOK, MapOK, BornOK
<1>13. \A w \in Worker : work[w].at \in Early => work'[w].at \in Early
  BY <1>4, <1>5, <1>7, <1>9 DEF Early, CoreInv
<1>14. GhostInv'
  BY <1>6, <1>13 DEF GhostInv, Fresh
<1> QED BY <1>9, <1>10, <1>12, <1>14 DEF CoreInv

LEMMA TerminateStep ==
    ASSUME CoreInv, GhostInv, Terminate
    PROVE  CoreInv' /\ GhostInv' /\ TaskStep(Main) /\ work'[Main].at = "take"
<1>1. Main \in Worker /\ Main \notin Connection /\ Main \notin Process
  BY Sorts
<1>2. /\ work[Main] \in Task /\ work[Main].at = "idle" /\ GoodTask(Main, work[Main])
      /\ Main \in lock <=> Launching(Main)
  BY <1>1, Where DEF Terminate
<1>3. ~Launching(Main)
  BY <1>2 DEF GoodTask, MainAt, Launching
<1> DEFINE t == [work[Main] EXCEPT !.op = "shutdown", !.at = "take"]
<1>4. work' = [work EXCEPT ![Main] = t] /\ UNCHANGED lock
  BY DEF Terminate, daemonVars
<1>5. t \in Task /\ t.op = "shutdown" /\ t.at = "take"
  BY <1>2 DEF Task, Label
<1>6. UNCHANGED <<registered, instances, snapshot, runtimes, process, feed, record, since>>
  BY DEF Terminate, daemonVars, childVars
<1> HIDE DEF t
<1>7. GoodTask(Main, t)
  BY <1>1, <1>5 DEF GoodTask, MainAt, Early
<1>8. TaskStep(Main) /\ work'[Main] = t
  BY <1>1, <1>3, <1>4, <1>5, <1>7, SetStep
<1>9. work' \in [Worker -> Task] /\ \A x \in Worker : TaskInv(x)'
  BY <1>1, <1>8, TasksKept
<1>10. inputs' \in Nat
  BY DEF Terminate, Input, CoreInv, BornOK
<1>11. AgentOK' /\ ChildrenOK' /\ MapOK' /\ BornOK'
  BY <1>4, <1>6, <1>10 DEF CoreInv, AgentOK, ChildrenOK, MapOK, BornOK
<1>12. \A w \in Worker : work[w].at \in Early => work'[w].at \in Early
  BY <1>4, <1>5, <1>8 DEF Early, CoreInv
<1>13. GhostInv'
  BY <1>6, <1>12 DEF GhostInv, Fresh
<1> QED BY <1>5, <1>8, <1>9, <1>11, <1>13 DEF CoreInv

LEMMA LaunchLockStep ==
    ASSUME CoreInv, GhostInv, NEW c \in Connection, LaunchLock(c)
    PROVE  CoreInv' /\ GhostInv'
<1>1. c \in Worker /\ c # Main /\ c \notin Process
  BY Sorts
<1>2. /\ work[c] \in Task /\ work[c].at = "lock" /\ work[c].op = "launch" /\ lock = {}
  BY <1>1, Where DEF LaunchLock
<1>3. UNCHANGED <<registered, instances, snapshot, process, feed, record, inputs, since>>
  BY DEF LaunchLock, childVars, history
<1>4. AgentOK' /\ ChildrenOK' /\ BornOK'
  BY <1>3 DEF CoreInv, AgentOK, ChildrenOK, BornOK
<1>5. CASE \E p \in runtimes : Running(p)
  <2>1. Return(c) /\ UNCHANGED runtimes
    BY <1>5 DEF LaunchLock
  <2>2. TaskStep(c) /\ work'[c] = NoWork
    BY <1>1, <2>1, ReturnStep
  <2>3. work' \in [Worker -> Task] /\ \A x \in Worker : TaskInv(x)'
    BY <1>1, <2>2, TasksKept
  <2>4. MapOK'
    BY <1>2, <2>1 DEF Return, CoreInv, MapOK
  <2>5. \A w \in Worker : work[w].at \in Early => work'[w].at \in Early
    BY <2>2, NoWorkGood DEF TaskStep, Early, CoreInv
  <2>6. GhostInv'
    BY <1>3, <2>1, <2>5 DEF GhostInv, Fresh
  <2> QED BY <1>4, <2>3, <2>4, <2>6 DEF CoreInv
<1>6. CASE ~\E p \in runtimes : Running(p)
  <2>1. runtimes' = {} /\ lock' = {c} /\ Go(c, "spawn")
    BY <1>6 DEF LaunchLock
  <2> DEFINE t == [work[c] EXCEPT !.at = "spawn"]
  <2>2. t \in Task /\ t.op = "launch" /\ t.at = "spawn"
    BY <1>2 DEF Task, Label
  <2>3. work' = [work EXCEPT ![c] = t]
    BY <2>1 DEF Go
  <2> HIDE DEF t
  <2>4. work' \in [Worker -> Task] /\ work'[c] = t /\ \A x \in Worker \ {c} : work'[x] = work[x]
    BY <1>1, <2>2, <2>3 DEF CoreInv
  <2>5. GoodTask(c, t)
    BY <1>1, <2>2 DEF GoodTask, ConnectionAt, Early
  <2>6. TaskInv(c)'
    BY <2>1, <2>2, <2>4, <2>5 DEF TaskInv, GoodTask, Launching
  <2>7. ASSUME NEW x \in Worker, x # c PROVE TaskInv(x)'
    <3>1. TaskInv(x) /\ work'[x] = work[x] /\ x \notin lock /\ x \notin lock'
      BY <1>2, <2>1, <2>4, <2>7 DEF CoreInv
    <3> QED BY <3>1 DEF TaskInv, GoodTask, Launching
  <2>8. MapOK'
    BY <2>1 DEF MapOK
  <2>9. \A w \in Worker : work[w].at \in Early => work'[w].at \in Early
    BY <2>2, <2>4 DEF Early
  <2>10. GhostInv'
    BY <1>3, <2>1, <2>9 DEF GhostInv, Fresh
  <2> QED BY <1>4, <2>4, <2>6, <2>7, <2>8, <2>10 DEF CoreInv
<1> QED BY <1>5, <1>6

\* Processes are spawned in order.
LEMMA SpawnChoice ==
    ASSUME CoreInv, Unborn # {},
           NEW k \in 0 .. MaxProcess, \A p \in Process : process[p] # "unborn" <=> p <= k
    PROVE  /\ (CHOOSE q \in Unborn : \A r \in Unborn : q <= r) = k + 1
           /\ k + 1 \in Process /\ process[k + 1] = "unborn"
<1>1. \A p \in Process : p \in Unborn <=> p > k
  BY Sorts DEF Unborn
<1>2. Unborn \subseteq Process
  BY DEF Unborn
<1>3. k + 1 \in Process /\ k + 1 \in Unborn
  <2>1. PICK u \in Unborn : TRUE
    OBVIOUS
  <2>2. u \in 1 .. MaxProcess /\ u > k
    BY <1>1, <1>2, <2>1 DEF Process
  <2>3. k + 1 \in Process
    BY <2>2, Sorts DEF Process
  <2> QED BY <1>1, <2>3
<1>4. \A r \in Unborn : k + 1 <= r
  BY <1>1, <1>2, Sorts DEF Process
<1>5. \A q \in Unborn : (\A r \in Unborn : q <= r) => q = k + 1
  BY <1>2, <1>3, <1>4 DEF Process
<1> QED BY <1>3, <1>4, <1>5 DEF Unborn

LEMMA SpawnStep ==
    ASSUME CoreInv, NEW c \in Connection, Spawn(c)
    PROVE  /\ CoreInv' /\ GhostInv' /\ TaskStep(c)
           /\ \E p \in Process :
                /\ process[p] = "unborn" /\ process' = [process EXCEPT ![p] = "running"]
                /\ work'[c] = [work[c] EXCEPT !.proc = p, !.at = "agent"]
<1>1. c \in Worker /\ c # Main /\ c \notin Process
  BY Sorts
<1>2. work[c] \in Task /\ work[c].at = "spawn" /\ work[c].op = "launch"
  BY <1>1, Where DEF Spawn
<1>3. UNCHANGED <<registered, instances, snapshot, lock, runtimes, feed, record, inputs, since>>
  BY DEF Spawn, daemonVars, history
<1>4. PICK k \in 0 .. MaxProcess :
        /\ \A p \in Process : process[p] # "unborn" <=> p <= k
        /\ since <= k + 1
  BY DEF CoreInv, BornOK
<1>5. Unborn # {}
  BY DEF Spawn
<1>6. /\ (CHOOSE q \in Unborn : \A r \in Unborn : q <= r) = k + 1
      /\ k + 1 \in Process /\ process[k + 1] = "unborn"
  BY <1>4, <1>5, SpawnChoice
<1> DEFINE p == k + 1
           t == [work[c] EXCEPT !.proc = p, !.at = "agent"]
<1>7. process' = [process EXCEPT ![p] = "running"] /\ work' = [work EXCEPT ![c] = t]
  BY <1>6 DEF Spawn
<1>8. p \in Process /\ p \in 0 .. MaxProcess /\ p = k + 1
  BY <1>6, Sorts
<1> HIDE DEF p
<1>9. t \in Task /\ t.op = "launch" /\ t.at = "agent" /\ t.proc = p
  BY <1>2, <1>8 DEF Task, Label
<1>10. GoodTask(c, t)
  BY <1>1, <1>8, <1>9 DEF GoodTask, ConnectionAt
<1> HIDE DEF t
<1>11. TaskStep(c) /\ work'[c] = t
  BY <1>1, <1>2, <1>3, <1>7, <1>9, <1>10, SetStep DEF Launching
<1>12. work' \in [Worker -> Task] /\ \A x \in Worker : TaskInv(x)'
  BY <1>1, <1>11, TasksKept
<1>13. ChildrenOK'
  BY <1>3, <1>7 DEF CoreInv, ChildrenOK
<1>14. p \in 0 .. MaxProcess /\ \A q \in Process : process'[q] # "unborn" <=> q <= p
  <2>1. \A q \in Process : process'[q] = IF q = p THEN "running" ELSE process[q]
    BY <1>7 DEF CoreInv, ChildrenOK
  <2>2. \A q \in Process : q <= p <=> (q = p \/ q <= k)
    BY <1>8, Sorts
  <2> QED BY <1>4, <1>8, <2>1, <2>2
<1>15. BornOK'
  <2>1. since <= p + 1 /\ since \in Nat \ {0} /\ inputs \in Nat
    BY <1>4, <1>8 DEF CoreInv, BornOK
  <2> QED BY <1>3, <1>14, <2>1 DEF BornOK
<1>16. AgentOK' /\ MapOK'
  BY <1>3 DEF CoreInv, AgentOK, MapOK
<1>17. ~Fresh'
  <2>1. p \in Process /\ p >= since' /\ process'[p] # "unborn"
    BY <1>3, <1>4, <1>7, <1>8 DEF CoreInv, ChildrenOK, BornOK
  <2> QED BY <2>1 DEF Fresh
<1>18. process[p] = "unborn"
  BY <1>6, <1>8
<1> QED BY <1>7, <1>8, <1>11, <1>12, <1>13, <1>15, <1>16, <1>17, <1>18 DEF CoreInv, GhostInv, t

LEMMA LaunchAgentStep ==
    ASSUME CoreInv, NEW c \in Connection, LaunchAgent(c)
    PROVE  CoreInv' /\ TaskStep(c)
<1>1. c \in Worker /\ c # Main /\ c \notin Process
  BY Sorts
<1>2. work[c] \in Task /\ work[c].at = "agent" /\ work[c].op = "launch" /\ work[c].proc \in Process
  BY <1>1, Where DEF LaunchAgent, Early
<1>3. UNCHANGED <<lock, runtimes, process, feed, record, inputs, since>>
  BY DEF LaunchAgent, childVars, history
<1>4. AgentOK' /\ registered' \in Nat
  BY <1>3 DEF LaunchAgent, CoreInv, AgentOK, Initial, Lifecycle
<1> DEFINE t == [work[c] EXCEPT !.inst = registered', !.at = "launch_idle"]
<1>5. work' = [work EXCEPT ![c] = t]
  BY DEF LaunchAgent
<1>6. t \in Task /\ t.op = "launch" /\ t.at = "launch_idle" /\ t.proc \in Process
  BY <1>2, <1>4 DEF Task, Label
<1> HIDE DEF t
<1>7. GoodTask(c, t)
  BY <1>1, <1>6 DEF GoodTask, ConnectionAt
<1>8. TaskStep(c)
  BY <1>1, <1>2, <1>3, <1>5, <1>6, <1>7, SetStep DEF Launching
<1>9. work' \in [Worker -> Task] /\ \A x \in Worker : TaskInv(x)'
  BY <1>1, <1>8, TasksKept
<1>10. ChildrenOK' /\ MapOK' /\ BornOK'
  BY <1>3 DEF CoreInv, ChildrenOK, MapOK, BornOK
<1> QED BY <1>4, <1>8, <1>9, <1>10 DEF CoreInv

LEMMA InstallStep ==
    ASSUME CoreInv, NEW c \in Connection, Install(c)
    PROVE  /\ CoreInv' /\ work[c].proc \in Process
           /\ work'[c] = NoWork
           /\ \A x \in Worker \ {c, work[c].proc} : work'[x] = work[x]
<1>1. c \in Worker /\ c # Main /\ c \notin Process
  BY Sorts
<1>2. /\ work[c] \in Task /\ work[c].at = "install" /\ work[c].op = "launch"
      /\ work[c].proc \in Process /\ c \in lock
  BY <1>1, Where DEF Install, Early, Launching
<1>0. PICK p \in Process : p = work[c].proc
  BY <1>2
<1> DEFINE t == [work[c] EXCEPT !.op = "none", !.at = "recv"]
<1>3. /\ runtimes' = {p} /\ feed' = [feed EXCEPT ![p] = feed[p]]
      /\ work' = [work EXCEPT ![p] = t, ![c] = NoWork] /\ lock' = {}
      /\ UNCHANGED <<registered, instances, snapshot, process, record, inputs, since>>
  BY <1>0 DEF Install, FirstEvents, history
<1>4. t \in Task /\ t.op = "none" /\ t.at = "recv" /\ t.proc \in Process
  BY <1>2 DEF Task, Label
<1>5. p \in Process /\ p # c /\ p # Main /\ p \in Worker /\ p \notin Connection
  BY <1>0, <1>1, Sorts
<1>6. NoWork \in Task
  BY NoWorkGood DEF GoodTask
<1> HIDE DEF t
<1>7. /\ work' \in [Worker -> Task] /\ work'[p] = t /\ work'[c] = NoWork
      /\ \A x \in Worker \ {c, p} : work'[x] = work[x]
  BY <1>1, <1>3, <1>4, <1>5, <1>6 DEF CoreInv
<1>8. TaskInv(c)'
  BY <1>1, <1>3, <1>7, NoWorkGood DEF TaskInv, GoodTask, Launching
<1>9. GoodTask(p, t)
  BY <1>4, <1>5 DEF GoodTask, BridgeAt, Early
<1>10. TaskInv(p)'
  BY <1>3, <1>4, <1>7, <1>9 DEF TaskInv, GoodTask, Launching
<1>11. ASSUME NEW x \in Worker \ {c, p} PROVE TaskInv(x)'
  <2>1. TaskInv(x) /\ work'[x] = work[x] /\ x \notin lock /\ x \notin lock'
    BY <1>2, <1>3, <1>7, <1>11 DEF CoreInv, MapOK
  <2> QED BY <2>1 DEF TaskInv, GoodTask, Launching
<1>12. AgentOK' /\ BornOK'
  BY <1>3 DEF CoreInv, AgentOK, BornOK
<1>13. feed' = feed
  BY <1>3, <1>5 DEF CoreInv, ChildrenOK
<1>14. ChildrenOK'
  BY <1>3, <1>13 DEF CoreInv, ChildrenOK
<1>15. MapOK'
  BY <1>3, <1>5 DEF MapOK
<1> QED BY <1>2, <1>7, <1>8, <1>10, <1>11, <1>12, <1>14, <1>15, <1>0 DEF CoreInv

LEMMA TakeStep ==
    ASSUME CoreInv, GhostInv, NEW w \in Worker, Take(w)
    PROVE  /\ CoreInv' /\ GhostInv' /\ TaskStep(w)
           /\ w = Main => work'[w].at # "idle"
<1>1. /\ work[w] \in Task /\ work[w].at = "take" /\ w \notin Process
      /\ work[w].op \in {"stop", "switch", "shutdown"}
      /\ work[w].op = "shutdown" => w = Main
      /\ work[w].op \in {"stop", "switch"} => w \in Connection
  BY Where DEF Take
<1>2. w \in Connection => w # Main /\ work[w].op \in {"stop", "switch"}
  BY <1>1, Sorts
<1>3. /\ runtimes' = {}
      /\ UNCHANGED <<registered, instances, snapshot, process, feed, record, inputs, since>>
  BY DEF Take, childVars
<1>4. AgentOK' /\ ChildrenOK' /\ BornOK'
  BY <1>3 DEF CoreInv, AgentOK, ChildrenOK, BornOK
<1>5. registered \in Nat
  BY DEF CoreInv, AgentOK
<1>6. /\ TaskStep(w) /\ (w = Main => work'[w].at # "idle")
      /\ (runtimes = {} => work'[w].at \in Early)
  <2>1. CASE (runtimes = {} \/ registered = 0) /\ w = Main
    <3>1. Go(w, "down") /\ UNCHANGED lock
      BY <2>1 DEF Take
    <3>2. w \notin Connection /\ MainAt(work[w].op, "down") /\ "down" \in Label /\ "down" \in Early
      BY <1>1, <1>2, <2>1, Sorts DEF MainAt, Label, Early
    <3>3. TaskStep(w) /\ work'[w] = [work[w] EXCEPT !.at = "down"]
      BY <1>1, <2>1, <3>1, <3>2, GoStep
    <3>4. work'[w].at = "down"
      BY <1>1, <3>3 DEF Task
    <3> QED BY <3>2, <3>3, <3>4
  <2>2. CASE (runtimes = {} \/ registered = 0) /\ w # Main
    <3>1. Return(w)
      BY <2>2 DEF Take
    <3>2. TaskStep(w) /\ work'[w] = NoWork
      BY <3>1, ReturnStep
    <3> QED BY <2>2, <3>2, NoWorkGood DEF Early
  <2>3. CASE ~(runtimes = {} \/ registered = 0)
    <3> DEFINE p == CHOOSE p \in runtimes : TRUE
               t == [work[w] EXCEPT !.proc = p, !.inst = registered, !.at = "set_stopping"]
    <3>1. p \in Process /\ p \in 0 .. MaxProcess
      <4>1. runtimes # {} /\ runtimes \subseteq Process
        BY <2>3 DEF CoreInv, MapOK
      <4> QED BY <4>1, Sorts
    <3>2. work' = [work EXCEPT ![w] = t] /\ UNCHANGED lock
      BY <2>3 DEF Take
    <3> HIDE DEF p
    <3>3. t \in Task /\ t.op = work[w].op /\ t.at = "set_stopping" /\ t.proc \in Process
      BY <1>1, <1>5, <3>1 DEF Task, Label
    <3> HIDE DEF t
    <3>4. /\ w \in Connection => ConnectionAt(work[w].op, "set_stopping")
          /\ w = Main => MainAt(work[w].op, "set_stopping")
      BY <1>1, <1>2, Sorts DEF ConnectionAt, MainAt
    <3>5. GoodTask(w, t)
      BY <1>1, <3>3, <3>4 DEF GoodTask
    <3>6. TaskStep(w) /\ work'[w] = t
      BY <1>1, <3>2, <3>3, <3>5, SetStep DEF Launching
    <3> QED BY <2>3, <3>3, <3>6
  <2> QED BY <2>1, <2>2, <2>3
<1>7. work' \in [Worker -> Task] /\ \A x \in Worker : TaskInv(x)'
  BY <1>6, TasksKept
<1>8. MapOK'
  BY <1>3, <1>6 DEF TaskStep, CoreInv, MapOK
<1>9. runtimes = {} => \A x \in Worker : work[x].at \in Early => work'[x].at \in Early
  BY <1>6 DEF TaskStep, CoreInv
<1>10. GhostInv'
  BY <1>3, <1>9 DEF GhostInv, Fresh
<1> QED BY <1>4, <1>6, <1>7, <1>8, <1>10 DEF CoreInv

LEMMA RemoveStep ==
    ASSUME CoreInv, NEW c \in Connection, Remove(c)
    PROVE  /\ CoreInv' /\ TaskStep(c)
           /\ \/ work'[c] = NoWork
              \/ work[c].op = "switch" /\ work'[c].op = "launch" /\ work'[c].at = "lock"
<1>1. c \in Worker /\ c # Main /\ c \notin Process
  BY Sorts
<1>2. /\ work[c].at = "remove" /\ work[c].op \in {"stop", "switch"}
  BY <1>1, Where DEF Remove
<1>3. /\ registered' = 0 /\ snapshot' = Initial
      /\ UNCHANGED <<instances, runtimes, process, feed, record, inputs, since>>
  BY DEF Remove, childVars, history
<1>4. AgentOK'
  BY <1>3 DEF CoreInv, AgentOK, Initial, Lifecycle
<1>5. ChildrenOK' /\ BornOK'
  BY <1>3 DEF CoreInv, ChildrenOK, BornOK
<1>6. /\ TaskStep(c)
      /\ \/ work'[c] = NoWork
         \/ work[c].op = "switch" /\ work'[c].op = "launch" /\ work'[c].at = "lock"
  <2>1. CASE Return(c)
    BY <1>1, <2>1, ReturnStep
  <2>2. CASE ~Return(c)
    <3> DEFINE t == [NoWork EXCEPT !.op = "launch", !.at = "lock"]
    <3>1. work' = [work EXCEPT ![c] = t] /\ UNCHANGED lock /\ work[c].op = "switch"
      BY <2>2 DEF Remove, AfterRemove
    <3>2. NoWork \in Task
      BY NoWorkGood DEF GoodTask
    <3>3. t \in Task /\ t.op = "launch" /\ t.at = "lock"
      BY <3>2 DEF Task, Label, Operation
    <3> HIDE DEF t
    <3>4. GoodTask(c, t)
      BY <1>1, <3>3 DEF GoodTask, ConnectionAt, Early
    <3>5. TaskStep(c) /\ work'[c] = t
      BY <1>1, <1>2, <3>1, <3>3, <3>4, SetStep DEF Launching
    <3> QED BY <3>1, <3>3, <3>5
  <2> QED BY <2>1, <2>2
<1>7. work' \in [Worker -> Task] /\ \A x \in Worker : TaskInv(x)'
  BY <1>1, <1>6, TasksKept
<1>8. MapOK'
  BY <1>3, <1>6 DEF TaskStep, CoreInv, MapOK
<1> QED BY <1>4, <1>5, <1>6, <1>7, <1>8 DEF CoreInv

\* The bridge, and the events it receives.
LEMMA FeedTail ==
    ASSUME CoreInv, NEW p \in Process, feed[p].queue # << >>,
           feed' = [feed EXCEPT ![p].queue = Tail(@)], process' = process
    PROVE  ChildrenOK'
<1>1. feed[p] \in Feed /\ feed[p].queue \in Seq(Event) /\ Len(feed[p].queue) <= EventCapacity
  BY DEF CoreInv, ChildrenOK, Feed
<1> DEFINE q == Tail(feed[p].queue)
           f == [feed[p] EXCEPT !.queue = q]
<1>2. q \in Seq(Event) /\ Len(q) = Len(feed[p].queue) - 1 /\ Len(feed[p].queue) \in Nat
  BY <1>1
<1>3. feed' = [feed EXCEPT ![p] = f]
  OBVIOUS
<1>4. Len(q) <= EventCapacity
  BY <1>1, <1>2, Sorts
<1> HIDE DEF q
<1>5. f \in Feed /\ Len(f.queue) <= EventCapacity
  BY <1>1, <1>2, <1>4 DEF Feed
<1> HIDE DEF f
<1> QED BY <1>3, <1>5 DEF CoreInv, ChildrenOK

LEMMA FeedPublish ==
    ASSUME CoreInv, NEW p \in Process, NEW event \in Event, Publish(p, event),
           process' \in [Process -> {"unborn", "running", "exited", "failed", "orphaned"}]
    PROVE  ChildrenOK'
<1>1. feed[p] \in Feed /\ feed[p].queue \in Seq(Event) /\ Len(feed[p].queue) <= EventCapacity
  BY DEF CoreInv, ChildrenOK, Feed
<1>2. EventCapacity \in Nat \ {0} /\ Len(feed[p].queue) \in Nat
  BY <1>1, Sorts
<1>3. CASE Len(feed[p].queue) = EventCapacity
  <2> DEFINE q == Append(Tail(feed[p].queue), event)
             f == [queue |-> q, lagged |-> TRUE]
  <2>1. feed[p].queue # << >>
    BY <1>2, <1>3
  <2>2. Tail(feed[p].queue) \in Seq(Event) /\ Len(Tail(feed[p].queue)) = Len(feed[p].queue) - 1
    BY <1>1, <2>1
  <2>3. q \in Seq(Event) /\ Len(q) = EventCapacity
    BY <1>2, <1>3, <2>2
  <2>4. feed' = [feed EXCEPT ![p] = f]
    BY <1>3 DEF Publish
  <2> HIDE DEF q
  <2>5. f \in Feed /\ Len(f.queue) <= EventCapacity
    BY <1>2, <2>3 DEF Feed
  <2> HIDE DEF f
  <2> QED BY <2>4, <2>5 DEF CoreInv, ChildrenOK
<1>4. CASE Len(feed[p].queue) # EventCapacity
  <2> DEFINE q == Append(feed[p].queue, event)
             f == [feed[p] EXCEPT !.queue = q]
  <2>1. q \in Seq(Event) /\ Len(q) <= EventCapacity
    BY <1>1, <1>2, <1>4
  <2>2. feed' = [feed EXCEPT ![p] = f]
    BY <1>4 DEF Publish
  <2> HIDE DEF q
  <2>3. f \in Feed /\ Len(f.queue) <= EventCapacity
    BY <1>1, <2>1 DEF Feed
  <2> HIDE DEF f
  <2> QED BY <2>2, <2>3 DEF CoreInv, ChildrenOK
<1> QED BY <1>3, <1>4

LEMMA LaggedStep ==
    ASSUME CoreInv, NEW p \in Process, Lagged(p)
    PROVE  CoreInv' /\ work' = work
<1>1. UNCHANGED <<registered, instances, lock, runtimes, process, work, record, inputs, since>>
  BY DEF Lagged, history
<1>2. "failed" \in Lifecycle /\ (SetLifecycle("failed") \/ UNCHANGED snapshot)
  BY DEF Lagged, Lifecycle
<1>3. snapshot' \in [lifecycle : Lifecycle, active_run : SUBSET Nat]
  BY <1>2, LifecycleStep
<1>4. AgentOK' /\ MapOK' /\ BornOK'
  BY <1>1, <1>3 DEF CoreInv, AgentOK, MapOK, BornOK
<1>5. ChildrenOK'
  BY <1>1 DEF Lagged, CoreInv, ChildrenOK, Feed
<1>6. work' \in [Worker -> Task] /\ \A w \in Worker : TaskInv(w)'
  BY <1>1 DEF CoreInv, TaskInv, GoodTask, Launching
<1> QED BY <1>1, <1>4, <1>5, <1>6 DEF CoreInv

LEMMA RecvStep ==
    ASSUME CoreInv, NEW p \in Process, RecvStart(p) \/ RecvEnd(p) \/ RecvExit(p)
    PROVE  CoreInv' /\ TaskStep(p)
<1>1. p \in Worker /\ p # Main /\ p \notin Connection
  BY Sorts
<1>2. /\ work[p].at = "recv" /\ feed[p].queue # << >>
      /\ feed' = [feed EXCEPT ![p].queue = Tail(@)]
      /\ UNCHANGED <<registered, instances, lock, runtimes, process, record, inputs, since>>
  BY DEF RecvStart, RecvEnd, RecvExit, Recv, history
<1>3. work[p] \in Task /\ work[p].proc \in Process /\ work[p].op \in {"none", "agent_end"}
  BY <1>1, <1>2, Where DEF Early
<1>4. \E lifecycle \in Lifecycle : SetLifecycle(lifecycle) \/ UNCHANGED snapshot
  <2>1. {"running", "stopped", "failed"} \subseteq Lifecycle
    BY DEF Lifecycle
  <2>2. CASE RecvStart(p)
    BY <2>1, <2>2 DEF RecvStart
  <2>3. CASE RecvEnd(p)
    BY <2>1, <2>3 DEF RecvEnd
  <2>4. CASE RecvExit(p)
    BY <2>1, <2>4 DEF RecvExit
  <2> QED BY <2>2, <2>3, <2>4
<1>5. snapshot' \in [lifecycle : Lifecycle, active_run : SUBSET Nat]
  BY <1>4, LifecycleStep
<1>6. AgentOK' /\ MapOK' /\ BornOK'
  BY <1>2, <1>5 DEF CoreInv, AgentOK, MapOK, BornOK
<1>7. ChildrenOK'
  BY <1>2, FeedTail
<1>8. TaskStep(p)
  <2>1. CASE RecvStart(p)
    <3>1. work' = [work EXCEPT ![p] = work[p]]
      BY <1>1, <2>1 DEF RecvStart, CoreInv
    <3>2. GoodTask(p, work[p])
      BY <1>1, Where
    <3> QED BY <1>1, <1>2, <3>1, <3>2, SetStep DEF Launching
  <2>2. CASE RecvEnd(p)
    <3> DEFINE t == [work[p] EXCEPT !.op = "agent_end", !.at = "read_run"]
    <3>1. work' = [work EXCEPT ![p] = t]
      BY <2>2 DEF RecvEnd
    <3>2. t \in Task /\ t.op = "agent_end" /\ t.at = "read_run" /\ t.proc \in Process
      BY <1>3 DEF Task, Label
    <3> HIDE DEF t
    <3>3. GoodTask(p, t)
      BY <1>1, <3>2 DEF GoodTask, BridgeAt, Ending
    <3> QED BY <1>1, <1>2, <1>3, <3>1, <3>2, <3>3, SetStep DEF Launching
  <2>3. CASE RecvExit(p)
    <3> DEFINE t == [work[p] EXCEPT !.op = "exit", !.pid = {}, !.run = {}, !.at = "snapshot"]
    <3>1. work' = [work EXCEPT ![p] = t]
      BY <2>3 DEF RecvExit
    <3>2. t \in Task /\ t.op = "exit" /\ t.at = "snapshot" /\ t.proc \in Process
      BY <1>3 DEF Task, Label
    <3> HIDE DEF t
    <3>3. GoodTask(p, t)
      BY <1>1, <3>2 DEF GoodTask, BridgeAt, Persisting
    <3> QED BY <1>1, <1>2, <1>3, <3>1, <3>2, <3>3, SetStep DEF Launching
  <2> QED BY <2>1, <2>2, <2>3
<1>9. work' \in [Worker -> Task] /\ \A x \in Worker : TaskInv(x)'
  BY <1>1, <1>8, TasksKept
<1> QED BY <1>6, <1>7, <1>8, <1>9 DEF CoreInv

LEMMA ChildStep ==
    ASSUME CoreInv, GhostInv, NEW p \in Process, Emit(p) \/ Exit(p)
    PROVE  /\ CoreInv' /\ GhostInv' /\ UNCHANGED <<registered, runtimes, work>>
           /\ \A q \in Process : Running(q)' => Running(q)
<1>1. UNCHANGED <<registered, instances, snapshot, lock, runtimes, work, record, since>>
  BY DEF Emit, Exit, daemonVars, history
<1>2. inputs' \in Nat
  BY DEF Emit, Exit, history, Input, CoreInv, BornOK
<1>3. /\ process' \in [Process -> {"unborn", "running", "exited", "failed", "orphaned"}]
      /\ \A q \in Process : process'[q] # "unborn" <=> process[q] # "unborn"
      /\ \A q \in Process : Running(q)' => Running(q)
  BY DEF Emit, Exit, CoreInv, ChildrenOK, Running
<1>4. \E event \in Event : Publish(p, event)
  BY DEF Emit, Exit, Event
<1>5. ChildrenOK'
  BY <1>3, <1>4, FeedPublish
<1>6. AgentOK' /\ MapOK'
  BY <1>1 DEF CoreInv, AgentOK, MapOK
<1>7. BornOK'
  BY <1>1, <1>2, <1>3 DEF CoreInv, BornOK
<1>8. work' \in [Worker -> Task] /\ \A w \in Worker : TaskInv(w)'
  BY <1>1 DEF CoreInv, TaskInv, GoodTask, Launching
<1>9. GhostInv'
  BY <1>1, <1>3 DEF GhostInv, Fresh
<1> QED BY <1>1, <1>3, <1>5, <1>6, <1>7, <1>8, <1>9 DEF CoreInv

LEMMA RecoveredRow ==
    ASSUME NEW row \in Row
    PROVE  Recovered(row) \in Row /\ Recovered(row).lifecycle \notin Busy
BY DEF Recovered, Row, Busy, Lifecycle

LEMMA RestartStep ==
    ASSUME CoreInv, Restart
    PROVE  /\ CoreInv' /\ GhostInv' /\ work' = [w \in Worker |-> NoWork]
           /\ runtimes' = {} /\ \A p \in Process : ~Running(p)'
<1>1. /\ record' = {Recovered(row) : row \in record} /\ snapshot' = Restored(record')
      /\ instances' = IF record = {} THEN instances ELSE instances + 1
      /\ registered' = IF record = {} THEN 0 ELSE instances + 1
      /\ lock' = {} /\ runtimes' = {}
      /\ process' = [p \in Process |-> IF Running(p) THEN "orphaned" ELSE process[p]]
      /\ feed' = [p \in Process |-> NoFeed]
      /\ work' = [w \in Worker |-> NoWork]
      /\ since' = Cardinality(Process \ Unborn) + 1
      /\ inputs' = inputs + 1
  BY DEF Restart, Input
<1>2. record' \in SUBSET Row /\ \A row \in record' : row.lifecycle \notin Busy
  BY <1>1, RecoveredRow DEF CoreInv, AgentOK
<1>3. /\ snapshot' \in [lifecycle : Lifecycle, active_run : SUBSET Nat]
      /\ registered' # 0 => snapshot'.lifecycle \notin Busy /\ snapshot'.active_run = {}
  <2>1. CASE record' = {}
    <3>1. record = {}
      BY <1>1, <2>1
    <3>2. snapshot' = Initial /\ registered' = 0
      BY <1>1, <2>1, <3>1 DEF Restored
    <3> QED BY <3>2 DEF Initial, Lifecycle
  <2>2. CASE record' # {}
    <3> DEFINE row == CHOOSE row \in record' : TRUE
    <3>1. row \in record'
      BY <2>2
    <3>2. snapshot' = [Initial EXCEPT !.lifecycle = row.lifecycle]
      BY <1>1, <2>2 DEF Restored, Decoded
    <3> HIDE DEF row
    <3>3. row.lifecycle \in Lifecycle /\ row.lifecycle \notin Busy
      BY <1>2, <3>1 DEF Row
    <3> QED BY <3>2, <3>3 DEF Initial
  <2> QED BY <2>1, <2>2
<1>4. AgentOK'
  BY <1>1, <1>2, <1>3 DEF CoreInv, AgentOK
<1>5. NoFeed \in Feed /\ Len(NoFeed.queue) <= EventCapacity
  <2>1. << >> \in Seq(Event)
    OBVIOUS
  <2> QED BY <2>1, Sorts DEF NoFeed, Feed
<1>6. ChildrenOK'
  BY <1>1, <1>5 DEF CoreInv, ChildrenOK
<1>7. MapOK'
  BY <1>1 DEF MapOK
<1>8. PICK k \in 0 .. MaxProcess : \A p \in Process : process[p] # "unborn" <=> p <= k
  BY DEF CoreInv, BornOK
<1>9. \A p \in Process : process'[p] # "unborn" <=> p <= k
  BY <1>1, <1>8 DEF Running
<1>10. since' = k + 1
  <2>1. Process \ Unborn = 1 .. k
    BY <1>8, Sorts DEF Unborn, Process
  <2>2. Cardinality(1 .. k) = k
    BY FS_Interval
  <2> QED BY <1>1, <2>1, <2>2
<1>11. BornOK'
  <2>1. inputs' \in Nat
    BY <1>1 DEF CoreInv, BornOK
  <2>2. since' \in Nat \ {0} /\ since' <= k + 1
    BY <1>10
  <2> QED BY <1>9, <2>1, <2>2 DEF BornOK
<1>12. work' \in [Worker -> Task] /\ \A w \in Worker : TaskInv(w)'
  <2>1. NoWork \in Task
    BY NoWorkGood DEF GoodTask
  <2>2. work' \in [Worker -> Task] /\ \A w \in Worker : work'[w] = NoWork
    BY <1>1, <2>1
  <2>3. ASSUME NEW w \in Worker PROVE TaskInv(w)'
    BY <1>1, <2>2, NoWorkGood DEF TaskInv, GoodTask, Launching
  <2> QED BY <2>2, <2>3
<1>13. GhostInv'
  <2>1. \A w \in Worker : work'[w].at \in Early
    BY <1>1, NoWorkGood DEF Early
  <2> QED BY <1>1, <1>2, <1>3, <2>1 DEF GhostInv
<1>14. \A p \in Process : ~Running(p)'
  BY <1>1 DEF Running
<1> QED BY <1>1, <1>4, <1>6, <1>7, <1>11, <1>12, <1>13, <1>14 DEF CoreInv

-----------------------------------------------------------------------------
\* Every step keeps CoreInv and GhostInv.

LEMMA InitCore ==
    ASSUME ControllerInit
    PROVE  CoreInv /\ GhostInv
<1>1. NoWork \in Task
  BY NoWorkGood DEF GoodTask
<1>2. work \in [Worker -> Task] /\ \A w \in Worker : work[w] = NoWork
  BY <1>1 DEF ControllerInit
<1>3. \A w \in Worker : TaskInv(w) /\ work[w].at \in Early
  <2> SUFFICES ASSUME NEW w \in Worker PROVE TaskInv(w) /\ work[w].at \in Early
    OBVIOUS
  <2>1. work[w] = NoWork /\ w \notin lock
    BY <1>2 DEF ControllerInit
  <2> QED BY <2>1, NoWorkGood DEF TaskInv, GoodTask, Launching, Early
<1>4. AgentOK /\ MapOK
  BY DEF ControllerInit, AgentOK, MapOK, Initial, Lifecycle
<1>5. ChildrenOK
  <2>1. << >> \in Seq(Event)
    OBVIOUS
  <2>2. NoFeed \in Feed /\ Len(NoFeed.queue) <= EventCapacity
    BY <2>1, Sorts DEF NoFeed, Feed
  <2> QED BY <2>2 DEF ControllerInit, ChildrenOK
<1>6. BornOK
  <2>1. 0 \in 0 .. MaxProcess /\ \A p \in Process : process[p] # "unborn" <=> p <= 0
    BY Sorts DEF ControllerInit, Process
  <2> QED BY <2>1 DEF ControllerInit, BornOK
<1>7. GhostInv
  BY <1>3 DEF GhostInv, ControllerInit
<1> QED BY <1>2, <1>3, <1>4, <1>5, <1>6, <1>7 DEF CoreInv

\* The steps of a task that may belong to a request, a bridge or the shutdown.
SharedStep(w) ==
    ReadRun(w) \/ FinishRun(w) \/ SetIdle(w) \/ PersistRead(w) \/ PersistWrite(w)
EndStep(w) ==
    SetStopping(w) \/ ShutdownReturns(w) \/ SetStopped(w) \/ (w = Main /\ SetFailed)

LEMMA SharedCore ==
    ASSUME CoreInv, GhostInv, NEW w \in Worker, SharedStep(w) \/ EndStep(w)
    PROVE  LocalStep(w) /\ CoreInv' /\ GhostInv'
<1>1. LocalStep(w)
  BY ReadRunStep, FinishRunStep, SetIdleStep, PersistReadStep, PersistWriteStep, StopSteps
     DEF SharedStep, EndStep
<1>2. work[w].at \notin Early
  BY DEF SharedStep, EndStep, ReadRun, FinishRun, SetIdle, PersistRead, PersistWrite,
         SetStopping, ShutdownReturns, SetStopped, SetFailed, Early
<1> QED BY <1>1, <1>2, LocalCore, LateGhost DEF LocalStep

LEMMA RequestCore ==
    ASSUME CoreInv, GhostInv, NEW c \in Connection, RequestStep(c)
    PROVE  CoreInv' /\ GhostInv'
<1>1. c \in Worker
  BY Sorts
<1>2. CASE \/ PromptUpsert(c) \/ PromptRunning(c) \/ LaunchIdle(c) \/ LaunchState(c)
           \/ RequestOk(c) \/ RequestRefused(c) \/ RequestFails(c)
  <2>1. LocalStep(c)
    BY <1>2, PromptUpsertStep, PromptRunningStep, LaunchIdleStep, LaunchStateStep, RequestStepLocal
  <2>2. work[c].at \notin Early
    BY <1>2 DEF PromptUpsert, PromptRunning, LaunchIdle, LaunchState,
                RequestOk, RequestRefused, RequestFails, Early
  <2> QED BY <1>1, <2>1, <2>2, LocalCore, LateGhost DEF LocalStep
<1>3. CASE SharedStep(c) \/ EndStep(c)
  BY <1>1, <1>3, SharedCore
<1>4. CASE FindRuntime(c)
  <2>1. LocalStep(c)
    BY <1>4, FindRuntimeStep
  <2>2. CoreInv'
    BY <1>1, <2>1, LocalCore
  <2>3. Fresh => work'[c] = NoWork
    BY <1>1, <1>4, ReturnStep DEF GhostInv, FindRuntime
  <2>4. Fresh => \A x \in Worker : work'[x].at \in Early
    BY <2>1, <2>3, NoWorkGood DEF LocalStep, TaskStep, GhostInv, CoreInv, Early
  <2>5. UNCHANGED <<registered, snapshot, runtimes, process, record, since>>
    BY <1>4 DEF FindRuntime, childVars, history
  <2>6. GhostInv'
    BY <2>4, <2>5 DEF GhostInv, Fresh
  <2> QED BY <2>2, <2>6
<1>5. CASE SpawnFails(c)
  <2>1. LocalStep(c) /\ work'[c] = NoWork
    BY <1>1, <1>5, SpawnFailsStep, ReturnStep DEF SpawnFails
  <2>2. CoreInv'
    BY <1>1, <2>1, LocalCore
  <2>3. Fresh => \A x \in Worker : work'[x].at \in Early
    BY <2>1, NoWorkGood DEF LocalStep, TaskStep, GhostInv, CoreInv, Early
  <2>4. UNCHANGED <<registered, snapshot, runtimes, process, record, since>>
    BY <1>5 DEF SpawnFails, childVars, history
  <2>5. GhostInv'
    BY <2>3, <2>4 DEF GhostInv, Fresh
  <2> QED BY <2>2, <2>5
<1>6. CASE LaunchLock(c)
  BY <1>6, LaunchLockStep
<1>7. CASE Spawn(c)
  BY <1>7, SpawnStep
<1>8. CASE LaunchAgent(c) \/ Install(c) \/ Remove(c)
  <2>1. CoreInv'
    BY <1>8, LaunchAgentStep, InstallStep, RemoveStep
  <2>2. work[c].at \notin Early /\ UNCHANGED <<process, since>>
    BY <1>8 DEF LaunchAgent, Install, Remove, Early, childVars, history
  <2> QED BY <1>1, <2>1, <2>2, LateGhost
<1>9. CASE Take(c)
  BY <1>1, <1>9, TakeStep
<1> QED BY <1>2, <1>3, <1>4, <1>5, <1>6, <1>7, <1>8, <1>9 DEF RequestStep, SharedStep, EndStep

LEMMA BridgeCore ==
    ASSUME CoreInv, GhostInv, NEW p \in Process, BridgeStep(p)
    PROVE  CoreInv' /\ GhostInv'
<1>1. p \in Worker
  BY Sorts
<1>2. CASE Lagged(p) \/ RecvStart(p) \/ RecvEnd(p) \/ RecvExit(p)
  <2>1. CoreInv'
    BY <1>2, LaggedStep, RecvStep
  <2>2. work[p].at \notin Early /\ UNCHANGED <<process, since>>
    BY <1>2 DEF Lagged, RecvStart, RecvEnd, RecvExit, Recv, Early, history
  <2> QED BY <1>1, <2>1, <2>2, LateGhost
<1>3. CASE SharedStep(p)
  BY <1>1, <1>3, SharedCore
<1> QED BY <1>2, <1>3 DEF BridgeStep, SharedStep

LEMMA MainCore ==
    ASSUME CoreInv, GhostInv, MainStep
    PROVE  CoreInv' /\ GhostInv'
<1>1. Main \in Worker
  BY Sorts
<1>2. Take(Main) \/ SharedStep(Main) \/ EndStep(Main)
  BY DEF MainStep, SharedStep, EndStep
<1> QED BY <1>1, <1>2, TakeStep, SharedCore

LEMMA NextCore ==
    ASSUME CoreInv, GhostInv, [Next]_vars
    PROVE  CoreInv' /\ GhostInv'
<1>1. ASSUME NEW c \in Connection, NEW op \in Operation, Begin(c, op)
      PROVE  CoreInv' /\ GhostInv'
  BY <1>1, BeginStep
<1>2. ASSUME NEW c \in Connection, RequestStep(c)
      PROVE  CoreInv' /\ GhostInv'
  BY <1>2, RequestCore
<1>3. ASSUME NEW p \in Process, BridgeStep(p) \/ Emit(p) \/ Exit(p)
      PROVE  CoreInv' /\ GhostInv'
  BY <1>3, BridgeCore, ChildStep
<1>4. CASE Terminate
  BY <1>4, TerminateStep
<1>5. CASE MainStep
  BY <1>5, MainCore
<1>6. CASE Restart
  BY <1>6, RestartStep
<1>7. CASE UNCHANGED vars
  <2>1. UNCHANGED <<registered, instances, snapshot, lock, runtimes, process, feed, work,
                    record, inputs, since>>
    BY <1>7 DEF vars, daemonVars, childVars, history
  <2>2. AgentOK' /\ ChildrenOK' /\ MapOK' /\ BornOK'
    BY <2>1 DEF CoreInv, AgentOK, ChildrenOK, MapOK, BornOK
  <2>3. work' \in [Worker -> Task] /\ \A w \in Worker : TaskInv(w)'
    BY <2>1 DEF CoreInv, TaskInv, GoodTask, Launching
  <2>4. GhostInv'
    BY <2>1 DEF GhostInv, Fresh
  <2> QED BY <2>2, <2>3, <2>4 DEF CoreInv
<1> QED BY <1>1, <1>2, <1>3, <1>4, <1>5, <1>6, <1>7 DEF Next

-----------------------------------------------------------------------------
\* What CoreInv and GhostInv say of the properties.

LEMMA AtMostOne ==
    ASSUME NEW S, \A x, y \in S : x = y
    PROVE  Cardinality(S) <= 1 /\ Cardinality(S) \in Nat
<1>1. CASE S = {}
  BY <1>1, FS_EmptySet
<1>2. CASE S # {}
  <2>1. PICK x \in S : TRUE
    BY <1>2
  <2>2. S = {x}
    BY <2>1
  <2> QED BY <2>2, FS_Singleton
<1> QED BY <1>1, <1>2

LEMMA CoreTypes ==
    ASSUME CoreInv
    PROVE  TypeOK
<1>1. Cardinality(lock) <= 1 /\ Cardinality(runtimes) <= 1
  BY AtMostOne DEF CoreInv, MapOK
<1>2. ASSUME NEW p \in Process
      PROVE  /\ process[p] \in {"unborn", "running", "exited", "failed", "orphaned"}
             /\ Len(feed[p].queue) <= EventCapacity
             /\ \A i \in DOMAIN feed[p].queue : feed[p].queue[i] \in Event
  <2>1. feed[p].queue \in Seq(Event)
    BY DEF CoreInv, ChildrenOK, Feed
  <2> QED BY <2>1 DEF CoreInv, ChildrenOK
<1>3. \A w \in Worker : work[w].proc \in 0 .. MaxProcess
  BY DEF CoreInv, Task
<1>4. \A row \in record : row.lifecycle \in Lifecycle /\ row.process_id \subseteq Process
  BY DEF CoreInv, AgentOK, Row
<1>5. /\ registered \in 0 .. instances /\ instances \in Nat /\ snapshot.lifecycle \in Lifecycle
      /\ lock \in SUBSET Connection /\ runtimes \in SUBSET Process
  BY DEF CoreInv, AgentOK, MapOK
<1> QED BY <1>1, <1>2, <1>3, <1>4, <1>5 DEF TypeOK

LEMMA GhostWork ==
    ASSUME GhostInv
    PROVE  NoGhostWork
BY DEF GhostInv, NoGhostWork, Fresh, Busy

-----------------------------------------------------------------------------
\* Where the processes are that nobody has let go.

\* Only the task's own part has to be looked at, when the map stays and no process
\* is new: if it is a launch that has a process, it keeps it or gives it up.
LEMMA ServedKept ==
    ASSUME CoreInv, ServedInv, NEW w \in Worker, TaskStep(w),
           \A p \in runtimes : Running(p) => p \in runtimes' \/ p \in let_go',
           \A p \in Process : Running(p)' => Running(p),
           let_go \subseteq let_go',
           \A p \in Process : LaunchHas(w, p) => LaunchHas(w, p)' \/ p \in let_go'
    PROVE  ServedInv'
<1> SUFFICES ASSUME NEW p \in Process, Running(p)', p \notin let_go'
             PROVE  p \in runtimes' \/ \E c \in Connection : LaunchHas(c, p)'
  BY DEF ServedInv
<1>1. Running(p) /\ p \notin let_go
  OBVIOUS
<1>2. CASE p \in runtimes
  BY <1>1, <1>2
<1>3. ASSUME NEW c \in Connection, LaunchHas(c, p) PROVE LaunchHas(c, p)'
  <2>1. CASE c = w
    BY <1>3, <2>1
  <2>2. CASE c # w
    <3>1. work'[c] = work[c] /\ (c \in lock => c \in lock')
      BY <2>2, Sorts DEF TaskStep, CoreInv
    <3> QED BY <1>3, <3>1 DEF LaunchHas
  <2> QED BY <2>1, <2>2
<1> QED BY <1>1, <1>2, <1>3 DEF ServedInv

\* A task that is not a launch, or has not spawned, has nothing to keep.
LEMMA ServedOther ==
    ASSUME CoreInv, ServedInv, NEW w \in Worker, TaskStep(w),
           runtimes' = runtimes, \A p \in Process : Running(p)' => Running(p),
           let_go \subseteq let_go',
           work[w].op # "launch" \/ work[w].at \in {"lock", "spawn"}
    PROVE  ServedInv'
<1>1. \A p \in Process : ~LaunchHas(w, p)
  BY Where DEF LaunchHas, Launching
<1> QED BY <1>1, ServedKept

\* A launch that goes on or gives up.
LEMMA ServedLaunch ==
    ASSUME CoreInv, ServedInv, NEW c \in Connection, TaskStep(c),
           UNCHANGED <<runtimes, process>>, let_go \subseteq let_go',
           \/ c \in lock' /\ work'[c].at # "spawn" /\ work'[c].proc = work[c].proc
           \/ work[c].proc \in let_go'
    PROVE  ServedInv'
<1>1. \A p \in Process : Running(p)' => Running(p)
  BY DEF Running
<1>2. \A p \in Process : LaunchHas(c, p) => LaunchHas(c, p)' \/ p \in let_go'
  BY DEF LaunchHas
<1> QED BY <1>1, <1>2, ServedKept, Sorts

LEMMA ServedLaunchSteps ==
    ASSUME CoreInv, ServedInv, NEW c \in Connection, work[c].op = "launch",
           LaunchIdle(c) \/ LaunchState(c) \/ PersistRead(c) \/ PersistWrite(c)
    PROVE  ServedInv'
<1>1. c \in Worker /\ c # Main /\ work[c] \in Task
  BY Sorts, Where
<1>2. LocalStep(c)
  BY <1>1, LaunchIdleStep, LaunchStateStep, PersistReadStep, PersistWriteStep
<1>3. TaskStep(c) /\ UNCHANGED <<runtimes, process>>
  BY <1>2 DEF LocalStep
<1>4. c \in lock
  BY <1>1, Where DEF Launching, LaunchIdle, LaunchState, PersistRead, PersistWrite
<1>5. GiveUp(c) => let_go \subseteq let_go' /\ work[c].proc \in let_go'
  BY DEF GiveUp
<1>6. CASE GiveUp(c)
  BY <1>3, <1>5, <1>6, ServedLaunch
<1>7. CASE LaunchIdle(c) /\ ~GiveUp(c)
  <2>1. Go(c, "get_state") /\ UNCHANGED <<lock, let_go>>
    BY <1>7 DEF LaunchIdle
  <2>2. work'[c].at = "get_state" /\ work'[c].proc = work[c].proc
    BY <1>1, <2>1 DEF Go, CoreInv, Task
  <2> QED BY <1>3, <1>4, <2>1, <2>2, ServedLaunch
<1>8. CASE LaunchState(c) /\ ~GiveUp(c)
  <2>1. /\ work' = [work EXCEPT ![c].pid = runtime_process_id(work[c].proc), ![c].at = "snapshot"]
        /\ UNCHANGED <<lock, let_go>>
    BY <1>8 DEF LaunchState
  <2>2. work'[c].at = "snapshot" /\ work'[c].proc = work[c].proc
    BY <1>1, <2>1 DEF CoreInv, Task
  <2> QED BY <1>3, <1>4, <2>1, <2>2, ServedLaunch
<1>9. CASE PersistRead(c) /\ ~GiveUp(c)
  <2>1. /\ work' = [work EXCEPT ![c].seen = snapshot.lifecycle, ![c].at = "write"]
        /\ UNCHANGED <<lock, let_go>>
    BY <1>9 DEF PersistRead
  <2>2. work'[c].at = "write" /\ work'[c].proc = work[c].proc
    BY <1>1, <2>1 DEF CoreInv, Task
  <2> QED BY <1>3, <1>4, <2>1, <2>2, ServedLaunch
<1>10. CASE PersistWrite(c)
  <2>1. /\ work' = [work EXCEPT ![c].seen = "none", ![c].run = {}, ![c].at = AfterPersist("launch")]
        /\ UNCHANGED <<lock, let_go>>
    BY <1>10 DEF PersistWrite, history
  <2>2. AfterPersist("launch") = "install"
    BY DEF AfterPersist
  <2>3. work'[c].at = "install" /\ work'[c].proc = work[c].proc
    BY <1>1, <2>1, <2>2 DEF CoreInv, Task
  <2> QED BY <1>3, <1>4, <2>1, <2>3, ServedLaunch
<1> QED BY <1>6, <1>7, <1>8, <1>9, <1>10

\* What the others do to the agent and its row is no concern of the processes.
LEMMA ServedShared ==
    ASSUME CoreInv, GhostInv, ServedInv, NEW w \in Worker, work[w].op # "launch",
           SharedStep(w) \/ EndStep(w)
    PROVE  ServedInv'
<1>1. LocalStep(w)
  BY SharedCore
<1>2. TaskStep(w) /\ runtimes' = runtimes /\ \A p \in Process : Running(p)' => Running(p)
  BY <1>1 DEF LocalStep, Running
<1>3. let_go' = let_go
  BY DEF SharedStep, EndStep, ReadRun, FinishRun, SetIdle, PersistRead, PersistWrite, GiveUp,
         SetStopping, ShutdownReturns, SetStopped, SetFailed, TellActor, history
<1> QED BY <1>2, <1>3, ServedOther

LEMMA ServedTake ==
    ASSUME CoreInv, GhostInv, ServedInv, NEW w \in Worker, Take(w)
    PROVE  ServedInv'
<1>1. TaskStep(w) /\ work[w].op # "launch"
  BY TakeStep, Where DEF Take
<1>2. let_go' = let_go \cup runtimes /\ process' = process
  BY DEF Take, childVars
<1>3. \A p \in Process : Running(p)' => Running(p)
  BY <1>2 DEF Running
<1>4. \A p \in Process : ~LaunchHas(w, p)
  BY <1>1, Where DEF LaunchHas, Launching
<1> QED BY <1>1, <1>2, <1>3, <1>4, ServedKept

LEMMA ServedLock ==
    ASSUME CoreInv, ServedInv, NEW c \in Connection, LaunchLock(c)
    PROVE  ServedInv'
<1>1. c \in Worker /\ lock = {}
  BY Sorts DEF LaunchLock
<1>2. process' = process /\ let_go' = let_go
  BY DEF LaunchLock, childVars, history
<1>3. \A p \in runtimes : Running(p) => p \in runtimes'
  BY DEF LaunchLock
<1>4. \A p \in Process : Running(p) /\ p \notin let_go => p \in runtimes
  BY <1>1 DEF ServedInv, LaunchHas
<1> QED BY <1>2, <1>3, <1>4 DEF ServedInv, Running

LEMMA ServedSpawn ==
    ASSUME CoreInv, ServedInv, NEW c \in Connection, Spawn(c)
    PROVE  ServedInv'
<1>1. c \in Worker /\ work[c] \in Task /\ work[c].at = "spawn" /\ c \in lock
  BY Sorts, Where DEF Spawn, Launching
<1>2. runtimes' = runtimes /\ lock' = lock /\ let_go' = let_go
  BY DEF Spawn, daemonVars, history
<1>3. PICK p \in Process :
        /\ process' = [process EXCEPT ![p] = "running"]
        /\ work'[c] = [work[c] EXCEPT !.proc = p, !.at = "agent"]
  BY SpawnStep
<1>4. LaunchHas(c, p)'
  <2>1. p \in 0 .. MaxProcess
    BY Sorts
  <2>2. work'[c].at = "agent" /\ work'[c].proc = p
    BY <1>1, <1>3, <2>1 DEF Task
  <2> QED BY <1>1, <1>2, <2>2 DEF LaunchHas
<1>5. ASSUME NEW q \in Process, Running(q)', q \notin let_go', q # p
      PROVE  q \in runtimes' \/ \E d \in Connection : LaunchHas(d, q)'
  <2>1. Running(q)
    BY <1>3, <1>5 DEF Running, CoreInv, ChildrenOK
  <2>2. q \in runtimes \/ \E d \in Connection : LaunchHas(d, q)
    BY <1>2, <1>5, <2>1 DEF ServedInv
  <2>3. \A d \in Connection : ~LaunchHas(d, q)
    BY <1>1 DEF CoreInv, MapOK, LaunchHas
  <2> QED BY <1>2, <2>2, <2>3
<1> QED BY <1>4, <1>5 DEF ServedInv

LEMMA ServedAgent ==
    ASSUME CoreInv, ServedInv, NEW c \in Connection, LaunchAgent(c)
    PROVE  ServedInv'
<1>1. c \in Worker /\ work[c] \in Task /\ c \in lock
  BY Sorts, Where DEF LaunchAgent, Launching
<1>2. /\ work' = [work EXCEPT ![c].inst = registered', ![c].at = "launch_idle"]
      /\ UNCHANGED <<lock, runtimes, process, let_go>>
  BY DEF LaunchAgent, childVars, history
<1>3. work'[c].at = "launch_idle" /\ work'[c].proc = work[c].proc
  BY <1>1, <1>2 DEF CoreInv, Task
<1>4. TaskStep(c)
  BY LaunchAgentStep
<1> QED BY <1>1, <1>2, <1>3, <1>4, ServedLaunch

LEMMA ServedInstall ==
    ASSUME CoreInv, ServedInv, NEW c \in Connection, Install(c)
    PROVE  ServedInv'
<1>1. c \in lock /\ runtimes' = {work[c].proc}
  BY Sorts, Where DEF Install, Launching
<1>2. process' = process /\ let_go' = let_go
  BY DEF Install, history
<1>3. ASSUME NEW p \in Process, Running(p)', p \notin let_go' PROVE p \in runtimes'
  <2>1. p \in runtimes \/ \E d \in Connection : LaunchHas(d, p)
    BY <1>2, <1>3 DEF ServedInv, Running
  <2>2. PICK d \in Connection : LaunchHas(d, p)
    BY <1>1, <2>1 DEF CoreInv, MapOK
  <2>3. d = c
    BY <1>1, <2>2 DEF LaunchHas, CoreInv, MapOK
  <2> QED BY <1>1, <2>2, <2>3 DEF LaunchHas
<1> QED BY <1>3 DEF ServedInv

LEMMA ServedRequest ==
    ASSUME CoreInv, GhostInv, ServedInv, NEW c \in Connection, RequestStep(c)
    PROVE  ServedInv'
<1>1. c \in Worker /\ c # Main
  BY Sorts
<1>2. CASE work[c].op = "launch" /\
           (LaunchIdle(c) \/ LaunchState(c) \/ PersistRead(c) \/ PersistWrite(c))
  BY <1>2, ServedLaunchSteps
<1>3. CASE work[c].op # "launch" /\ (SharedStep(c) \/ EndStep(c))
  BY <1>1, <1>3, ServedShared
<1>4. CASE \/ FindRuntime(c) \/ PromptUpsert(c) \/ PromptRunning(c)
           \/ RequestOk(c) \/ RequestRefused(c) \/ RequestFails(c) \/ SpawnFails(c)
  <2>1. LocalStep(c)
    BY <1>4, FindRuntimeStep, PromptUpsertStep, PromptRunningStep, RequestStepLocal, SpawnFailsStep
  <2>2. TaskStep(c) /\ runtimes' = runtimes /\ \A p \in Process : Running(p)' => Running(p)
    BY <2>1 DEF LocalStep, Running
  <2>3. let_go' = let_go
    BY <1>4 DEF FindRuntime, PromptUpsert, PromptRunning, RequestOk, RequestRefused,
                RequestFails, SpawnFails, history
  <2>4. work[c].op # "launch" \/ work[c].at = "spawn"
    BY <1>1, <1>4, Where DEF FindRuntime, PromptUpsert, PromptRunning, RequestOk,
                             RequestRefused, RequestFails, SpawnFails
  <2> QED BY <1>1, <2>2, <2>3, <2>4, ServedOther
<1>5. CASE Remove(c)
  <2>1. TaskStep(c) /\ work[c].op # "launch"
    BY <1>1, <1>5, RemoveStep, Where DEF Remove
  <2>2. runtimes' = runtimes /\ process' = process /\ let_go' = let_go
    BY <1>5 DEF Remove, childVars, history
  <2>3. \A p \in Process : Running(p)' => Running(p)
    BY <2>2 DEF Running
  <2> QED BY <1>1, <2>1, <2>2, <2>3, ServedOther
<1>6. (LaunchIdle(c) \/ LaunchState(c)) => work[c].op = "launch"
  BY <1>1, Where DEF LaunchIdle, LaunchState
<1>7. EndStep(c) \/ ReadRun(c) \/ FinishRun(c) \/ SetIdle(c) => work[c].op # "launch"
  BY <1>1, Where DEF EndStep, SetStopping, ShutdownReturns, SetStopped, ReadRun, FinishRun,
                     SetIdle, Ending
<1> QED BY <1>1, <1>2, <1>3, <1>4, <1>5, <1>6, <1>7, ServedLock, ServedSpawn, ServedAgent,
           ServedInstall, ServedTake DEF RequestStep, SharedStep, EndStep

LEMMA ServedBridge ==
    ASSUME CoreInv, GhostInv, ServedInv, NEW p \in Process, BridgeStep(p)
    PROVE  ServedInv'
<1>1. p \in Worker /\ p \notin Connection
  BY Sorts
<1>2. work[p].op # "launch"
  BY <1>1, Where
<1>3. CASE Lagged(p) \/ RecvStart(p) \/ RecvEnd(p) \/ RecvExit(p)
  <2>1. UNCHANGED <<runtimes, process, lock, let_go>>
    BY <1>3 DEF Lagged, RecvStart, RecvEnd, RecvExit, Recv, history
  <2>2. \A c \in Connection : work'[c] = work[c]
    BY <1>1, <1>3, Sorts DEF Lagged, RecvStart, RecvEnd, RecvExit, CoreInv
  <2> QED BY <2>1, <2>2 DEF ServedInv, LaunchHas, Running
<1>4. CASE SharedStep(p)
  BY <1>1, <1>2, <1>4, ServedShared
<1> QED BY <1>3, <1>4 DEF BridgeStep, SharedStep

LEMMA ServedInit ==
    ASSUME ControllerInit
    PROVE  ServedInv
BY DEF ControllerInit, ServedInv, Running

LEMMA ServedNext ==
    ASSUME CoreInv, GhostInv, ServedInv, [Next]_vars
    PROVE  ServedInv'
<1>1. ASSUME NEW c \in Connection, NEW op \in Operation, Begin(c, op) PROVE ServedInv'
  <2>1. c \in Worker /\ TaskStep(c)
    BY <1>1, BeginStep, Sorts
  <2>2. work[c].op # "launch"
    BY <1>1, <2>1, Where DEF Begin, GoodTask, ConnectionAt, Persisting
  <2>3. /\ runtimes' = runtimes /\ let_go' = let_go
        /\ \A p \in Process : Running(p)' => Running(p)
    BY <1>1 DEF Begin, daemonVars, childVars, Running
  <2> QED BY <2>1, <2>2, <2>3, ServedOther
<1>2. ASSUME NEW c \in Connection, RequestStep(c) PROVE ServedInv'
  BY <1>2, ServedRequest
<1>3. ASSUME NEW p \in Process, BridgeStep(p) PROVE ServedInv'
  BY <1>3, ServedBridge
<1>4. ASSUME NEW p \in Process, Emit(p) \/ Exit(p) PROVE ServedInv'
  <2>1. UNCHANGED <<lock, runtimes, work, let_go>>
    BY <1>4 DEF Emit, Exit, daemonVars, history
  <2>2. \A q \in Process : Running(q)' => Running(q)
    BY <1>4, ChildStep
  <2> QED BY <2>1, <2>2 DEF ServedInv, LaunchHas
<1>5. CASE Terminate
  <2>1. Main \in Worker /\ TaskStep(Main) /\ work[Main].op # "launch"
    BY <1>5, TerminateStep, Sorts, Where
  <2>2. /\ runtimes' = runtimes /\ let_go' = let_go
        /\ \A p \in Process : Running(p)' => Running(p)
    BY <1>5 DEF Terminate, daemonVars, childVars, Running
  <2> QED BY <2>1, <2>2, ServedOther
<1>6. CASE MainStep
  <2>1. Main \in Worker /\ work[Main].op # "launch"
    BY Sorts, Where
  <2>2. Take(Main) \/ SharedStep(Main) \/ EndStep(Main)
    BY <1>6 DEF MainStep, SharedStep, EndStep
  <2> QED BY <2>1, <2>2, ServedTake, ServedShared
<1>7. CASE Restart
  BY <1>7, RestartStep DEF ServedInv
<1>8. CASE UNCHANGED vars
  <2>1. UNCHANGED <<lock, runtimes, process, work, let_go>>
    BY <1>8 DEF vars, daemonVars, childVars, history
  <2> QED BY <2>1 DEF ServedInv, LaunchHas, Running
<1> QED BY <1>1, <1>2, <1>3, <1>4, <1>5, <1>6, <1>7, <1>8 DEF Next

\* The map and the mutex have room for one process between them.
LEMMA ServedOne ==
    ASSUME CoreInv, ServedInv
    PROVE  OneServed
<1> DEFINE served == {p \in Process : Running(p) /\ p \notin let_go}
<1>1. ASSUME NEW p \in served
      PROVE  p \in runtimes \/ \E c \in lock : work[c].proc = p
  BY DEF ServedInv, LaunchHas
<1>2. served \subseteq runtimes \cup {work[c].proc : c \in lock}
  BY <1>1
<1>3. \A p, q \in served : p = q
  BY <1>1 DEF CoreInv, MapOK
<1>4. Cardinality(served) <= 1
  BY <1>3, AtMostOne
<1> QED BY <1>2, <1>4 DEF OneServed

-----------------------------------------------------------------------------
\* Theorems.

\* The inductive invariant of the controller: which labels each operation goes
\* through, that the runtimes mutex is held by exactly the launch between its
\* check and its insertion, and what a daemon that spawned nothing can show
\* (controller.rs, launch and DaemonController::new).
THEOREM ControllerInvariant == Spec => [](CoreInv /\ GhostInv)
<1>1. ControllerInit => CoreInv /\ GhostInv
  BY InitCore
<1>2. (CoreInv /\ GhostInv) /\ [Next]_vars => (CoreInv /\ GhostInv)'
  BY NextCore
<1> QED BY <1>1, <1>2, PTL DEF Spec

\* The state of the controller is well formed: one holder of the mutex, one
\* runtime in the map, and no more events than the channel's capacity.
THEOREM ControllerTypeCorrect == Spec => []TypeOK
<1>1. CoreInv /\ GhostInv => TypeOK
  BY CoreTypes
<1> QED BY <1>1, ControllerInvariant, PTL

\* Whatever the last daemon was doing when it ended, the next one shows nothing
\* starting, running or stopping, and no active run, until it launches a process
\* itself (Store::recover_interrupted, DaemonController::new).
THEOREM NoGhostWorkCorrect == Spec => []NoGhostWork
<1>1. CoreInv /\ GhostInv => NoGhostWork
  BY GhostWork
<1> QED BY <1>1, ControllerInvariant, PTL

\* The inductive invariant of processes: one that runs and that nobody has let go
\* is in the map or in the hands of the launch that holds the mutex (launch, stop
\* and shutdown of controller.rs).
THEOREM ServedInvariant == Spec => []ServedInv
<1>1. ControllerInit => ServedInv
  BY ServedInit
<1>2. CoreInv /\ GhostInv /\ ServedInv /\ [Next]_vars => ServedInv'
  BY ServedNext
<1> QED BY <1>1, <1>2, ControllerInvariant, PTL DEF Spec

\* Whatever the connections ask for and whenever processes end, no launch makes a
\* duplicate of a process that nobody has let go, and none gets out of reach of the
\* requests: there is one at most, in the map or with the launch that made it.
THEOREM OneServedCorrect == Spec => []OneServed
<1>1. CoreInv /\ GhostInv /\ ServedInv => OneServed
  BY ServedOne
<1> QED BY <1>1, ControllerInvariant, ServedInvariant, PTL
=============================================================================

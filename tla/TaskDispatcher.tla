--------------------------- MODULE TaskDispatcher ---------------------------
(***************************************************************************)
(* The task dispatcher of the hub (hub/dispatcher.py) with everything that *)
(* feeds it: webhook ingress, the unprocessed sweeper, operator reruns,    *)
(* crash and boot recovery, and the command line tool, a second process    *)
(* that writes to the same SQLite file.                                    *)
(*                                                                         *)
(* The daemon is one asyncio event loop: a coroutine keeps the loop from   *)
(* one suspension to the next. DatabaseManager is synchronous and the      *)
(* broker's publish never suspends, so a coroutine gives up the loop only  *)
(* while the action of a task runs. `loop` names the coroutine that holds  *)
(* the loop between two of its database commits: no other coroutine can    *)
(* step then, but the command line process can, and the daemon can crash.  *)
(***************************************************************************)
EXTENDS TaskStore, Sequences, SequencesExt, FiniteSets

CONSTANTS
    Event,        \* webhook deliveries, by (source, idempotency_key)
    Task,         \* task ids
    EventOf,      \* the event each task id is made for
    Alert,        \* the events posted to the alert route, which makes no task
    Malformed,    \* events whose payload rehydrate_orphaned_event cannot
                  \* convert: priority, timeout_seconds or max_retries is
                  \* no integer (the alert route takes any, the webhook route
                  \* takes a null timeout_seconds)
    Worker,       \* coroutines of _worker_loop
    Handler,      \* coroutines of handle_webhook
    None,         \* no task, no coroutine
    ClientMax,    \* values of max_retries clients send
    SyncAllowed,  \* whether clients use ?sync=true
    HasCli,       \* whether the command line tool runs beside the daemon
    MaxReruns,    \* bound: operator reruns of a task
    MaxFaults     \* bound: crashes and database errors of a behaviour

ASSUME TaskAssumption == IsFiniteSet(Task) /\ EventOf \in [Task -> Event]
ASSUME EventAssumption == Alert \subseteq Event /\ Malformed \subseteq Event
ASSUME ProcAssumption == Worker \cap Handler = {}
ASSUME NoneAssumption == None \notin Task \cup Worker \cup Handler
ASSUME NoTableAssumption == None \notin [Task -> Row]
ASSUME ClientMaxAssumption == ClientMax \subseteq Nat
ASSUME SwitchAssumption == SyncAllowed \in BOOLEAN /\ HasCli \in BOOLEAN
ASSUME BoundAssumption == MaxReruns \in Nat /\ MaxFaults \in Nat

Proc == Worker \cup Handler

VARIABLES
    events,      \* webhook_events.status, by event
    tasks,       \* the tasks table
    executions,  \* the executions table: attempt numbers of each task, in order
    pending,     \* the tasks table as last committed while the daemon's
                 \* connection has an open transaction, else None
    up,          \* the daemon is running
    queue,       \* TaskDispatcher.queue
    enqueued,    \* TaskDispatcher._enqueued_task_ids
    loop,        \* the coroutine holding the event loop, None between turns
    pc,          \* where each coroutine is
    job,         \* the task each coroutine is busy with
    seen,        \* the status and attempt each coroutine read with get_task
    outcome,     \* the final_status an execution ended with
    reruns,      \* history: operator reruns of each task
    faults       \* crashes and database errors so far

dbVars   == <<events, tasks, executions, pending>>
memVars  == <<queue, enqueued>>
procVars == <<loop, pc, job, seen, outcome>>
histVars == <<reruns, faults>>
vars     == <<dbVars, up, memVars, procVars, histVars>>

----------------------------------------------------------------------------
(* The database *)

TasksOf(e) == {t \in Task : EventOf[t] = e /\ tasks[t].status # "absent"}

UnprocessedEvents == {e \in Event : events[e] = "received"}

ProcessedOrphans == {e \in Event : events[e] = "processed" /\ TasksOf(e) = {}}

\* get_orphaned_webhook_events
Orphans == {e \in Event : events[e] = "received" /\ TasksOf(e) = {}}

\* A uuid no row and no coroutine uses yet.
Fresh(t) == tasks[t].status = "absent" /\ \A p \in Proc : job[p] # t

\* Step 3, rehydrate_orphaned_event: one new task id for each orphan in es, with
\* its max_retries, the payload's or the sweeper's default.
Rehydrations(es) ==
    UNION {[new -> ClientMax \cup {MaxAutoRetries}] :
             new \in {ts \in SUBSET Task :
                        /\ \A t \in ts : Fresh(t) /\ EventOf[t] \in es
                        /\ \A e \in es : \E t \in ts :
                              \A u \in ts : EventOf[u] = e <=> u = t}}

\* sweep_and_requeue_unprocessed on a table, with the rehydrated tasks.
SweptTable(table, new, auto) ==
    [t \in Task |-> IF t \in DOMAIN new THEN NewRow(new[t])
                    ELSE Swept(table[t], auto)]

\* What it has done when a malformed orphan makes it raise in step 3.
HalfSweptTable(table, new, auto) ==
    [t \in Task |-> IF t \in DOMAIN new THEN NewRow(new[t])
                    ELSE HalfSwept(table[t], auto)]

\* The table a crash leaves.
Committed == IF pending = None THEN tasks ELSE pending

QueuedIn(table) == {t \in Task : table[t].status = "queued"}

----------------------------------------------------------------------------
(* The in-memory queue *)

EnqueueAgain(t) == queue' = Append(queue, t) /\ enqueued' = enqueued \cup {t}

\* enqueue: a task id that is already known is dropped silently.
Enqueue(t) ==
    IF t \in enqueued THEN UNCHANGED memVars
    ELSE /\ enqueued' = enqueued \cup {t}
         /\ queue' = Append(queue, t)

EnqueueNone(ts) == UNCHANGED memVars

\* The enqueue loop of a sweep, over the ids the database returned. They come
\* by priority, then age; any order here, for any priorities.
EnqueueAll(ts) ==
    \E s \in SetToSeqs(ts \ enqueued) :
        /\ queue' = queue \o s
        /\ enqueued' = enqueued \cup ts

----------------------------------------------------------------------------
(* Coroutines *)

LoopFree == up /\ loop = None

Goto(p, label) == pc' = [pc EXCEPT ![p] = label]

NotSeen == [status |-> "absent", attempt |-> 0]

ReleaseKeepingId(p) ==
    /\ Goto(p, "idle")
    /\ job' = [job EXCEPT ![p] = None]
    /\ seen' = [seen EXCEPT ![p] = NotSeen]
    /\ outcome' = [outcome EXCEPT ![p] = "absent"]
    /\ loop' = None
    /\ UNCHANGED enqueued

\* A coroutine is done with its task. A worker's finally clause then forgets
\* the id; a handler never had it in _enqueued_task_ids.
Release(p) ==
    /\ Goto(p, "idle")
    /\ job' = [job EXCEPT ![p] = None]
    /\ seen' = [seen EXCEPT ![p] = NotSeen]
    /\ outcome' = [outcome EXCEPT ![p] = "absent"]
    /\ loop' = None
    /\ enqueued' = IF p \in Worker THEN enqueued \ {job[p]} ELSE enqueued

----------------------------------------------------------------------------
(* Ingress: handle_webhook *)

\* No task for this delivery yet: insert the event, or find the one an earlier
\* delivery left without a task. The task id is drawn here too.
ReceiveWebhook(h, e) ==
    /\ LoopFree /\ pc[h] = "idle"
    /\ e \notin Alert /\ TasksOf(e) = {}
    /\ \E t \in Task : /\ EventOf[t] = e /\ Fresh(t)
                       /\ job' = [job EXCEPT ![h] = t]
    /\ events' = [events EXCEPT ![e] = IF @ = "absent" THEN "received" ELSE @]
    /\ pending' = IF events[e] = "absent" THEN None ELSE pending
    /\ Goto(h, "insert") /\ loop' = h
    /\ UNCHANGED <<tasks, executions, up, memVars, seen, outcome, histVars>>

\* handle_alert_webhook, for an alert the filter finds critical: the event is
\* 'received', and the sweeper will make a task of it.
ReceiveAlert(e) ==
    /\ LoopFree /\ e \in Alert /\ events[e] = "absent"
    /\ events' = [events EXCEPT ![e] = "received"]
    /\ pending' = None
    /\ UNCHANGED <<tasks, executions, up, memVars, procVars, histVars>>

\* insert_task, then enqueue and the 202 answer.
AcceptWebhook(h) ==
    /\ pc[h] = "insert"
    /\ \E m \in ClientMax : tasks' = [tasks EXCEPT ![job[h]] = NewRow(m)]
    /\ Enqueue(job[h])
    /\ Goto(h, "idle") /\ job' = [job EXCEPT ![h] = None] /\ loop' = None
    /\ pending' = None
    /\ UNCHANGED <<events, executions, up, seen, outcome, histVars>>

\* insert_task, then execute_task in the handler itself (?sync=true).
AcceptSyncWebhook(h) ==
    /\ SyncAllowed
    /\ pc[h] = "insert"
    /\ \E m \in ClientMax : tasks' = [tasks EXCEPT ![job[h]] = NewRow(m)]
    /\ Goto(h, "load")
    /\ pending' = None
    /\ UNCHANGED <<events, executions, up, memVars, loop, job, seen, outcome,
                   histVars>>

----------------------------------------------------------------------------
(* Execution: _worker_loop and execute_task *)

TakeTaskForgetting(w) ==
    /\ LoopFree /\ pc[w] = "idle" /\ queue # <<>>
    /\ job' = [job EXCEPT ![w] = Head(queue)]
    /\ queue' = Tail(queue) /\ enqueued' = enqueued \ {Head(queue)}
    /\ Goto(w, "load") /\ loop' = w
    /\ UNCHANGED <<dbVars, up, seen, outcome, histVars>>

\* queue.get()
TakeTask(w) ==
    /\ LoopFree /\ pc[w] = "idle" /\ queue # <<>>
    /\ job' = [job EXCEPT ![w] = Head(queue)]
    /\ queue' = Tail(queue)
    /\ Goto(w, "load") /\ loop' = w
    /\ UNCHANGED <<dbVars, up, enqueued, seen, outcome, histVars>>

\* get_task: a terminal task is left alone.
LoadTask(p) ==
    /\ pc[p] = "load"
    /\ LET row == tasks[job[p]] IN
       IF row.status \in Terminal \cup {"absent"}
       THEN Release(p)
       ELSE /\ seen' = [seen EXCEPT ![p] = [status |-> row.status,
                                            attempt |-> row.retry + 1]]
            /\ Goto(p, "cas")
            /\ UNCHANGED <<enqueued, loop, job, outcome>>
    /\ UNCHANGED <<dbVars, up, queue, histVars>>

\* Compare-and-swap to 'running' from the status read, a commit of its own.
StartTask(p) ==
    /\ pc[p] = "cas"
    /\ IF tasks[job[p]].status = seen[p].status
       THEN /\ tasks' = [tasks EXCEPT ![job[p]] = Started(@)]
            /\ Goto(p, "record")
            /\ UNCHANGED <<enqueued, loop, job, seen, outcome>>
       ELSE Release(p) /\ UNCHANGED tasks
    /\ pending' = None
    /\ UNCHANGED <<events, executions, up, queue, histVars>>

\* insert_execution; the loop is free again while the action runs.
RecordExecution(p) ==
    /\ pc[p] = "record"
    /\ executions' = [executions EXCEPT ![job[p]] = Append(@, seen[p].attempt)]
    /\ Goto(p, "run") /\ loop' = None
    /\ pending' = None
    /\ UNCHANGED <<events, tasks, up, memVars, job, seen, outcome, histVars>>

\* insert_execution raises: logged, and the action runs without its row.
RecordError(p) ==
    /\ pc[p] = "record" /\ faults < MaxFaults
    /\ Goto(p, "run") /\ loop' = None
    /\ faults' = faults + 1
    /\ UNCHANGED <<dbVars, up, memVars, job, seen, outcome, reruns>>

\* sqlite3 raises ('database is locked'): the worker loop logs and goes on.
StartError(p) ==
    /\ pc[p] \in {"load", "cas"} /\ faults < MaxFaults
    /\ Release(p)
    /\ faults' = faults + 1
    /\ UNCHANGED <<dbVars, up, queue, reruns>>

\* How an action can end: exit code, error text and the timeout of
\* asyncio.wait_for.
Outcomes == {<<"succeeded", "none">>, <<"failed", "other">>,
             <<"failed", "recoverable">>, <<"timed_out", "recoverable">>}

\* Compare-and-swap from 'running' to the final status. Its result is not
\* looked at.
FinishTask(p) ==
    /\ LoopFree /\ pc[p] = "run"
    /\ \E o \in Outcomes :
          /\ tasks' = [tasks EXCEPT ![job[p]] = Settled(@, o[1], o[2])]
          /\ outcome' = [outcome EXCEPT ![p] = o[1]]
    /\ Goto(p, "mark") /\ loop' = p
    /\ pending' = None
    /\ UNCHANGED <<events, executions, up, memVars, job, seen, histVars>>

\* A write to another table commits whatever the connection has open: a log
\* line of a running task, its pid, a schedule, a watched session.
WriteLog ==
    /\ LoopFree /\ pending # None
    /\ pending' = None
    /\ UNCHANGED <<events, tasks, executions, up, memVars, procVars, histVars>>

\* POST /tasks (handle_create_task) records no event, as the store has no
\* insert_event: the task's insert fails on its foreign key, the request with
\* it, and the transaction the statement began stays open.
CreateTask ==
    /\ LoopFree /\ faults < MaxFaults
    /\ faults' = faults + 1
    /\ pending' = Committed
    /\ UNCHANGED <<events, tasks, executions, up, memVars, procVars, reruns>>

\* The terminal compare-and-swap raises: the row keeps its status.
FinishError(p) ==
    /\ LoopFree /\ pc[p] = "run" /\ faults < MaxFaults
    /\ Release(p)
    /\ faults' = faults + 1
    /\ pending' = None
    /\ UNCHANGED <<events, tasks, executions, up, queue, reruns>>

\* update_event_status(event_id, 'processed') after a success, and the end of
\* the coroutine's turn.
MarkEvent(p) ==
    /\ pc[p] = "mark"
    /\ events' = IF outcome[p] = "succeeded"
                 THEN [events EXCEPT ![EventOf[job[p]]] = "processed"]
                 ELSE events
    /\ Release(p)
    /\ UNCHANGED <<tasks, executions, pending, up, queue, histVars>>

----------------------------------------------------------------------------
(* Sweeper and operators *)

\* sweep_unprocessed_tasks: the periodic sweep (auto is TRUE by default) and
\* POST /tasks/sweep.
Sweep(auto) ==
    /\ LoopFree /\ Orphans \cap Malformed = {}
    /\ \E new \in Rehydrations(Orphans) : tasks' = SweptTable(tasks, new, auto)
    /\ EnqueueAll(QueuedIn(tasks'))
    /\ pending' = None
    /\ UNCHANGED <<events, executions, up, procVars, histVars>>

\* A malformed orphan ends the sweep: the orphans that came before it have been
\* committed, each with all that precedes it; nothing is enqueued.
AbortSweep(auto) ==
    /\ LoopFree /\ Orphans \cap Malformed # {}
    /\ \E before \in SUBSET (Orphans \ Malformed) :
          /\ \E new \in Rehydrations(before) :
                tasks' = HalfSweptTable(tasks, new, auto)
          /\ pending' = IF before = {} THEN Committed ELSE None
    /\ UNCHANGED <<events, executions, up, memVars, procVars, histVars>>

\* POST /tasks/{task_id}/rerun
RerunTask(t) ==
    /\ LoopFree /\ tasks[t].status # "absent" /\ reruns[t] < MaxReruns
    /\ tasks' = [tasks EXCEPT ![t] = Rerun(@)]
    /\ reruns' = [reruns EXCEPT ![t] = @ + 1]
    /\ Enqueue(t)
    /\ pending' = None
    /\ UNCHANGED <<events, executions, up, procVars, faults>>

\* webhook-hub sweep and rerun without a reachable daemon (down, or slower than
\* the two seconds the tool waits): straight to SQLite, no queue. While the
\* daemon's connection has an open transaction the file is locked for them.
CliSweep(auto) ==
    /\ HasCli /\ pending = None
    /\ Orphans \cap Malformed = {}
    /\ \E new \in Rehydrations(Orphans) : tasks' = SweptTable(tasks, new, auto)
    /\ UNCHANGED <<events, executions, pending, up, memVars, procVars, histVars>>

\* The tool ends with the exception, and its open transaction with it.
AbortCliSweep(auto) ==
    /\ HasCli /\ pending = None
    /\ Orphans \cap Malformed # {}
    /\ \E before \in (SUBSET (Orphans \ Malformed)) \ {{}} :
          \E new \in Rehydrations(before) :
             tasks' = HalfSweptTable(tasks, new, auto)
    /\ UNCHANGED <<events, executions, pending, up, memVars, procVars, histVars>>

CliRerun(t) ==
    /\ HasCli /\ pending = None
    /\ tasks[t].status # "absent" /\ reruns[t] < MaxReruns
    /\ tasks' = [tasks EXCEPT ![t] = Rerun(@)]
    /\ reruns' = [reruns EXCEPT ![t] = @ + 1]
    /\ UNCHANGED <<events, executions, pending, up, memVars, procVars, faults>>

----------------------------------------------------------------------------
(* Time, crash and boot *)

\* A running row passes MAX(stale_running_seconds, timeout_seconds).
GrowStale(t) ==
    /\ tasks[t].status = "running" /\ ~tasks[t].aged
    /\ tasks' = [tasks EXCEPT ![t].aged = TRUE]
    /\ UNCHANGED <<events, executions, pending, up, memVars, procVars, histVars>>

\* Power loss, a kill, or stop(): memory is gone, and what was not committed.
Crash ==
    /\ up /\ faults < MaxFaults
    /\ up' = FALSE
    /\ tasks' = Committed /\ pending' = None
    /\ queue' = <<>> /\ enqueued' = {} /\ loop' = None
    /\ pc' = [p \in Proc |-> "idle"]
    /\ job' = [p \in Proc |-> None]
    /\ seen' = [p \in Proc |-> NotSeen]
    /\ outcome' = [p \in Proc |-> "absent"]
    /\ faults' = faults + 1
    /\ UNCHANGED <<events, executions, reruns>>

\* recover_orphaned_tasks
Recovered == [t \in Task |-> RecoverOrphaned(tasks[t])]

\* start(): recover_orphaned_tasks, the boot sweep, then get_queued_tasks; the
\* workers and the HTTP server start after it.
Boot ==
    /\ ~up /\ up' = TRUE
    /\ Orphans \cap Malformed = {}
    /\ \E new \in Rehydrations(Orphans) :
          tasks' = SweptTable(Recovered, new, TRUE)
    /\ EnqueueAll(QueuedIn(tasks'))
    /\ UNCHANGED <<events, executions, pending, procVars, histVars>>

\* The boot sweep fails on a malformed orphan; get_queued_tasks still enqueues.
BootWithoutSweep ==
    /\ ~up /\ up' = TRUE
    /\ Orphans \cap Malformed # {}
    /\ \E before \in SUBSET (Orphans \ Malformed) :
          /\ \E new \in Rehydrations(before) :
                tasks' = HalfSweptTable(Recovered, new, TRUE)
          /\ pending' = IF before = {} THEN Recovered ELSE None
    /\ EnqueueAll(QueuedIn(tasks'))
    /\ UNCHANGED <<events, executions, procVars, histVars>>

----------------------------------------------------------------------------
Init ==
    /\ events = [e \in Event |-> "absent"]
    /\ tasks = [t \in Task |-> NoRow]
    /\ executions = [t \in Task |-> <<>>]
    /\ pending = None
    /\ up = TRUE
    /\ queue = <<>> /\ enqueued = {} /\ loop = None
    /\ pc = [p \in Proc |-> "idle"]
    /\ job = [p \in Proc |-> None]
    /\ seen = [p \in Proc |-> NotSeen]
    /\ outcome = [p \in Proc |-> "absent"]
    /\ reruns = [t \in Task |-> 0]
    /\ faults = 0

Ingress(h) == \/ \E e \in Event : ReceiveWebhook(h, e)
              \/ AcceptWebhook(h)
              \/ AcceptSyncWebhook(h)

Execute(p) == \/ LoadTask(p)
              \/ StartTask(p)
              \/ StartError(p)
              \/ RecordExecution(p)
              \/ RecordError(p)
              \/ FinishTask(p)
              \/ FinishError(p)
              \/ MarkEvent(p)

Operate == \/ \E e \in Event : ReceiveAlert(e)
           \/ \E auto \in BOOLEAN : \/ Sweep(auto) \/ AbortSweep(auto)
                                    \/ CliSweep(auto) \/ AbortCliSweep(auto)
           \/ \E t \in Task : RerunTask(t) \/ CliRerun(t) \/ GrowStale(t)

Next == \/ \E h \in Handler : Ingress(h)
        \/ \E w \in Worker : TakeTask(w)
        \/ \E p \in Proc : Execute(p)
        \/ WriteLog
        \/ CreateTask
        \/ Operate
        \/ Crash
        \/ Boot
        \/ BootWithoutSweep

Spec == Init /\ [][Next]_vars

\* The loop runs every ready coroutine in turn; an action ends (subprocesses
\* and HTTP calls have timeouts); the sweeper loop ticks; time passes; launchd
\* restarts the daemon.
Fairness ==
    /\ \A h \in Handler : WF_vars(AcceptWebhook(h))
    /\ \A w \in Worker : WF_vars(TakeTask(w))
    /\ \A p \in Proc : /\ WF_vars(LoadTask(p)) /\ WF_vars(StartTask(p))
                       /\ WF_vars(RecordExecution(p))
                       /\ WF_vars(FinishTask(p)) /\ WF_vars(MarkEvent(p))
    /\ \A t \in Task : WF_vars(GrowStale(t))
    /\ WF_vars(Sweep(TRUE)) /\ WF_vars(AbortSweep(TRUE))
    /\ WF_vars(Boot) /\ WF_vars(BootWithoutSweep)

FairSpec == Spec /\ Fairness

----------------------------------------------------------------------------
(* Properties *)

Queued == {queue[i] : i \in 1..Len(queue)}

Held == {job[w] : w \in {v \in Worker : pc[v] # "idle"}}

PcLabels == {"idle", "insert", "load", "cas", "record", "run", "mark"}

\* Every variable has its type, an idle coroutine has no task, and between two
\* turns of the loop every busy coroutine is inside an action.
TypeOK ==
    /\ events \in [Event -> {"absent", "received", "processed"}]
    /\ tasks \in [Task -> Row] /\ pending \in [Task -> Row] \cup {None}
    /\ executions \in [Task -> Seq(Nat)]
    /\ up \in BOOLEAN
    /\ queue \in Seq(Task) /\ enqueued \subseteq Task
    /\ loop \in Proc \cup {None}
    /\ pc \in [Proc -> PcLabels]
    /\ job \in [Proc -> Task \cup {None}]
    /\ seen \in [Proc -> [status : Status, attempt : Nat]]
    /\ outcome \in [Proc -> Terminal \cup {"absent"}]
    /\ reruns \in [Task -> Nat] /\ faults \in Nat
    /\ \A p \in Proc : /\ pc[p] = "idle" <=> job[p] = None
                       /\ pc[p] \in {"idle", "run"} \/ loop = p

\* The duplicate guard is exact: the queue never holds an id twice, and
\* _enqueued_task_ids is the queue and what the workers hold. An id that stayed
\* in the set with nobody holding it could never be enqueued again.
QueueIntegrity ==
    /\ \A i, j \in 1..Len(queue) : i # j => queue[i] # queue[j]
    /\ Queued \cap Held = {}
    /\ enqueued = Queued \cup Held

\* No interleaving of reruns, sweeps and late results gives one task to two
\* workers.
WorkersExclusive ==
    \A v, w \in Worker : v # w /\ job[v] = job[w] => job[v] = None

\* While an id waits in the queue nothing moves its row out of 'queued', so
\* execute_task's compare-and-swap, which would accept 'running' as the
\* expected status, only ever starts a task from 'queued'.
StartsFromQueued ==
    /\ \A t \in Queued : tasks[t].status = "queued"
    /\ \A p \in Proc : pc[p] = "cas" => seen[p].status = "queued"

\* A task is executed at most once per granted attempt: the first, one per
\* automatic retry within its limit, one per operator rerun, over crashes,
\* stale sweeps and concurrent command line sweeps.
RunBudget ==
    \A t \in Task :
        Len(executions[t]) <= RetryLimit(tasks[t]) + reruns[t] + 1

\* The attempt numbers of the executions table tell the runs of a task apart
\* and give their order, although they are computed from a row read before
\* the compare-and-swap.
AttemptsIncrease ==
    \A t \in Task : \A i \in 1..(Len(executions[t]) - 1) :
        executions[t][i] < executions[t][i + 1]

\* No recorded run of a task is newer than the one a worker has in hand: a
\* worker's terminal write can never be credited to a later attempt.
WorkerRunIsLatest ==
    \A w \in Worker : pc[w] = "run" =>
        \A i \in 1..Len(executions[job[w]]) :
            executions[job[w]][i] <= seen[w].attempt

\* A delivery gets one task, whatever crashes and sweeps come between the
\* commit of the event and the commit of the task. (In one process.)
OneTaskPerEvent == \A e \in Event : Cardinality(TasksOf(e)) <= 1

\* A committed terminal status is left only to be queued again with a new
\* attempt, and success only by an operator: no late result overwrites one.
TerminalSticks ==
    [][\A t \in Task :
          /\ Committed[t].status \in Terminal
          /\ Committed'[t].status # Committed[t].status
          => /\ Committed'[t].status = "queued"
             /\ Committed'[t].retry = Committed[t].retry + 1
             /\ Committed[t].status = "succeeded" => reruns'[t] = reruns[t] + 1]_vars

\* A received event, even one a crash left without a task, gets its task.
EventsHandled ==
    \A e \in Event : events[e] = "received" ~> TasksOf(e) # {}

\* A task that waits or runs reaches a final status: no id is forgotten between
\* the table, the queue and the set, and retries end.
TasksSettle ==
    \A t \in Task :
        tasks[t].status \in {"queued", "running"} ~> tasks[t].status \in Terminal

\* The life of a task as the committed table and the executions table tell it.
PhaseOf(row) == CASE row.status = "absent" -> "none"
                  [] row.status \in {"received", "queued"} -> "waiting"
                  [] row.status \in {"failed", "timed_out"} -> "failed"
                  [] OTHER -> row.status

LastRun(t) == IF executions[t] = <<>> THEN 0 ELSE Last(executions[t])

\* A run of the task has begun that the executions table does not have yet.
Unnumbered(t) == \E p \in Proc : pc[p] = "record" /\ job[p] = t

Life == INSTANCE TaskLifecycle WITH
            phase   <- [t \in Task |-> PhaseOf(Committed[t])],
            granted <- [t \in Task |-> Committed[t].retry + 1],
            started <- [t \in Task |-> LastRun(t)],
            unnumbered <- [t \in Task |-> Unnumbered(t)],
            asked   <- reruns

\* The dispatcher, with its queue, retries, crashes and the second process,
\* implements the abstract life of a task: a run begins only from a committed
\* 'queued' and gets at most one number, one of its own and granted, whatever
\* comes between the two commits; no crash brings a number back.
Lifecycle == Life!Spec

----------------------------------------------------------------------------
(* What the repository says and the code does not do (see the findings) *)

\* Two coroutines never run the action of one task at the same time.
NoConcurrentRuns ==
    \A p, q \in Proc : p # q /\ pc[p] = "run" /\ pc[q] = "run" => job[p] # job[q]

\* An event becomes 'processed' only when a task of it has succeeded.
MarkedOnSuccess ==
    [][\A e \in Event :
          events[e] # "processed" /\ events'[e] = "processed"
          => \E t \in TasksOf(e) : tasks[t].status = "succeeded"]_vars
============================================================================

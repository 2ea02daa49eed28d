------------------------------ MODULE Scheduler ------------------------------
(***************************************************************************)
(* The task scheduler (hub/scheduler.py) over the table scheduled_tasks:   *)
(* the sweep of due schedules, manual triggers, pause, resume and delete,  *)
(* scheduled webhook deliveries, and the command line tool, which does the *)
(* same things straight on the file when the daemon does not answer.       *)
(*                                                                         *)
(* A trigger is three commits: the event, the task, the record on the      *)
(* schedule. Nothing in it suspends, so inside the daemon a whole sweep is *)
(* one turn of the event loop; the tool writes between its commits all the *)
(* same, a crash may end it there, and sqlite3 may raise at each of them.  *)
(* The sweep acts on the rows it read when the turn began.                 *)
(*                                                                         *)
(* max_runs is stored as the client sent it, and read as a number only     *)
(* between the task and the record: Text stands for one int() refuses.     *)
(* Every trigger of such a schedule ends there, after its task.            *)
(*                                                                         *)
(* RecordedKeepingNext, RecordedFromSnapshot, RecordedUnlimited,           *)
(* NextItemForgettingEnd and TriggerErrorCompleting are wrong on purpose:  *)
(* slips the properties must notice.                                       *)
(***************************************************************************)
EXTENDS Integers, Sequences, SequencesExt, FiniteSets, FiniteSetsExt

CONSTANTS
    Schedule,      \* schedule ids
    Delivery,      \* scheduled webhook deliveries, by idempotency key
    MaxRuns,       \* values of max_runs clients send; 0 is none
    Text,          \* a max_runs that int() refuses
    Period,        \* the cron expression fires at the multiples of Period
    MaxTime,       \* bound: the clock
    MaxCommands,   \* bound: schedules made and operator commands
    MaxFaults,     \* bound: crashes and database errors
    MaxUnrecorded, \* bound: sweeps trigger a schedule with Text while it has
                   \* made fewer tasks
    None

ASSUME ScheduleAssumption == IsFiniteSet(Schedule)
ASSUME PeriodAssumption == Period \in Nat \ {0}
ASSUME RunsAssumption == MaxRuns \subseteq Int \cup {Text} /\ Text \notin Int
ASSUME BoundsAssumption == /\ MaxTime \in Nat /\ MaxCommands \in Nat
                           /\ MaxFaults \in Nat /\ MaxUnrecorded \in Nat

VARIABLES
    rows,       \* the table scheduled_tasks
    orphans,    \* per schedule: trigger events whose trigger ended before the task
    made,       \* per schedule: trigger events that got their task
    fired,      \* history: tasks the sweep made, by schedule and due time
    ops,        \* history: operator commands on each schedule
    deliveries, \* history: the schedules made for each delivery
    now,        \* the clock
    up,         \* the daemon is running
    turn,       \* the trigger or sweep the daemon is in the middle of
    tool,       \* the trigger the command line tool is in the middle of
    faults

dbVars   == <<rows, orphans, made>>
histVars == <<fired, ops, deliveries, faults>>
vars     == <<dbVars, histVars, now, up, turn, tool>>

----------------------------------------------------------------------------
(* Rows *)

Time == 0..(MaxTime + Period)

Status == {"absent", "active", "paused", "completed", "cancelled", "deleted"}

Row == [status : Status, type : {"once", "recurring"}, next : Time,
        max : Int \cup {Text}, total : Nat]

Larger(a, b) == IF a < b THEN b ELSE a

NoRow == [status |-> "absent", type |-> "once", next |-> 0, max |-> 0, total |-> 0]

Present(s) == rows[s].status \notin {"absent", "deleted"}

\* The bound on what clients and operators do; a schedule made counts twice.
Commands == 2 * Cardinality({s \in Schedule : rows[s].status # "absent"})
            + MapThenSumSet(LAMBDA s : ops[s], Schedule)

MayCreate == Commands + 2 <= MaxCommands

MayCommand == Commands < MaxCommands

\* compute_next_cron_run: the first matching time after t (CronSearch).
NextCron(t) == (t \div Period + 1) * Period

\* get_due_schedules
Due(s) == rows[s].status = "active" /\ rows[s].next <= now

\* insert_schedule: a one-off at its time; a recurring one from its first match.
OnceRow(at, max) == [NoRow EXCEPT !.status = "active", !.next = at, !.max = max]

RecurringRow(max) == [NoRow EXCEPT !.status = "active", !.type = "recurring",
                                   !.next = NextCron(now), !.max = max]

----------------------------------------------------------------------------
(* What a trigger writes on the row, from the row it read and its clock *)

\* The daemon: a one-off is completed, a recurring one active, whatever it was;
\* the last of max_runs completes either, the first if max_runs is negative.
NewStatus(seen) ==
    IF \/ seen.type = "once"
       \/ seen.max # 0 /\ seen.total + 1 >= seen.max
    THEN "completed" ELSE "active"

\* The tool has no max_runs and leaves the status of a recurring schedule.
ToolStatus(seen, row) == IF seen.type = "once" THEN "completed" ELSE row.status

RecordedKeepingNext(row, seen, at, status) ==
    [row EXCEPT !.total = @ + 1, !.status = status]

RecordedFromSnapshot(row, seen, at, status) ==
    [row EXCEPT !.total = seen.total + 1, !.status = status,
                !.next = IF seen.type = "once" THEN @ ELSE NextCron(at)]

RecordedUnlimited(row, seen, at, status) ==
    [row EXCEPT !.total = @ + 1, !.next = NextCron(at),
                !.status = IF seen.type = "once" THEN status ELSE "active"]

\* record_schedule_execution: total_runs counts in SQL, next_run_at only when a
\* new one was computed; a deleted row is not brought back.
Recorded(row, seen, at, status) ==
    IF row.status = "deleted" THEN row
    ELSE [row EXCEPT !.total = @ + 1, !.status = status,
                     !.next = IF seen.type = "once" THEN @ ELSE NextCron(at)]

----------------------------------------------------------------------------
(* Turns *)

Idle == [step |-> "idle", by |-> "timer", todo |-> <<>>, at |-> 0]

LoopFree == up /\ turn.step = "idle"

\* The snapshot of a row with its id.
Item(s) == [id |-> s, row |-> rows[s]]

Items == [id : Schedule, row : Row]

ASSUME NoneAssumption == None \notin Items

\* The schedules due, up to the bound.
ToTrigger == {s \in Schedule :
                 Due(s) /\ (rows[s].max = Text => made[s] < MaxUnrecorded)}

\* They come by next_run_at; ties in any order.
DueLists == {q \in SetToSeqs({Item(s) : s \in ToTrigger}) :
                \A i, j \in 1..Len(q) : i < j => q[i].row.next <= q[j].row.next}

BeginSweep == \E q \in DueLists :
    turn' = IF q = <<>> THEN Idle
            ELSE [step |-> "event", by |-> "timer", todo |-> q, at |-> now]

Current == Head(turn.todo)

NextItemForgettingEnd == turn' = [turn EXCEPT !.step = "event", !.todo = Tail(@)]

\* The trigger at hand is done, or given up: go on with the next one.
NextItem == turn' = IF Len(turn.todo) = 1 THEN Idle
                    ELSE [turn EXCEPT !.step = "event", !.todo = Tail(@)]

\* sweep_due: the loop's tick, the boot, or POST /schedules/sweep.
SweepDue ==
    /\ LoopFree
    /\ BeginSweep
    /\ UNCHANGED <<dbVars, histVars, now, up, tool>>

\* trigger_now, at any status of the schedule.
TriggerNow(s) ==
    /\ LoopFree /\ Present(s) /\ MayCommand
    /\ turn' = [step |-> "event", by |-> "operator", todo |-> <<Item(s)>>,
                at |-> now]
    /\ ops' = [ops EXCEPT ![s] = @ + 1]
    /\ UNCHANGED <<dbVars, fired, deliveries, faults, now, up, tool>>

\* insert_webhook_event, a 'received' event of its own for every trigger.
InsertEvent ==
    /\ turn.step = "event"
    /\ turn' = [turn EXCEPT !.step = "task"]
    /\ UNCHANGED <<dbVars, histVars, now, up, tool>>

\* The event of a trigger that ends between the event and the task.
Abandoned == [s \in Schedule |->
                 orphans[s] + IF turn.step = "task" /\ Current.id = s THEN 1 ELSE 0]

\* insert_task for that event.
InsertTask ==
    /\ turn.step = "task"
    /\ made' = [made EXCEPT ![Current.id] = @ + 1]
    /\ fired' = IF turn.by = "timer"
                THEN [fired EXCEPT ![Current.id][Current.row.next] = @ + 1]
                ELSE fired
    /\ turn' = [turn EXCEPT !.step = "record"]
    /\ UNCHANGED <<rows, orphans, ops, deliveries, faults, now, up, tool>>

\* record_schedule_execution, then enqueue and the events, without suspending.
RecordExecution ==
    /\ turn.step = "record" /\ Current.row.max # Text
    /\ rows' = [rows EXCEPT ![Current.id] =
                    Recorded(@, Current.row, turn.at, NewStatus(Current.row))]
    /\ NextItem
    /\ UNCHANGED <<orphans, made, histVars, now, up, tool>>

\* int(max_runs) raises before the record: the sweep logs it and goes on, and
\* the schedule is due again. The task is left to the sweeper.
RecordFails ==
    /\ turn.step = "record" /\ Current.row.max = Text
    /\ NextItem
    /\ UNCHANGED <<dbVars, histVars, now, up, tool>>

TriggerErrorCompleting ==
    /\ turn.step # "idle" /\ faults < MaxFaults
    /\ rows' = [rows EXCEPT ![Current.id].status = "completed"]
    /\ NextItem
    /\ orphans' = Abandoned
    /\ faults' = faults + 1
    /\ UNCHANGED <<made, fired, ops, deliveries, now, up, tool>>

\* sqlite3 raises in one of the three: the sweep logs it and goes on with the
\* next schedule; what was committed stays.
TriggerError ==
    /\ turn.step # "idle" /\ faults < MaxFaults
    /\ NextItem
    /\ orphans' = Abandoned
    /\ faults' = faults + 1
    /\ UNCHANGED <<rows, made, fired, ops, deliveries, now, up, tool>>

----------------------------------------------------------------------------
(* Operators *)

NewSchedule(s) ==
    /\ rows[s].status = "absent" /\ MayCreate
    /\ \/ \E at \in now..MaxTime : rows' = [rows EXCEPT ![s] = OnceRow(at, 1)]
       \/ \E m \in MaxRuns : rows' = [rows EXCEPT ![s] = RecurringRow(m)]

\* create_schedule. A time in the past is due at once, like now.
CreateSchedule(s) ==
    /\ LoopFree /\ NewSchedule(s)
    /\ UNCHANGED <<orphans, made, histVars, now, up, turn, tool>>

\* A webhook with a delay or a cron header: the event becomes 'scheduled', once;
\* the schedule is made whether or not the event was new. Only a task would be
\* a duplicate, and no task ever has this event.
ReceiveScheduled(d, s) ==
    /\ LoopFree /\ NewSchedule(s)
    /\ deliveries' = [deliveries EXCEPT ![d] = @ \cup {s}]
    /\ UNCHANGED <<orphans, made, fired, ops, faults, now, up, turn, tool>>

Stopped(s) ==
    /\ Present(s) /\ MayCommand
    /\ rows' = [rows EXCEPT ![s].status = "paused"]
    /\ ops' = [ops EXCEPT ![s] = @ + 1]
    /\ UNCHANGED <<orphans, made, fired, deliveries, faults, now, up, turn, tool>>

\* Only a recurring schedule gets a new time.
Restarted(s) ==
    /\ Present(s) /\ MayCommand
    /\ rows' = [rows EXCEPT ![s].status = "active",
                            ![s].next = IF rows[s].type = "once" THEN @
                                        ELSE NextCron(now)]
    /\ ops' = [ops EXCEPT ![s] = @ + 1]
    /\ UNCHANGED <<orphans, made, fired, deliveries, faults, now, up, turn, tool>>

\* pause_schedule and resume_schedule ask nothing of the status.
Pause(s) == LoopFree /\ Stopped(s)

Resume(s) == LoopFree /\ Restarted(s)

\* DELETE /schedules/{id}: cancelled, then deleted, in two commits.
Cancel(s) ==
    /\ LoopFree /\ Present(s) /\ MayCommand
    /\ rows' = [rows EXCEPT ![s].status = "cancelled"]
    /\ ops' = [ops EXCEPT ![s] = @ + 1]
    /\ turn' = [step |-> "delete", by |-> "operator", todo |-> <<Item(s)>>, at |-> now]
    /\ UNCHANGED <<orphans, made, fired, deliveries, faults, now, up, tool>>

Delete ==
    /\ turn.step = "delete"
    /\ rows' = [rows EXCEPT ![Current.id].status = "deleted"]
    /\ turn' = Idle
    /\ UNCHANGED <<orphans, made, histVars, now, up, tool>>

----------------------------------------------------------------------------
(* The command line tool, without an answer from the daemon *)

ToolIdle == [step |-> "idle", item |-> None, at |-> 0]

\* The tool takes max_runs of a one-off as given, and a number only.
ToolCreate(s) ==
    /\ rows[s].status = "absent" /\ MayCreate
    /\ \E m \in MaxRuns \ {Text} :
          \/ \E at \in now..MaxTime : rows' = [rows EXCEPT ![s] = OnceRow(at, m)]
          \/ rows' = [rows EXCEPT ![s] = RecurringRow(m)]
    /\ UNCHANGED <<orphans, made, histVars, now, up, turn, tool>>

ToolPause(s) == Stopped(s)

ToolResume(s) == Restarted(s)

ToolDelete(s) ==
    /\ Present(s) /\ MayCommand
    /\ rows' = [rows EXCEPT ![s].status = "deleted"]
    /\ ops' = [ops EXCEPT ![s] = @ + 1]
    /\ UNCHANGED <<orphans, made, fired, deliveries, faults, now, up, turn, tool>>

\* get_schedule and the clock
ToolTrigger(s) ==
    /\ tool.step = "idle" /\ Present(s) /\ MayCommand
    /\ tool' = [step |-> "event", item |-> Item(s), at |-> now]
    /\ ops' = [ops EXCEPT ![s] = @ + 1]
    /\ UNCHANGED <<dbVars, fired, deliveries, faults, now, up, turn>>

ToolInsertEvent ==
    /\ tool.step = "event"
    /\ tool' = [tool EXCEPT !.step = "task"]
    /\ UNCHANGED <<dbVars, histVars, now, up, turn>>

ToolInsertTask ==
    /\ tool.step = "task"
    /\ made' = [made EXCEPT ![tool.item.id] = @ + 1]
    /\ tool' = [tool EXCEPT !.step = "record"]
    /\ UNCHANGED <<rows, orphans, histVars, now, up, turn>>

\* 'database is locked': the tool prints the error and ends.
ToolError ==
    /\ tool.step # "idle" /\ faults < MaxFaults
    /\ orphans' = IF tool.step = "task"
                  THEN [orphans EXCEPT ![tool.item.id] = @ + 1] ELSE orphans
    /\ tool' = ToolIdle
    /\ faults' = faults + 1
    /\ UNCHANGED <<rows, made, fired, ops, deliveries, now, up, turn>>

ToolRecord ==
    /\ tool.step = "record"
    /\ rows' = [rows EXCEPT ![tool.item.id] =
                    Recorded(@, tool.item.row, tool.at,
                             ToolStatus(tool.item.row, @))]
    /\ tool' = ToolIdle
    /\ UNCHANGED <<orphans, made, histVars, now, up, turn>>

----------------------------------------------------------------------------
(* Time, crash and boot *)

\* The task sweeper makes a task of an event that has none.
Rehydrate(s) ==
    /\ LoopFree /\ orphans[s] > 0
    /\ orphans' = [orphans EXCEPT ![s] = @ - 1]
    /\ made' = [made EXCEPT ![s] = @ + 1]
    /\ UNCHANGED <<rows, histVars, now, up, turn, tool>>

Tick == /\ now < MaxTime /\ now' = now + 1
        /\ UNCHANGED <<dbVars, histVars, up, turn, tool>>

Crash == /\ up /\ faults < MaxFaults
         /\ up' = FALSE /\ turn' = Idle
         /\ orphans' = Abandoned
         /\ faults' = faults + 1
         /\ UNCHANGED <<rows, made, fired, ops, deliveries, now, tool>>

\* start(): the boot-time catch-up is the first sweep.
Boot == /\ ~up /\ up' = TRUE
        /\ BeginSweep
        /\ UNCHANGED <<dbVars, histVars, now, tool>>

----------------------------------------------------------------------------
Init ==
    /\ rows = [s \in Schedule |-> NoRow]
    /\ orphans = [s \in Schedule |-> 0]
    /\ made = [s \in Schedule |-> 0]
    /\ fired = [s \in Schedule |-> [d \in Time |-> 0]]
    /\ ops = [s \in Schedule |-> 0]
    /\ deliveries = [d \in Delivery |-> {}]
    /\ now = 0 /\ up = TRUE
    /\ turn = Idle /\ tool = ToolIdle
    /\ faults = 0

Trigger == \/ InsertEvent
           \/ InsertTask
           \/ RecordExecution
           \/ RecordFails
           \/ TriggerError
           \/ Delete

Tool == \/ ToolInsertEvent
        \/ ToolInsertTask
        \/ ToolRecord
        \/ ToolError

Operate(s) == \/ CreateSchedule(s)
              \/ \E d \in Delivery : ReceiveScheduled(d, s)
              \/ TriggerNow(s)
              \/ Pause(s)
              \/ Resume(s)
              \/ Cancel(s)
              \/ ToolCreate(s)
              \/ ToolPause(s)
              \/ ToolResume(s)
              \/ ToolTrigger(s)
              \/ ToolDelete(s)

Next == \/ SweepDue
        \/ Trigger
        \/ Tool
        \/ \E s \in Schedule : Operate(s) \/ Rehydrate(s)
        \/ Tick
        \/ Crash
        \/ Boot

Spec == Init /\ [][Next]_vars

\* The loop ticks every second and a turn of it goes on; launchd restarts the
\* daemon; time passes.
Fairness ==
    /\ WF_vars(SweepDue)
    /\ WF_vars(InsertEvent) /\ WF_vars(InsertTask) /\ WF_vars(RecordExecution)
    /\ WF_vars(RecordFails) /\ WF_vars(Delete)
    /\ WF_vars(Boot) /\ WF_vars(Tick)

FairSpec == Spec /\ Fairness

----------------------------------------------------------------------------
(* Properties *)

Steps == {"idle", "event", "task", "record", "delete"}

TypeOK ==
    /\ rows \in [Schedule -> Row]
    /\ orphans \in [Schedule -> Nat] /\ made \in [Schedule -> Nat]
    /\ fired \in [Schedule -> [Time -> Nat]] /\ ops \in [Schedule -> Nat]
    /\ deliveries \in [Delivery -> SUBSET Schedule]
    /\ now \in 0..MaxTime /\ up \in BOOLEAN /\ faults \in Nat
    /\ turn \in [step : Steps, by : {"timer", "operator"}, todo : Seq(Items),
                 at : 0..MaxTime]
    /\ tool \in [step : Steps, item : Items \cup {None}, at : 0..MaxTime]
    /\ turn.step = "idle" <=> turn.todo = <<>>
    /\ tool.step = "idle" <=> tool.item = None

\* A due time is triggered once, however often the sweep ticks; only a crash or
\* a database error before the record, or an operator's command on the
\* schedule, can have it triggered again, once each. Not so a schedule whose
\* max_runs is no number: no trigger of it is ever recorded, and every tick
\* triggers the same due time again.
TriggeredOncePerDue ==
    \A s \in Schedule : \A d \in Time :
        rows[s].max # Text => fired[s][d] <= 1 + ops[s] + faults

\* Triggers in flight between two of their commits.
InFlight(s) ==
    (IF turn.step = "record" /\ Current.id = s THEN 1 ELSE 0)
    + (IF tool.step = "record" /\ tool.item.id = s THEN 1 ELSE 0)

\* Every task made for a schedule came of a trigger; so did the events that have
\* no task yet.
Triggers(s) == made[s] + orphans[s]

\* total_runs counts the triggers of a schedule: no update of it is lost to a
\* trigger by the other process; crashes and errors cost one each. If max_runs
\* is no number the sweep's triggers are not counted at all.
RunsCounted ==
    \A s \in Schedule : Present(s) =>
        /\ rows[s].total + InFlight(s) <= Triggers(s)
        /\ rows[s].max # Text => Triggers(s) <= rows[s].total + InFlight(s) + faults

\* max_runs bounds the tasks made for a schedule, not only its total_runs, but
\* for those an operator asks for, by a trigger or by resuming a completed
\* schedule, and those of a trigger that a crash or an error kept from being
\* recorded. A negative max_runs allows one.
MaxRunsKept ==
    \A s \in Schedule : Present(s) /\ rows[s].max \notin {0, Text} =>
        Triggers(s) <= Larger(1, rows[s].max) + ops[s] + faults

\* A time that comes due gets its task, over crashes at every commit, unless an
\* operator touches the schedule.
DueServed ==
    \A s \in Schedule : \A d \in 0..MaxTime :
        (Due(s) /\ rows[s].next = d) ~> (fired[s][d] > 0 \/ ops[s] > 0)

----------------------------------------------------------------------------
(* What the repository says and the code does not do (see the findings) *)

\* A delivery, repeated, makes one schedule.
OneSchedulePerDelivery ==
    \A d \in Delivery : Cardinality(deliveries[d]) <= 1
==============================================================================

----------------------------- MODULE TaskStream -----------------------------
(***************************************************************************)
(* The live stream of one task: EventBroker (hub/broker.py), the route     *)
(* GET /tasks/{id}/stream (hub/routes/sse.py) and what an execution logs   *)
(* and announces (hub/dispatcher.py).                                      *)
(*                                                                         *)
(* A stream subscribes and reads its backlog in one turn of the event      *)
(* loop, sends the backlog frame by frame, looks at the row once, and then *)
(* lives on its queue. Whatever the task does while a frame is being sent  *)
(* goes to the queue, which drops its oldest message when it is full.      *)
(*                                                                         *)
(* A line of a subprocess is recorded and published in one turn; an action *)
(* that runs in the daemon records it and leaves the publishing to a       *)
(* coroutine of its own; summaries and time-outs are recorded only.        *)
(*                                                                         *)
(* PutGrowing, PutKeepingOldest, SubscribedLate, LogLater and              *)
(* FinishIfMine are wrong on purpose: slips the properties must notice.    *)
(***************************************************************************)
EXTENDS Integers, Sequences, SequencesExt

CONSTANTS
    Client,
    QueueSize,     \* default_queue_size of the broker (256)
    BacklogLimit,  \* LIMIT of get_task_backlog (500)
    MaxLines,      \* bound: lines the task logs
    MaxCasts,      \* bound: lines an action logs before its coroutines run
    MaxRequeues,   \* bound: reruns and requeues
    MaxConnects,   \* bound: connections of a client
    MaxFaults      \* bound: database errors

ASSUME SizeAssumption == QueueSize \in Nat \ {0} /\ BacklogLimit \in Nat
ASSUME CastAssumption == MaxCasts \in Nat /\ MaxCasts < QueueSize
ASSUME BoundAssumption == MaxLines \in Nat /\ MaxRequeues \in Nat
                          /\ MaxConnects \in Nat /\ MaxFaults \in Nat

VARIABLES
    action,     \* "process": the task runs a command; "inside": code of the daemon
    row,        \* the task's status: "queued", "running" or "final"
    alive,      \* an execution of the task is going on
    log,        \* the number of lines in execution_logs, which are their ids
    quiet,      \* the lines nothing publishes
    casts,      \* lines whose publishing coroutine has not run, 0 if unrecorded
    unsaid,     \* the row became final and no execution is there to say so
    streams,    \* the connection of each client
    requeues, connects, faults

taskVars == <<action, row, alive, log, quiet, casts, unsaid>>
vars     == <<taskVars, streams, requeues, connects, faults>>

----------------------------------------------------------------------------
(* Messages and queues *)

Line(n) == [kind |-> "line", id |-> n]

\* publish_status: "status_changed" for a start, "completed" for an end.
Running   == [kind |-> "running", id |-> 0]
Completed == [kind |-> "completed", id |-> 0]

\* A line whose record failed: streamed like any other, but in no log.
Unrecorded == [kind |-> "unrecorded", id |-> 0]

Message == [kind : {"line", "running", "completed", "unrecorded"}, id : 0..MaxLines]

LinesIn(q) == {q[i].id : i \in 1..Len(q)} \ {0}

\* since: the id the client asks to go on from; last: the id of the frame it got
\* last, 0 when that is no number; lost: lines cut off or dropped; until: the
\* last line when the stream ended.
Closed == [pc |-> "off", since |-> 0, todo |-> <<>>, queue |-> <<>>,
           shown |-> <<>>, last |-> 0, lost |-> {}, until |-> 0]

Ended(s) == [s EXCEPT !.pc = "ended", !.last = 0, !.until = log]

Streaming == {"replay", "live"}

SubscribedLate(c) == streams[c].pc = "live"

Subscribed(c) == streams[c].pc \in Streaming

PutGrowing(s, m) == [s EXCEPT !.queue = Append(@, m)]

PutKeepingOldest(s, m) ==
    IF Len(s.queue) < QueueSize THEN [s EXCEPT !.queue = Append(@, m)]
    ELSE [s EXCEPT !.lost = @ \cup LinesIn(<<m>>)]

\* Never waits: a full queue loses its oldest message.
Put(s, m) ==
    IF Len(s.queue) < QueueSize THEN [s EXCEPT !.queue = Append(@, m)]
    ELSE [s EXCEPT !.queue = Append(Tail(@), m),
                   !.lost = @ \cup LinesIn(<<Head(s.queue)>>)]

Publish(m) == streams' = [c \in Client |->
                  IF Subscribed(c) THEN Put(streams[c], m) ELSE streams[c]]

----------------------------------------------------------------------------
(* The task *)

\* execute_task begins: the swap to 'running', then the announcement.
StartRun ==
    /\ row = "queued" /\ ~alive
    /\ row' = "running" /\ alive' = TRUE /\ unsaid' = FALSE
    /\ Publish(Running)
    /\ UNCHANGED <<action, log, quiet, casts, requeues, connects, faults>>

LogLater ==
    /\ alive /\ log < MaxLines
    /\ log' = log + 1
    /\ casts' = Append(casts, log')
    /\ UNCHANGED <<action, row, alive, quiet, unsaid, streams, requeues,
                   connects, faults>>

\* read_stream: record and publish, without suspending in between.
LogLine ==
    /\ action = "process" /\ alive /\ log < MaxLines
    /\ log' = log + 1
    /\ Publish(Line(log'))
    /\ UNCHANGED <<action, row, alive, quiet, casts, unsaid, requeues,
                   connects, faults>>

\* log_fn of an action inside the daemon: record, and a new coroutine.
LogInside == action = "inside" /\ Len(casts) < MaxCasts /\ LogLater

\* "Failed to insert log chunk": _record_log swallows the error, and the line is
\* published all the same.
LogUnrecorded ==
    /\ alive /\ faults < MaxFaults /\ faults' = faults + 1
    /\ \/ action = "process" /\ Publish(Unrecorded) /\ UNCHANGED casts
       \/ /\ action = "inside" /\ Len(casts) < MaxCasts
          /\ casts' = Append(casts, 0) /\ UNCHANGED streams
    /\ UNCHANGED <<action, row, alive, log, quiet, unsaid, requeues, connects>>

\* That coroutine; asyncio starts them in order.
Cast(n) == IF n = 0 THEN Unrecorded ELSE Line(n)
Broadcast ==
    /\ casts # <<>>
    /\ Publish(Cast(Head(casts)))
    /\ casts' = Tail(casts)
    /\ UNCHANGED <<action, row, alive, log, quiet, unsaid, requeues, connects,
                   faults>>

\* A summary, an error or a time-out: recorded, never published.
LogQuietly ==
    /\ alive /\ log < MaxLines
    /\ log' = log + 1 /\ quiet' = quiet \cup {log'}
    /\ UNCHANGED <<action, row, alive, casts, unsaid, streams, requeues,
                   connects, faults>>

FinishIfMine ==
    /\ alive /\ alive' = FALSE
    /\ row' = IF row = "running" THEN "final" ELSE row
    /\ IF row = "running" THEN Publish(Completed) ELSE UNCHANGED streams
    /\ UNCHANGED <<action, log, quiet, casts, unsaid, requeues, connects, faults>>

\* The terminal swap takes a running row only; the end is announced either way.
Finish ==
    /\ alive /\ alive' = FALSE
    /\ row' = IF row = "running" THEN "final" ELSE row
    /\ Publish(Completed)
    /\ UNCHANGED <<action, log, quiet, casts, unsaid, requeues, connects, faults>>

\* The swap raises: the execution is gone, the row stays, nothing is said.
FinishError ==
    /\ alive /\ faults < MaxFaults
    /\ alive' = FALSE /\ faults' = faults + 1 /\ unsaid' = (row = "final")
    /\ UNCHANGED <<action, row, log, quiet, casts, streams, requeues, connects>>

\* The sweep takes a running row for stale, and publishes nothing of the task.
SweepStale ==
    /\ row = "running"
    /\ \/ /\ requeues < MaxRequeues /\ requeues' = requeues + 1
          /\ row' = "queued" /\ UNCHANGED unsaid
       \/ /\ row' = "final" /\ unsaid' = ~alive
          /\ UNCHANGED requeues
    /\ UNCHANGED <<action, alive, log, quiet, casts, streams, connects, faults>>

\* A rerun, or the sweep's retry of an interrupted task.
Requeue ==
    /\ row # "queued" /\ requeues < MaxRequeues
    /\ requeues' = requeues + 1
    /\ row' = "queued" /\ unsaid' = FALSE
    /\ UNCHANGED <<action, alive, log, quiet, casts, streams, connects, faults>>

----------------------------------------------------------------------------
(* The stream *)

\* subscribe and get_task_backlog, in one turn: the oldest BacklogLimit lines
\* after the one asked for.
Connect(c) ==
    /\ streams[c].pc = "off" /\ connects[c] < MaxConnects
    /\ LET s   == streams[c].last
           top == IF log - s > BacklogLimit THEN s + BacklogLimit ELSE log
       IN streams' = [streams EXCEPT ![c] =
              [Closed EXCEPT !.pc = "replay", !.since = s,
                             !.todo = [i \in 1..(top - s) |-> s + i],
                             !.last = s, !.lost = (top + 1)..log]]
    /\ connects' = [connects EXCEPT ![c] = @ + 1]
    /\ UNCHANGED <<taskVars, requeues, faults>>

\* A backlog frame carries the id of its line.
Replay(c) ==
    /\ streams[c].pc = "replay" /\ streams[c].todo # <<>>
    /\ streams' = [streams EXCEPT ![c].todo = Tail(@),
                                  ![c].last = Head(streams[c].todo),
                                  ![c].shown = Append(@, Head(streams[c].todo))]
    /\ UNCHANGED <<taskVars, requeues, connects, faults>>

\* After the backlog: a row that is final ends the stream, whatever is queued.
CheckEnded(c) ==
    /\ streams[c].pc = "replay" /\ streams[c].todo = <<>>
    /\ streams' = IF row = "final"
                  THEN [streams EXCEPT ![c] = Ended(@)]
                  ELSE [streams EXCEPT ![c].pc = "live"]
    /\ UNCHANGED <<taskVars, requeues, connects, faults>>

\* A live frame carries the id of the task, with which nothing can be resumed.
Forward(c) ==
    /\ streams[c].pc = "live" /\ streams[c].queue # <<>>
    /\ LET m == Head(streams[c].queue)
           s == [streams[c] EXCEPT !.queue = Tail(@), !.last = 0]
       IN streams' = [streams EXCEPT ![c] =
              CASE m.kind = "line"      -> [s EXCEPT !.shown = Append(@, m.id)]
                [] m.kind = "completed" -> Ended(s)
                [] OTHER                -> s]
    /\ UNCHANGED <<taskVars, requeues, connects, faults>>

\* The client goes, or the response is over: unsubscribe, in both cases.
Disconnect(c) ==
    /\ streams[c].pc # "off"
    /\ streams' = [streams EXCEPT ![c] = [Closed EXCEPT !.last = streams[c].last]]
    /\ UNCHANGED <<taskVars, requeues, connects, faults>>

----------------------------------------------------------------------------
Init ==
    /\ action \in {"process", "inside"}
    /\ row = "queued" /\ alive = FALSE
    /\ log = 0 /\ quiet = {} /\ casts = <<>> /\ unsaid = FALSE
    /\ streams = [c \in Client |-> Closed]
    /\ requeues = 0 /\ connects = [c \in Client |-> 0] /\ faults = 0

Task == \/ StartRun
        \/ LogLine
        \/ LogInside
        \/ LogUnrecorded
        \/ Broadcast
        \/ LogQuietly
        \/ Finish
        \/ FinishError
        \/ SweepStale
        \/ Requeue

Stream(c) == \/ Connect(c)
             \/ Replay(c)
             \/ CheckEnded(c)
             \/ Forward(c)
             \/ Disconnect(c)

\* The task is over and every client is done.
Over == /\ row = "final" /\ ~alive /\ requeues = MaxRequeues /\ casts = <<>>
        /\ \A c \in Client : streams[c].pc = "off" /\ connects[c] = MaxConnects
        /\ UNCHANGED vars

Next == \/ Task
        \/ \E c \in Client : Stream(c)
        \/ Over

Spec == Init /\ [][Next]_vars

SweepDead == ~alive /\ SweepStale

\* asyncio runs what is ready, actions end, the sweeper ticks; clients read.
Fairness ==
    /\ WF_vars(StartRun) /\ WF_vars(Finish) /\ WF_vars(Broadcast)
    /\ WF_vars(SweepDead)
    /\ \A c \in Client : /\ WF_vars(Replay(c))
                         /\ WF_vars(CheckEnded(c))
                         /\ WF_vars(Forward(c))

FairSpec == Spec /\ Fairness

----------------------------------------------------------------------------
(* Properties *)

TypeOK ==
    /\ action \in {"process", "inside"} /\ row \in {"queued", "running", "final"}
    /\ alive \in BOOLEAN /\ unsaid \in BOOLEAN
    /\ log \in 0..MaxLines /\ quiet \subseteq 1..log
    /\ casts \in Seq(0..log)
    /\ streams \in [Client ->
           [pc : {"off", "ended"} \cup Streaming, since : 0..log,
            todo : Seq(1..log), queue : Seq(Message), shown : Seq(1..log),
            last : 0..log, lost : SUBSET (1..log), until : 0..log]]
    /\ \A c \in Client : Len(streams[c].queue) <= QueueSize

\* A stream of a command's output shows its lines in order and none twice,
\* across the seam between the backlog and the queue.
InOrder ==
    action = "process" =>
        \A c \in Client :
            LET s       == streams[c]
                backlog == s.shown \o s.todo
                live    == {i \in 1..Len(s.queue) : s.queue[i].kind = "line"}
            IN /\ \A i, j \in 1..Len(backlog) : i < j => backlog[i] < backlog[j]
               /\ \A i, j \in live : i < j => s.queue[i].id < s.queue[j].id
               /\ \A i \in 1..Len(backlog) : \A j \in live : backlog[i] < s.queue[j].id

\* A line logged after the point the client asked for is on its way to it, unless
\* it is one nobody publishes or the limits cut it off: nothing falls between the
\* backlog and the queue. When a stream ends, the lines it has not sent are those
\* in the queue it no longer reads, and what an action inside the daemon has
\* still to publish.
NothingBetween ==
    \A c \in Client :
        LET s == streams[c] IN
        s.pc # "off" =>
            \A n \in (s.since + 1)..log :
                \/ n \in ToSet(s.shown) \cup ToSet(s.todo) \cup s.lost
                \/ n \in LinesIn(s.queue)
                \/ n \in quiet \cup ToSet(casts)
                \/ s.pc = "ended" /\ (n > s.until \/ action = "inside")

\* The end of a command is never pushed out of a queue by its own lines: who
\* still streams an announced end has it before him.
EndIsQueued ==
    \A c \in Client :
        /\ action = "process"
        /\ row = "final" /\ ~alive /\ ~unsaid
        /\ streams[c].pc = "live"
        => Completed \in ToSet(streams[c].queue)

\* A stream comes to its end: the task's final status ends it even when other
\* messages overflow the queue, the execution lost its swap or the task is
\* started again; but not when the sweeper alone ended the task.
StreamEnds ==
    \A c \in Client :
        (streams[c].pc \in Streaming) ~> (streams[c].pc \notin Streaming \/ unsaid)
==============================================================================

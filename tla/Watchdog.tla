------------------------------ MODULE Watchdog ------------------------------
(***************************************************************************)
(* The Antigravity watchdog (hub/antigravity/watchdog.py) and its table    *)
(* antigravity_resuscitations (hub/db.py): a tick scans the sessions for   *)
(* stalled ones, judges each against the recorded attempts, and pulls up   *)
(* the eligible ones, one after the other, by sending a prompt to the      *)
(* session or to the parent of a subagent.                                 *)
(*                                                                         *)
(* Two callers share one watchdog object: the dispatcher's sweeper loop    *)
(* and POST /antigravity/pull-up (hub/routes/observability.py), which      *)
(* scans likewise or names a session. A scan runs in a thread, session by  *)
(* session, beside the event loop; a tick works through verdicts that may  *)
(* be minutes old, and gives way to the other caller while it sends.       *)
(*                                                                         *)
(* What stalls, answers or finishes is external; so are the language       *)
(* server and its restarts. Reading a transcript is reduced to its result  *)
(* (working, stalled, out of quota, finished) and its last step index.     *)
(* Times are classes of the last attempt's age: 0, its step cooldown or    *)
(* the quiet time of its prompt runs; 1, both are over; 2, the backoff or  *)
(* the quota cooldown is over as well. Sessions with schedules, the parent *)
(* that waits for a finished child, and the command line tool, a process   *)
(* with a memory of its own, are left out.                                 *)
(*                                                                         *)
(* FreeOne, HoldOne, SinceOwn, CountAnswered and BreakForGood are wrong on *)
(* purpose: slips the properties must notice.                              *)
(***************************************************************************)
EXTENDS Integers, Sequences, FiniteSets, FiniteSetsExt

CONSTANTS
    Session,
    ParentOf,     \* the parent of each subagent
    MaxRetries,   \* max_retries_per_session (3): then the backoff
    MaxTotal,     \* max_total_attempts (5): then never again
    Ends,         \* bound: how a session stops working
    MaxRows,      \* bound: attempts recorded
    MaxStep,      \* bound: steps of a transcript
    MaxServers,   \* bound: restarts of the language server
    MaxRequests,  \* bound: requests to POST /antigravity/pull-up
    MaxCrashes    \* bound: crashes of the daemon

ASSUME ParentAssumption ==
    /\ DOMAIN ParentOf \subseteq Session
    /\ \A s \in DOMAIN ParentOf : ParentOf[s] \in Session \ DOMAIN ParentOf
ASSUME LimitAssumption == MaxRetries \in Nat /\ MaxTotal \in Nat /\ MaxRetries <= MaxTotal
ASSUME EndAssumption == Ends \subseteq {"stalled", "quota", "finished"}
ASSUME BoundAssumption == MaxRows \in Nat /\ MaxStep \in Nat /\ MaxServers \in Nat
                          /\ MaxRequests \in Nat /\ MaxCrashes \in Nat

Caller == {"sweeper", "route"}

VARIABLES
    state,      \* what a scan makes of a session's transcript
    step,       \* its last step index
    written,    \* the language server that ran when it was last written
    server,     \* the language server, by number
    known,      \* ls_restart_time: the server the watchdog knows of
    rows,       \* antigravity_resuscitations, oldest first
    age,        \* the age of a session's last row
    tick,       \* where each caller is
    inflight,   \* _in_flight_resuscitations
    recent,     \* _recently_resuscitated, as far as the debounce runs
    requests, crashes

sessions == <<state, step, written>>
vars     == <<sessions, server, known, rows, age, tick, inflight, recent, requests, crashes>>

----------------------------------------------------------------------------
(* The recorded attempts *)

Subagent(s) == s \in DOMAIN ParentOf
Target(s)   == IF Subagent(s) THEN ParentOf[s] ELSE s
Children(s) == {c \in DOMAIN ParentOf : ParentOf[c] = s}

\* Rows by their numbers, which grow with time.
RowsOf(s)  == {i \in DOMAIN rows : rows[i].conv = s}
LastRow(s) == rows[Max(RowsOf(s))]

\* get_resuscitation_attempts: attempts in a row without progress, progress being
\* two steps more than the last attempt saw. Quota cooldowns do not count, but
\* count once they are cleared to 'resolved'.
Counted(s) == {i \in RowsOf(s) : rows[i].status # "quota_cooldown"}
InARow(counted) ==
    Cardinality({i \in counted : \A j \in counted :
        j >= i => rows[j].step - rows[Max(counted)].step \in -1..1})
CountAnswered(s) == InARow({i \in Counted(s) : rows[i].status # "failed"})
Attempts(s) ==
    IF Counted(s) = {} \/ step[s] > rows[Max(Counted(s))].step + 1
    THEN 0 ELSE InARow(Counted(s))

\* has_resuscitation_since the restart the watchdog knows of: attempts of the
\* session or delegated to it that were sent or are being sent.
Sent(r) == r.status \in {"attempting", "resuscitated"}
SinceOwn(s) == \E i \in DOMAIN rows : rows[i].conv = s /\ rows[i].server >= known /\ Sent(rows[i])
SinceRestart(s) ==
    \E i \in DOMAIN rows : s \in {rows[i].conv, rows[i].target} /\ rows[i].server >= known /\ Sent(rows[i])

\* The file was last written before the restart the watchdog knows of.
Prior(s) == written[s] < known

----------------------------------------------------------------------------
(* The verdict of a scan: _evaluate_resuscitation_eligibility *)

\* is_zombie_or_archived_subagent: finished itself or by its parent, or stopped
\* by a restart of the server. One that was killed, superseded by a later turn
\* of the user or left without a directory is not in this model.
Zombie(s) == Subagent(s) /\ (state[s] = "finished" \/ state[Target(s)] = "finished" \/ Prior(s))

\* A restart of the server wipes the slate: the last attempt was before it.
Fresh(s) == RowsOf(s) # {} /\ LastRow(s).server >= known
Effective(s) == IF Fresh(s) THEN Attempts(s) ELSE 0

Broken(s) == Effective(s) >= MaxTotal \/ (Effective(s) >= MaxRetries /\ age[s] < 2)

Eligible(s) ==
    /\ ~Zombie(s)
    /\ RowsOf(s) # {} => LastRow(s).status # "attempting"
    /\ ~(Prior(s) /\ (SinceRestart(s) \/ SinceRestart(Target(s))))
    /\ ~Broken(s)
    /\ ~(Fresh(s) /\ LastRow(s).status \in {"resuscitated", "failed"} /\ age[s] = 0)

\* The parent of an active subagent is left in peace.
Waiting(s) == \E c \in Children(s) : state[c] = "working" /\ ~Prior(c)

\* A quota cooldown is recorded, and the session has not gone on since; it runs
\* until it is over or the server restarts.
OnRecord(s) == /\ RowsOf(s) # {} /\ LastRow(s).status = "quota_cooldown"
               /\ step[s] <= LastRow(s).step
Cooling(s) == state[s] = "quota" /\ OnRecord(s) /\ ~Prior(s) /\ age[s] < 2

----------------------------------------------------------------------------
(* Ticks *)

Idle == [phase |-> "idle", todo |-> {}, items |-> {}, awake |-> {}, name |-> {}, row |-> 0]

Kind(s) == IF Prior(s) THEN "restart" ELSE "other"

\* The network answers and the language server is ready: the scan begins with the
\* quota of the active account, which clears all cooldowns if it is healthy, and
\* with the process id of the language server. A request may name a session.
BeginTick(c) ==
    /\ tick[c].phase = "idle"
    /\ \/ c = "sweeper" /\ UNCHANGED requests
       \/ c = "route" /\ requests < MaxRequests /\ requests' = requests + 1
    /\ \E name \in SUBSET Session :
          /\ Cardinality(name) <= (IF c = "route" THEN 1 ELSE 0)
          /\ tick' = [tick EXCEPT ![c] =
                        [Idle EXCEPT !.phase = "tick", !.todo = Session, !.name = name]]
    /\ known' = server
    /\ \/ rows' = rows
       \/ rows' = [i \in DOMAIN rows |->
                     IF rows[i].status = "quota_cooldown"
                     THEN [rows[i] EXCEPT !.status = "resolved"] ELSE rows[i]]
    /\ UNCHANGED <<sessions, server, age, inflight, recent, crashes>>

Looked(c, s, found) ==
    tick' = [tick EXCEPT ![c].todo = @ \ {s}, ![c].items = @ \cup found]

\* by: the caller of an attempt, or "scan" for a cooldown.
Row(s, target, kind, by, status, at) ==
    [conv |-> s, target |-> target, kind |-> kind, by |-> by,
     status |-> status, step |-> at, server |-> server]

\* One session of a scan. Out of quota: a new cooldown is recorded, unless the
\* file is old enough for a probe; a running cooldown is respected, unless
\* nothing was tried since the restart and the file is old enough. One step,
\* though the thread reads the table three times: an attempt between two of the
\* reads is still out or less than its cooldown old at the last of them, which
\* then finds the session not eligible, as all of them would.
Look(c, s) ==
    /\ tick[c].phase = "tick" /\ s \in tick[c].todo
    /\ \/ /\ \/ state[s] \in {"working", "finished"} \/ Waiting(s)
             \/ Cooling(s) \/ ~Eligible(s)
          /\ Looked(c, s, {})
          /\ UNCHANGED <<rows, age>>
       \/ /\ state[s] = "quota" /\ ~Waiting(s) /\ ~Prior(s)
          /\ ~OnRecord(s)
          /\ Len(rows) < MaxRows
          /\ rows' = Append(rows, Row(s, s, "other", "scan", "quota_cooldown", step[s]))
          /\ age' = [age EXCEPT ![s] = 0]
          /\ Looked(c, s, {})
       \/ /\ state[s] \in {"stalled", "quota"} /\ ~Waiting(s)
          /\ Cooling(s) => Effective(s) = 0
          /\ Eligible(s)
          /\ Looked(c, s, {[conv |-> s, kind |-> Kind(s), step |-> step[s]]})
          /\ UNCHANGED <<rows, age>>
    /\ UNCHANGED <<sessions, server, known, inflight, recent, requests, crashes>>

Scanned(c) == tick[c].phase = "tick" /\ tick[c].todo = {}

\* resuscitate_session's own gates, at the time of the attempt.
Gates(s, target, kind) ==
    /\ {s, target} \cap inflight = {}
    /\ state[s] # "finished"
    /\ target # s => ~Zombie(s)
    /\ ~(kind = "restart" /\ (SinceRestart(s) \/ SinceRestart(target)))
    /\ {s, target} \cap recent = {}

HoldOne(s, target) == inflight \cup {s}
Hold(s, target) == inflight \cup {s, target}

\* record_resuscitation, at the step of the verdict, then the send.
Attempt(c, s, target, kind, at) ==
    /\ Scanned(c)
    /\ Len(rows) < MaxRows
    /\ Gates(s, target, kind)
    /\ rows' = Append(rows, Row(s, target, kind, c, "attempting", at))
    /\ age' = [age EXCEPT ![s] = 0]
    /\ inflight' = Hold(s, target)
    /\ tick' = [tick EXCEPT ![c].phase = "send", ![c].row = Len(rows) + 1,
                            ![c].items = @ \ {[conv |-> s, kind |-> kind, step |-> at]}]
    /\ UNCHANGED <<sessions, server, known, recent, requests, crashes>>

Awoken(c, s) == tick[c].awake \cap {s, Target(s)} # {}

PullUp(c) ==
    \E i \in tick[c].items :
        /\ tick[c].name = {} /\ ~Awoken(c, i.conv)
        /\ Attempt(c, i.conv, Target(i.conv), i.kind, i.step)

\* A named session is pulled up whatever the verdict, only the gates count. One
\* that is not found to be stalled is addressed itself, at step 0.
Addressed(s) ==
    IF state[s] \in {"stalled", "quota"} /\ ~Waiting(s)
    THEN [target |-> Target(s), kind |-> Kind(s), at |-> step[s]]
    ELSE [target |-> s, kind |-> "other", at |-> 0]
PullUpNamed ==
    \E s \in tick["route"].name :
        LET to == Addressed(s) IN Attempt("route", s, to.target, to.kind, to.at)

Skip(c) ==
    /\ Scanned(c) /\ tick[c].name = {}
    /\ \E i \in tick[c].items :
          /\ (Awoken(c, i.conv) \/ ~Gates(i.conv, Target(i.conv), i.kind))
          /\ tick' = [tick EXCEPT ![c].items = @ \ {i}]
    /\ UNCHANGED <<sessions, server, known, rows, age, inflight, recent, requests, crashes>>

\* All found are dealt with, or the gates are closed to the named one.
EndTick(c) ==
    /\ Scanned(c)
    /\ \/ tick[c].name = {} /\ tick[c].items = {}
       \/ \E s \in tick[c].name : ~Gates(s, Addressed(s).target, Addressed(s).kind)
    /\ tick' = [tick EXCEPT ![c] = Idle]
    /\ UNCHANGED <<sessions, server, known, rows, age, inflight, recent, requests, crashes>>

----------------------------------------------------------------------------
(* The send returns *)

RowOf(c) == rows[tick[c].row]

FreeOne(r) == inflight \ {r.target}
Free(r) == inflight \ {r.conv, r.target}

\* The prompt is a step of the target's transcript, and its session goes on.
Arrives(t) ==
    /\ step' = [step EXCEPT ![t] = IF @ < MaxStep THEN @ + 1 ELSE @]
    /\ written' = [written EXCEPT ![t] = server]
    /\ state' = [state EXCEPT ![t] = IF @ = "finished" THEN @ ELSE "working"]

\* A tick goes on with its next verdict; the request that named a session is done.
Resumed(c, awake) ==
    IF tick[c].name # {} THEN Idle
    ELSE [tick[c] EXCEPT !.phase = "tick", !.row = 0, !.awake = @ \cup awake]

\* finally: the sessions are free again, and debounced.
Returned(c, status, awake) ==
    /\ tick[c].phase = "send"
    /\ rows' = [rows EXCEPT ![tick[c].row].status = status]
    /\ inflight' = Free(RowOf(c))
    /\ recent' = recent \cup {RowOf(c).conv, RowOf(c).target}
    /\ tick' = [tick EXCEPT ![c] = Resumed(c, awake)]
    /\ UNCHANGED <<server, known, age, requests, crashes>>

SendOk(c) ==
    /\ Returned(c, "resuscitated", {RowOf(c).conv, RowOf(c).target})
    /\ Arrives(RowOf(c).target)

\* The status is 'failed' or 'exhausted'; no gate tells them apart. A call that
\* timed out may have arrived.
SendFailed(c) ==
    /\ Returned(c, "failed", {})
    /\ \/ Arrives(RowOf(c).target)
       \/ UNCHANGED sessions

SendQuota(c) == Returned(c, "quota_cooldown", {}) /\ UNCHANGED sessions

----------------------------------------------------------------------------
(* Time, crashes, and Antigravity *)

\* The debounce of a session ends with the step cooldown of its own attempt, if any.
GrowOld(s) ==
    /\ RowsOf(s) # {} /\ age[s] < 2 /\ s \notin inflight
    /\ age' = [age EXCEPT ![s] = @ + 1]
    /\ recent' = recent \ {s}
    /\ UNCHANGED <<sessions, server, known, rows, tick, inflight, requests, crashes>>

Expire(s) ==
    /\ s \in recent /\ (RowsOf(s) = {} \/ age[s] > 0)
    /\ recent' = recent \ {s}
    /\ UNCHANGED <<sessions, server, known, rows, age, tick, inflight, requests, crashes>>

\* What is in memory is lost. A row that was being attempted stays 'attempting'.
Crash ==
    /\ crashes < MaxCrashes /\ crashes' = crashes + 1
    /\ tick' = [c \in Caller |-> Idle]
    /\ inflight' = {} /\ recent' = {}
    /\ UNCHANGED <<sessions, server, known, rows, age, requests>>

\* Running sessions die with their language server.
NewServer ==
    /\ server < MaxServers /\ server' = server + 1
    /\ state' = [s \in Session |-> IF state[s] = "working" THEN "stalled" ELSE state[s]]
    /\ UNCHANGED <<step, written, known, rows, age, tick, inflight, recent, requests, crashes>>

Work(s) ==
    /\ state[s] = "working" /\ step[s] < MaxStep
    /\ step' = [step EXCEPT ![s] = @ + 1]
    /\ written' = [written EXCEPT ![s] = server]
    /\ UNCHANGED <<state, server, known, rows, age, tick, inflight, recent, requests, crashes>>

Stop(s) ==
    /\ state[s] = "working"
    /\ \E end \in Ends : state' = [state EXCEPT ![s] = end]
    /\ UNCHANGED <<step, written, server, known, rows, age, tick, inflight, recent, requests, crashes>>

----------------------------------------------------------------------------
Init ==
    /\ state = [s \in Session |-> "working"]
    /\ step = [s \in Session |-> 0]
    /\ written = [s \in Session |-> 0]
    /\ server = 0 /\ known = 0
    /\ rows = <<>>
    /\ age = [s \in Session |-> 0]
    /\ tick = [c \in Caller |-> Idle]
    /\ inflight = {} /\ recent = {}
    /\ requests = 0 /\ crashes = 0

TickStep(c) == BeginTick(c) \/ PullUp(c) \/ Skip(c) \/ EndTick(c)
               \/ \E s \in Session : Look(c, s)
SendReturns(c) == SendOk(c) \/ SendFailed(c) \/ SendQuota(c)

Next ==
    \/ \E c \in Caller : TickStep(c) \/ SendReturns(c)
    \/ PullUpNamed
    \/ \E s \in Session : GrowOld(s) \/ Expire(s) \/ Work(s) \/ Stop(s)
    \/ Crash \/ NewServer

\* The sweeper loop ticks, a send returns (30 seconds), time passes, and a session
\* that writes nothing for its quiet time no longer counts as working.
Fairness ==
    /\ WF_vars(TickStep("sweeper"))
    /\ \A c \in Caller : WF_vars(SendReturns(c))
    /\ \A s \in Session : WF_vars(GrowOld(s)) /\ WF_vars(Expire(s)) /\ WF_vars(Stop(s))

Spec     == Init /\ [][Next]_vars
FairSpec == Spec /\ Fairness

----------------------------------------------------------------------------
(* Properties *)

Sending == {c \in Caller : tick[c].phase = "send"}

\* Every variable has its type; a session is in flight exactly while a caller is
\* sending for it or to it.
TypeOK ==
    /\ state \in [Session -> {"working", "stalled", "quota", "finished"}]
    /\ step \in [Session -> 0..MaxStep]
    /\ written \in [Session -> 0..server] /\ known \in 0..server /\ server \in 0..MaxServers
    /\ rows \in Seq([conv : Session, target : Session, kind : {"restart", "other"},
                     by : Caller \cup {"scan"}, step : 0..MaxStep, server : 0..MaxServers,
                     status : {"attempting", "resuscitated", "failed", "quota_cooldown", "resolved"}])
    /\ age \in [Session -> 0..2]
    /\ \A c \in Caller : /\ tick[c].phase \in {"idle", "tick", "send"}
                         /\ \A set \in {tick[c].todo, tick[c].awake, tick[c].name} :
                                set \subseteq Session
                         /\ tick[c].items \subseteq
                                [conv : Session, kind : {"restart", "other"}, step : 0..MaxStep]
    /\ inflight = UNION {{RowOf(c).conv, RowOf(c).target} : c \in Sending}
    /\ recent \subseteq Session
    /\ requests \in 0..MaxRequests /\ crashes \in 0..MaxCrashes

\* The two callers never send for the same session or into the same conversation
\* at a time, whatever they scanned before (_in_flight_resuscitations).
OneAtATime ==
    \A c, d \in Sending : c # d =>
        {RowOf(c).conv, RowOf(c).target} \cap {RowOf(d).conv, RowOf(d).target} = {}

\* "A session or its target parent must be resuscitated at most ONCE per server
\* restart event": a pull-up because of a restart follows no other prompt to the
\* session since that restart, delegated ones included, that was sent and not
\* recorded as failed (one that timed out is, although it may have arrived).
OncePerRestart ==
    \A i, j \in DOMAIN rows :
        /\ j < i /\ rows[i].kind = "restart" /\ rows[j].server = rows[i].server
        /\ rows[i].target \in {rows[j].conv, rows[j].target}
        => ~Sent(rows[j])

\* The circuit breaker bounds the sweeper although its verdicts are old when they
\* are used: at one step and for one server it attempts a session at most MaxTotal
\* times. Only a request sets the count back, by an attempt at another step: step 0
\* of a named session that was not found stalled, or the step of an old verdict.
Tries(s, at, n) ==
    {i \in RowsOf(s) :
        /\ rows[i].by = "sweeper" /\ rows[i].step = at /\ rows[i].server = n
        /\ rows[i].status \in {"attempting", "resuscitated", "failed"}
        /\ \A k \in RowsOf(s) : k > i /\ rows[k].by = "route" => rows[k].step = at}
Budget == \A s \in Session, at \in 0..MaxStep, n \in 0..MaxServers :
              Cardinality(Tries(s, at, n)) <= MaxTotal

\* The attempt was cut off by a crash: its row says 'attempting' for good.
Abandoned(s) == /\ RowsOf(s) # {} /\ LastRow(s).status = "attempting"
                /\ s \notin inflight


==============================================================================

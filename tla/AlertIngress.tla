---------------------------- MODULE AlertIngress ----------------------------
(***************************************************************************)
(* The Uptime Kuma receiver (hub/routes/uptime_kuma.py): a report that a   *)
(* monitor is DOWN is probed, held against the monitor's cooldown, judged  *)
(* by the alert filter (hub/alert_filter.py) and, if critical, recorded as *)
(* an event and a triage task; a report that it is UP ends the cooldown.   *)
(*                                                                         *)
(* Handlers share _recent_down_events and give way to each other in two    *)
(* places, the probe and the filter's model call: the cooldown is read and *)
(* set in one turn between them. Probe, model and monitors are external.   *)
(* Time passes in ticks, Window of them to COOLDOWN_SECONDS.               *)
(*                                                                         *)
(* A recorded event is the dispatcher's from there on (TaskDispatcher,     *)
(* EventsHandled), with its task or as an orphan of the sweep.             *)
(*                                                                         *)
(* ConfirmUnmarked, MarkFirst, CoalesceAgain and PassUnbounded are wrong   *)
(* on purpose: slips the properties must notice.                           *)
(***************************************************************************)
EXTENDS Integers

CONSTANTS
    Handler,    \* requests in flight
    Monitor,
    Url,        \* monitors with a URL to probe
    Critical,   \* monitors whose outages the filter always lets through
    Nothing,
    Window,     \* COOLDOWN_SECONDS in ticks
    MaxFaults   \* bound: crashes, database errors, repeated and late reports

ASSUME MonitorAssumption == Url \subseteq Monitor /\ Critical \subseteq Monitor
ASSUME NothingAssumption == Nothing \notin Monitor
ASSUME BoundAssumption == Window \in Nat \ {0} /\ MaxFaults \in Nat

VARIABLES
    down,      \* external: the monitored service is down
    cooldown,  \* _recent_down_events: ticks the monitor's cooldown still lasts
    pc,        \* where a handler is
    monitor,   \* the monitor its request reports
    again,     \* its request repeats the idempotency key of an earlier one
    stored,    \* monitors with an event whose key may be repeated
    answered,  \* an event was recorded since the outage began
    quiet,     \* ticks since the last alert let through, counted down
    fate,      \* what became of the alert that started the cooldown
    faults

vars == <<down, cooldown, pc, monitor, again, stored, answered, quiet, fate, faults>>

Init ==
    /\ down = [m \in Monitor |-> FALSE]
    /\ cooldown = [m \in Monitor |-> 0]
    /\ pc = [h \in Handler |-> "idle"]
    /\ monitor = [h \in Handler |-> Nothing]
    /\ again = [h \in Handler |-> FALSE]
    /\ stored = {}
    /\ answered = [m \in Monitor |-> FALSE]
    /\ quiet = [m \in Monitor |-> 0]
    /\ fate = [m \in Monitor |-> "none"]
    /\ faults = 0

\* The handler answers; its request is forgotten.
Done(h) ==
    /\ pc' = [pc EXCEPT ![h] = "idle"]
    /\ monitor' = [monitor EXCEPT ![h] = Nothing]
    /\ again' = [again EXCEPT ![h] = FALSE]

Fault == faults < MaxFaults /\ faults' = faults + 1

-----------------------------------------------------------------------------
(* The monitored services and the clock. *)

Fail(m) ==
    /\ ~down[m]
    /\ down' = [down EXCEPT ![m] = TRUE]
    /\ answered' = [answered EXCEPT ![m] = FALSE]
    /\ UNCHANGED <<cooldown, pc, monitor, again, stored, quiet, fate, faults>>

Recover(m) ==
    /\ down[m]
    /\ down' = [down EXCEPT ![m] = FALSE]
    /\ UNCHANGED <<cooldown, pc, monitor, again, stored, answered, quiet, fate, faults>>

PassUnbounded(left) == [m \in Monitor |-> left[m] - 1]

Pass(left) == [m \in Monitor |-> IF left[m] > 0 THEN left[m] - 1 ELSE 0]

Tick ==
    /\ \E m \in Monitor : cooldown[m] > 0 \/ quiet[m] > 0
    /\ cooldown' = Pass(cooldown)
    /\ quiet' = Pass(quiet)
    /\ fate' = [m \in Monitor |-> IF cooldown[m] = 1 THEN "none" ELSE fate[m]]
    /\ UNCHANGED <<down, pc, monitor, again, stored, answered, faults>>

-----------------------------------------------------------------------------
(* A report DOWN. *)

CoalesceAgain(h, m) ==
    /\ cooldown[m] > 0
    /\ Done(h)
    /\ cooldown' = [cooldown EXCEPT ![m] = Window]
    /\ UNCHANGED <<quiet, fate>>

\* Past the probe, in one turn of the loop: within the cooldown of another
\* alert the report is coalesced into it ...
Coalesce(h, m) ==
    /\ cooldown[m] > 0
    /\ Done(h)
    /\ UNCHANGED <<cooldown, quiet, fate>>

\* The cooldown starts with the filter's answer, too late for this handler.
ConfirmUnmarked(h, m, repeats) ==
    /\ cooldown[m] = 0
    /\ pc' = [pc EXCEPT ![h] = "filter"]
    /\ monitor' = [monitor EXCEPT ![h] = m]
    /\ again' = [again EXCEPT ![h] = repeats]
    /\ quiet' = [quiet EXCEPT ![m] = Window]
    /\ fate' = [fate EXCEPT ![m] = "open"]
    /\ UNCHANGED cooldown

\* ... otherwise the cooldown starts, and the handler waits for the filter.
Confirm(h, m, repeats) ==
    /\ cooldown[m] = 0
    /\ cooldown' = [cooldown EXCEPT ![m] = Window]
    /\ pc' = [pc EXCEPT ![h] = "filter"]
    /\ monitor' = [monitor EXCEPT ![h] = m]
    /\ again' = [again EXCEPT ![h] = repeats]
    /\ quiet' = [quiet EXCEPT ![m] = Window]
    /\ fate' = [fate EXCEPT ![m] = "open"]

MarkFirst(h, m, repeats) ==
    /\ pc' = [pc EXCEPT ![h] = "probe"]
    /\ monitor' = [monitor EXCEPT ![h] = m]
    /\ again' = [again EXCEPT ![h] = repeats]
    /\ cooldown' = [cooldown EXCEPT ![m] = Window]
    /\ UNCHANGED <<quiet, fate>>

\* A report for a monitor with a URL waits for the probe.
StartProbe(h, m, repeats) ==
    /\ pc' = [pc EXCEPT ![h] = "probe"]
    /\ monitor' = [monitor EXCEPT ![h] = m]
    /\ again' = [again EXCEPT ![h] = repeats]
    /\ UNCHANGED <<cooldown, quiet, fate>>

Receive(h, m, repeats) ==
    /\ pc[h] = "idle"
    /\ IF m \in Url
       THEN StartProbe(h, m, repeats)
       ELSE Coalesce(h, m) \/ Confirm(h, m, repeats)
    /\ UNCHANGED <<down, stored, answered>>

\* Kuma reports an outage, and reports it again while it lasts.
PostDown(h, m) ==
    /\ down[m]
    /\ Receive(h, m, FALSE)
    /\ UNCHANGED faults

\* A report that comes late, when the service may be up, or twice.
PostDownAgain(h, m) == Fault /\ \E repeats \in BOOLEAN : Receive(h, m, repeats)

\* The probe, in a thread of the executor.
Probe(h) ==
    /\ pc[h] = "probe"
    /\ pc' = [pc EXCEPT ![h] = IF down[monitor[h]] THEN "dead" ELSE "alive"]
    /\ UNCHANGED <<down, cooldown, monitor, again, stored, answered, quiet, fate, faults>>

\* insert_webhook_event keeps the first event of a key.
Known(h) == again[h] /\ monitor[h] \in stored

Store(h) == stored' = stored \cup {monitor[h]}

\* The service answers the probe: the event is stored as processed.
Flap(h) ==
    /\ pc[h] = "alive"
    /\ Store(h)
    /\ Done(h)
    /\ UNCHANGED <<down, cooldown, answered, quiet, fate, faults>>

Probed(h) ==
    /\ pc[h] = "dead"
    /\ Coalesce(h, monitor[h]) \/ Confirm(h, monitor[h], again[h])
    /\ UNCHANGED <<down, stored, answered, faults>>

\* The filter calls the alert noise: it is stored as processed. The cooldown
\* it started goes on.
Suppress(h) ==
    /\ pc[h] = "filter"
    /\ monitor[h] \notin Critical
    /\ Store(h)
    /\ Done(h)
    /\ fate' = [fate EXCEPT ![monitor[h]] = "noise"]
    /\ UNCHANGED <<down, cooldown, answered, quiet, faults>>

\* The event is committed, then the task, with no turn of the loop between.
Escalate(h) ==
    /\ pc[h] = "filter"
    /\ ~Known(h)
    /\ Store(h)
    /\ Done(h)
    /\ answered' = [answered EXCEPT ![monitor[h]] = TRUE]
    /\ fate' = [fate EXCEPT ![monitor[h]] = "recorded"]
    /\ UNCHANGED <<down, cooldown, quiet, faults>>

\* The key is in the table: insert_webhook_event stores nothing, its answer is
\* ignored, and the task fails on the foreign key of the missing event.
EscalateKnown(h) ==
    /\ pc[h] = "filter"
    /\ Known(h)
    /\ Done(h)
    /\ fate' = [fate EXCEPT ![monitor[h]] = "lost"]
    /\ UNCHANGED <<down, cooldown, stored, answered, quiet, faults>>

\* The database refuses the event; or the task, which leaves an orphan.
EscalateError(h) ==
    /\ pc[h] = "filter"
    /\ Fault
    /\ Done(h)
    /\ \/ /\ fate' = [fate EXCEPT ![monitor[h]] = "lost"]
          /\ UNCHANGED <<stored, answered>>
       \/ /\ ~Known(h)
          /\ Store(h)
          /\ answered' = [answered EXCEPT ![monitor[h]] = TRUE]
          /\ fate' = [fate EXCEPT ![monitor[h]] = "recorded"]
    /\ UNCHANGED <<down, cooldown, quiet>>

-----------------------------------------------------------------------------
(* A report UP, in time or late, ends the cooldown, whoever is waiting for *)
(* the filter.                                                             *)

PostUp(m) ==
    /\ cooldown[m] > 0 \/ quiet[m] > 0
    /\ (~down[m] /\ UNCHANGED faults) \/ Fault
    /\ cooldown' = [cooldown EXCEPT ![m] = 0]
    /\ quiet' = [quiet EXCEPT ![m] = 0]
    /\ fate' = [fate EXCEPT ![m] = "none"]
    /\ UNCHANGED <<down, pc, monitor, again, stored, answered>>

\* The cooldowns live in memory. A handler may have committed its event.
Crash ==
    /\ Fault
    /\ cooldown' = [m \in Monitor |-> 0]
    /\ quiet' = [m \in Monitor |-> 0]
    /\ fate' = [m \in Monitor |-> "none"]
    /\ pc' = [h \in Handler |-> "idle"]
    /\ monitor' = [h \in Handler |-> Nothing]
    /\ again' = [h \in Handler |-> FALSE]
    /\ \/ UNCHANGED <<stored, answered>>
       \/ \E h \in Handler :
            /\ pc[h] = "filter"
            /\ ~Known(h)
            /\ Store(h)
            /\ answered' = [answered EXCEPT ![monitor[h]] = TRUE]
    /\ UNCHANGED down

-----------------------------------------------------------------------------
Service == \E m \in Monitor : Fail(m) \/ Recover(m) \/ PostUp(m)

Posts(m)  == \E h \in Handler : PostDown(h, m)
Handle(h) == Probe(h) \/ Flap(h) \/ Probed(h)
             \/ Suppress(h) \/ Escalate(h) \/ EscalateKnown(h)

Next ==
    \/ Service
    \/ Tick
    \/ \E m \in Monitor : Posts(m) \/ \E h \in Handler : PostDownAgain(h, m)
    \/ \E h \in Handler : Handle(h) \/ EscalateError(h)
    \/ Crash

Spec == Init /\ [][Next]_vars

\* The loop runs every handler that can go on, the clock goes on, and Kuma
\* reports an outage again and again while it lasts.
FairSpec ==
    /\ Spec
    /\ WF_vars(Tick)
    /\ \A h \in Handler : WF_vars(Handle(h))
    /\ \A m \in Monitor : SF_vars(Posts(m))

-----------------------------------------------------------------------------
(* Properties *)

\* Types: a handler that is not idle knows its monitor, and no cooldown
\* outlasts the window.
TypeOK ==
    /\ down \in [Monitor -> BOOLEAN] /\ answered \in [Monitor -> BOOLEAN]
    /\ cooldown \in [Monitor -> 0..Window] /\ quiet \in [Monitor -> 0..Window]
    /\ pc \in [Handler -> {"idle", "probe", "alive", "dead", "filter"}]
    /\ monitor \in [Handler -> Monitor \cup {Nothing}]
    /\ \A h \in Handler : pc[h] = "idle" <=> monitor[h] = Nothing
    /\ again \in [Handler -> BOOLEAN]
    /\ stored \subseteq Monitor
    /\ fate \in [Monitor -> {"none", "open", "recorded", "noise", "lost"}]
    /\ faults \in 0..MaxFaults

\* However the reports of a monitor overlap in probe and filter, at most one
\* of them gets past the cooldown in a window, unless the monitor was reported
\* UP or the process died in between (uptime_kuma.py:287-303).
OncePerWindow ==
    [][\A h \in Handler : pc[h] # "filter" /\ pc'[h] = "filter"
                            => quiet[monitor'[h]] = 0]_vars

\* A cooldown silences a monitor only on account of an alert that is being
\* judged or was: it was recorded, called noise, or lost to a database
\* error or a repeated key. Flaps and coalesced reports start none
\* (uptime_kuma.py:241-303).
NotSwallowed ==
    \A m \in Monitor : cooldown[m] > 0 =>
        \/ fate[m] \in {"recorded", "noise", "lost"}
        \/ \E h \in Handler : pc[h] = "filter" /\ monitor[h] = m

\* An outage of a monitor the filter never calls noise is recorded, or it ends,
\* through flaps, repeated reports, database errors and crashes: the reports
\* that are coalesced do not put the next alert off (uptime_kuma.py:287-301).
OutageAnswered ==
    \A m \in Critical : down[m] ~> (answered[m] \/ ~down[m])
==============================================================================

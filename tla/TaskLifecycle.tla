---------------------------- MODULE TaskLifecycle ----------------------------
(***************************************************************************)
(* What the hub promises of a task, whatever the queue, the workers, the   *)
(* sweeper, the command line tool, crashes and reboots do to it: it waits, *)
(* runs and settles; a run uses up a grant; a settled task comes back only *)
(* with a new grant, and a success only when an operator asks.             *)
(*                                                                         *)
(* Several tasks may move in one step: a commit makes everything durable   *)
(* that the connection had open. TaskDispatcher implements this module for *)
(* the committed table (see its Lifecycle).                                *)
(***************************************************************************)
EXTENDS Integers

CONSTANT Task

VARIABLES
    phase,       \* where each task is
    granted,     \* the number of the last run it was granted
    started,     \* the number of the last run that was recorded
    unnumbered,  \* a run began and has no number yet
    asked        \* how often an operator asked for a rerun

vars == <<phase, granted, started, unnumbered, asked>>

Phase == {"none", "waiting", "running", "failed", "succeeded"}

Unmoved(t) == phase'[t] = phase[t] /\ granted'[t] = granted[t]

Unrecorded(t) == started'[t] = started[t] /\ unnumbered'[t] = unnumbered[t]

Stays(t) == Unmoved(t) /\ Unrecorded(t)

\* The task is made, with one run granted.
Submit(t) == /\ phase[t] = "none" /\ phase'[t] = "waiting"
             /\ granted'[t] = granted[t] /\ Unrecorded(t)

\* The only way to run: from waiting. The run has no number yet.
Start(t) == /\ phase[t] = "waiting" /\ phase'[t] = "running"
            /\ granted'[t] = granted[t]
            /\ ~unnumbered[t] /\ unnumbered'[t]
            /\ started'[t] = started[t]

\* A run that began gets its number, above that of every run before, whatever
\* became of the task since. It may be below the last one granted: the row was
\* read earlier.
Number(t) == /\ unnumbered[t] /\ ~unnumbered'[t]
             /\ started[t] < started'[t] /\ started'[t] <= granted[t]
             /\ Unmoved(t)

\* It never gets one: the run goes on, or is lost.
Skip(t) == /\ unnumbered[t] /\ ~unnumbered'[t]
           /\ started'[t] = started[t]
           /\ Unmoved(t)

\* A running task ends, or is given up.
Settle(t) == /\ phase[t] = "running" /\ phase'[t] \in {"failed", "succeeded"}
             /\ granted'[t] = granted[t] /\ Unrecorded(t)

\* A task waits again, for a run with a new number.
Requeue(t) == /\ phase[t] # "none" /\ phase'[t] = "waiting"
              /\ phase[t] = "succeeded" => asked'[t] > asked[t]
              /\ granted[t] < granted'[t] /\ Unrecorded(t)

\* An operator may ask at any time; the answer may become durable later.
Asks(t) == asked[t] <= asked'[t]

Move(t) == \/ Stays(t)
           \/ Submit(t)
           \/ Start(t)
           \/ Number(t)
           \/ Skip(t)
           \/ Settle(t)
           \/ Requeue(t)

Init == /\ phase = [t \in Task |-> "none"]
        /\ granted = [t \in Task |-> 1] /\ started = [t \in Task |-> 0]
        /\ unnumbered = [t \in Task |-> FALSE]
        /\ asked = [t \in Task |-> 0]

Next == \A t \in Task : Move(t) /\ Asks(t)

Spec == Init /\ [][Next]_vars
==============================================================================

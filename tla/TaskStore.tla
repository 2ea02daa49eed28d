----------------------------- MODULE TaskStore -----------------------------
(***************************************************************************)
(* The tasks table of hub/db.py (DatabaseManager), one row per task, and   *)
(* what each UPDATE statement of the task state machine does to a row.     *)
(*                                                                         *)
(* Every method of DatabaseManager runs under one RLock and commits before *)
(* it returns, so a method is one atomic step of whoever calls it; the     *)
(* operators below are those steps, and the modules that model the callers *)
(* decide how the steps interleave.                                        *)
(*                                                                         *)
(* Of a row only what the state machine reads is kept: the status, the     *)
(* retry counters, whether error_message matches the LIKE patterns of the  *)
(* sweeper ("recoverable": restart, interrupted, timed out, timeout,       *)
(* handshake, Connection, network), and whether a running row is older     *)
(* than MAX(stale_running_seconds, timeout_seconds) ("aged").              *)
(*                                                                         *)
(* SettledAlways, RerunSameAttempt, RecoverGivingBack, RecoverSameAttempt, *)
(* AnyTerminal and RetryForever are wrong on purpose: each is a slip in    *)
(* the statement that follows it, which one of TaskDispatcher's properties *)
(* has to notice.                                                          *)
(***************************************************************************)
EXTENDS Integers

CONSTANT MaxAutoRetries      \* sweeper.max_auto_retries of the configuration

ASSUME MaxAutoRetriesAssumption == MaxAutoRetries \in Nat

----------------------------------------------------------------------------
(* Rows *)

Terminal == {"succeeded", "failed", "timed_out"}

\* "absent" is no row. No caller ever writes 'cancelled' or 'scheduled'.
Status == {"absent", "received", "queued", "running"} \cup Terminal

ErrorClass == {"none", "recoverable", "other"}

Row == [status : Status, retry : Nat, max : Nat,
        error : ErrorClass, aged : BOOLEAN]

NoRow == [status |-> "absent", retry |-> 0, max |-> 0,
          error |-> "none", aged |-> FALSE]

\* insert_task: every caller inserts with status 'queued' and retry_count 0.
NewRow(max) == [NoRow EXCEPT !.status = "queued", !.max = max]

Larger(a, b) == IF a >= b THEN a ELSE b

\* What the sweeper may raise a task's max_retries to.
RetryLimit(row) == Larger(row.max, MaxAutoRetries)

----------------------------------------------------------------------------
(* update_task_status_cas: the new row when the expected status matches. *)

\* received/queued -> running; started_at becomes now, the error text stays.
Started(row) == [row EXCEPT !.status = "running", !.aged = FALSE]

\* running -> final status; error_message only changes when one is given.
SettledAlways(row, status, error) ==
    [row EXCEPT !.status = status, !.aged = FALSE,
                !.error = IF error = "none" THEN @ ELSE error]

Settled(row, status, error) ==
    IF row.status # "running" THEN row
    ELSE [row EXCEPT !.status = status, !.aged = FALSE,
                     !.error = IF error = "none" THEN @ ELSE error]

----------------------------------------------------------------------------
(* rerun_task and recover_orphaned_tasks *)

RerunSameAttempt(row) ==
    [row EXCEPT !.status = "queued", !.error = "none", !.aged = FALSE]

\* rerun_task asks nothing of the row: any status goes back to 'queued'.
Rerun(row) == [row EXCEPT !.status = "queued", !.retry = @ + 1,
                          !.error = "none", !.aged = FALSE]

RecoverGivingBack(row) ==
    IF row.status # "running" THEN row
    ELSE [row EXCEPT !.status = IF row.retry < row.max THEN "queued" ELSE "failed",
                     !.retry = @ - 1, !.error = "recoverable", !.aged = FALSE]

RecoverSameAttempt(row) ==
    IF row.status # "running" THEN row
    ELSE [row EXCEPT !.status = IF row.retry < row.max THEN "queued" ELSE "failed",
                     !.error = "recoverable", !.aged = FALSE]

\* The boot-time UPDATE, WHERE status = 'running'.
RecoverOrphaned(row) ==
    IF row.status # "running" THEN row
    ELSE IF row.retry < row.max
         THEN [row EXCEPT !.status = "queued", !.retry = @ + 1,
                          !.error = "recoverable", !.aged = FALSE]
         ELSE [row EXCEPT !.status = "failed",
                          !.error = "recoverable", !.aged = FALSE]

----------------------------------------------------------------------------
(* sweep_and_requeue_unprocessed, steps 1, 2 and 4 (3 makes new rows). *)

Requeued(row, max) ==
    [row EXCEPT !.status = "queued", !.retry = @ + 1, !.max = max,
                !.error = "recoverable", !.aged = FALSE]

AnyTerminal(row) == row.status \in Terminal

Interrupted(row) == \/ row.status = "failed" /\ row.error = "recoverable"
                    \/ row.status = "timed_out"

\* Step 1: a stale running row is queued again or, out of retries, timed out.
ResetStale(row, auto) ==
    IF ~(row.status = "running" /\ row.aged) THEN row
    ELSE IF auto /\ row.retry < RetryLimit(row)
         THEN Requeued(row, RetryLimit(row))
         ELSE [row EXCEPT !.status = "timed_out", !.error = "recoverable",
                          !.aged = FALSE]

\* Step 2: 'received' becomes 'queued'.
Promote(row) ==
    IF row.status = "received" THEN [row EXCEPT !.status = "queued"] ELSE row

RetryForever(row, auto) ==
    IF auto /\ Interrupted(row) THEN Requeued(row, RetryLimit(row)) ELSE row

\* Step 4: an interrupted failure is queued again, within the sweeper's own
\* limit: the row's max_retries is raised, never consulted.
RetryInterrupted(row, auto) ==
    IF auto /\ Interrupted(row) /\ row.retry < MaxAutoRetries
    THEN Requeued(row, RetryLimit(row))
    ELSE row

HalfSwept(row, auto) == Promote(ResetStale(row, auto))

Swept(row, auto) == RetryInterrupted(HalfSwept(row, auto), auto)
============================================================================

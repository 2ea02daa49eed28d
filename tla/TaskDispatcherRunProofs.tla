----------------------- MODULE TaskDispatcherRunProofs -----------------------
(***************************************************************************)
(* The runs of a task and its committed status, for every number of        *)
(* events, tasks, workers, handlers, retries, reruns, crashes, aborted     *)
(* sweeps and command line sweeps: runs are numbered upwards and within    *)
(* what was granted, the one a worker has in hand is the latest, a         *)
(* committed result stays until a rerun or a retry, and the dispatcher     *)
(* implements TaskLifecycle.                                               *)
(*                                                                         *)
(* The argument follows one row through two tables at once: the one the    *)
(* daemon's connection sees and the one a crash would leave, which an      *)
(* aborted sweep lets drift apart. Every step but the start of a run, its  *)
(* record and a crash moves both in one of four ways (Moved), and none of  *)
(* them lowers the retry count; a row that waits has one retry more than   *)
(* its last run used. Between its two commits a start has a running row    *)
(* whose run has no number yet (RecordsFit).                               *)
(* At the end: without a second process, an event has one task at most.    *)
(***************************************************************************)
EXTENDS TaskDispatcherProofs

(* The inductive invariant *)

\* What the runs of a task say of a row of it. n is the number of the last run, k
\* how often a rerun was asked for.
RowFits(row, n, k) ==
    /\ row.status = "absent" => row.retry = 0 /\ n = 0
    /\ row.status \in {"received", "queued"} => n <= row.retry
    /\ n <= row.retry + 1
    /\ row.retry <= RetryLimit(row) + k

\* Both the table and what a crash would leave of it.
RowsFit ==
    \A t \in Task : /\ RowFits(tasks[t], LastRun(t), reruns[t])
                    /\ RowFits(Committed[t], LastRun(t), reruns[t])

\* The runs are numbered upwards, and the last has the largest number.
RunsNumbered ==
    \A t \in Task : /\ Len(executions[t]) <= LastRun(t)
                     /\ \A i \in 1..Len(executions[t]) : executions[t][i] <= LastRun(t)

\* The number a coroutine is about to use is new, and granted.
AttemptsNew ==
    \A p \in Proc : pc[p] \in {"cas", "record"} =>
        LastRun(job[p]) < seen[p].attempt /\ seen[p].attempt <= tasks[job[p]].retry + 1

\* Between the two commits of a start, the rows already fit the run that is not
\* recorded yet, and the connection has nothing open.
RecordsFit ==
    \A p \in Proc : pc[p] = "record" =>
        /\ RowFits(tasks[job[p]], seen[p].attempt, reruns[job[p]])
        /\ pending = None

\* A worker inside an action has a number no run recorded since is above.
RunLatest == \A w \in Worker : pc[w] = "run" => LastRun(job[w]) <= seen[w].attempt

\* The id a handler drew has no row before it inserts it.
DrawnAbsent == \A h \in Handler : pc[h] = "insert" => tasks[job[h]].status = "absent"

Same(a, b) == /\ b.retry = a.retry
              /\ b.status = a.status \/ (a.status = "received" /\ b.status = "queued")

\* What an aborted sweep does to a row without committing it.
Drift(a, b) == \/ Same(a, b)
               \/ a.status = "running" /\ b.status = "queued" /\ b.retry = a.retry + 1
               \/ a.status = "running" /\ b.status = "timed_out" /\ b.retry = a.retry

OpenDrift == \A t \in Task : Drift(Committed[t], tasks[t])

\* What may be started next waits in the committed table as well.
Due(t) == t \in Queued \/ \E p \in Proc : pc[p] \in {"load", "cas"} /\ job[p] = t

DueCommitted ==
    \A t \in Task : Due(t) => Committed[t].status \in {"received", "queued"}

RunInv == /\ RowsFit /\ RunsNumbered /\ AttemptsIncrease /\ AttemptsNew
          /\ RecordsFit /\ RunLatest /\ DrawnAbsent /\ OpenDrift /\ DueCommitted
          /\ up \/ pending = None

----------------------------------------------------------------------------
(* What a step does to a row *)

Within(row, k) == row.retry <= RetryLimit(row) + k

\* The statements of the store, d reruns among them.
Change(a, b, d) ==
    \/ Same(a, b)
    \/ a.status = "absent" /\ b.status = "queued" /\ b.retry = 0
    \/ a.status = "running" /\ b.status \in Terminal /\ b.retry = a.retry
    \/ /\ a.status # "absent" /\ b.status = "queued" /\ b.retry = a.retry + 1
       /\ a.status = "succeeded" => d = 1

\* The same seen from a committed row: a step may commit earlier ones with it.
Moved(a, b, d) ==
    \/ Same(a, b)
    \/ a.status = "absent" /\ b.status = "queued" /\ b.retry = 0
    \/ a.status = "running" /\ b.status \in Terminal /\ b.retry = a.retry
    \/ /\ a.status # "absent" /\ b.status = "queued" /\ b.retry > a.retry
       /\ a.status \in Terminal => b.retry = a.retry + 1
       /\ a.status = "succeeded" => d = 1

(* A sweep, whole or aborted, with or without the recovery at boot before it. *)
LEMMA HalfSweptChange ==
    ASSUME NEW row \in Row, NEW auto \in BOOLEAN
    PROVE  /\ Change(row, HalfSwept(row, auto), 0)
           /\ Drift(row, HalfSwept(row, auto))
           /\ \A k \in Nat : Within(row, k) => Within(HalfSwept(row, auto), k)
BY RetryLimitType, MaxAutoRetriesAssumption
   DEF Change, Drift, Same, Within, HalfSwept, Promote, ResetStale, Requeued,
       RetryLimit, Larger, Row, Status, Terminal

LEMMA RetryChange ==
    ASSUME NEW row \in Row, NEW auto \in BOOLEAN
    PROVE  /\ \/ RetryInterrupted(row, auto) = row
              \/ /\ row.status \in {"failed", "timed_out"}
                 /\ RetryInterrupted(row, auto).status = "queued"
                 /\ RetryInterrupted(row, auto).retry = row.retry + 1
           /\ \A k \in Nat : Within(row, k) => Within(RetryInterrupted(row, auto), k)
BY MaxAutoRetriesAssumption
   DEF Within, RetryInterrupted, Interrupted, Requeued, RetryLimit, Larger, Row

LEMMA SweptChange ==
    ASSUME NEW row \in Row, NEW auto \in BOOLEAN
    PROVE  /\ Change(row, Swept(row, auto), 0)
           /\ \A k \in Nat : Within(row, k) => Within(Swept(row, auto), k)
<1> DEFINE half == HalfSwept(row, auto)
<1>1. half \in Row BY HalfSweptType
<1>2. /\ Change(row, half, 0)
      /\ \A k \in Nat : Within(row, k) => Within(half, k)
  BY HalfSweptChange
<1>3. Swept(row, auto) = RetryInterrupted(half, auto) BY DEF Swept
<1> HIDE DEF half
<1>4. CASE RetryInterrupted(half, auto) = half BY <1>2, <1>3, <1>4
<1>5. CASE /\ half.status \in {"failed", "timed_out"}
           /\ RetryInterrupted(half, auto).status = "queued"
           /\ RetryInterrupted(half, auto).retry = half.retry + 1
  <2>1. /\ half.retry = row.retry /\ row.status \notin {"absent", "succeeded"}
        /\ RetryInterrupted(half, auto).retry = row.retry + 1
    BY <1>1, <1>2, <1>5 DEF Change, Same, Row, Terminal
  <2>2. Change(row, Swept(row, auto), 0) BY <1>3, <1>5, <2>1 DEF Change
  <2> QED BY <1>1, <1>2, <1>3, <2>2, RetryChange
<1> QED BY <1>1, <1>4, <1>5, RetryChange

LEMMA RecoverChange ==
    ASSUME NEW row \in Row
    PROVE  /\ \/ RecoverOrphaned(row) = row /\ row.status # "running"
              \/ /\ row.status = "running"
                 /\ \/ /\ RecoverOrphaned(row).status = "queued"
                       /\ RecoverOrphaned(row).retry = row.retry + 1
                    \/ /\ RecoverOrphaned(row).status = "failed"
                       /\ RecoverOrphaned(row).retry = row.retry
           /\ \A k \in Nat : Within(row, k) => Within(RecoverOrphaned(row), k)
BY MaxAutoRetriesAssumption DEF Within, RecoverOrphaned, RetryLimit, Larger, Row

LEMMA AbsentSwept ==
    ASSUME NEW row \in Row, NEW auto \in BOOLEAN, row.status = "absent"
    PROVE  /\ Swept(row, auto).status = "absent"
           /\ HalfSwept(row, auto).status = "absent"
BY DEF Swept, HalfSwept, Promote, ResetStale, RetryInterrupted, Interrupted

(* One after the other: what is left out is a second rerun. *)
LEMMA RecoverThenChange ==
    ASSUME NEW a \in Row, NEW b \in Row, Change(RecoverOrphaned(a), b, 0)
    PROVE  Moved(a, b, 0)
BY RecoverChange, RecoverOrphanedType DEF Change, Moved, Same, Row, Terminal

LEMMA DriftThenChange ==
    ASSUME NEW c \in Row, NEW a \in Row, NEW b \in Row, NEW d, Drift(c, a), Change(a, b, d)
    PROVE  Moved(c, b, d)
BY DEF Drift, Change, Moved, Same, Row, Terminal

LEMMA FitsMoved ==
    ASSUME NEW a \in Row, NEW b \in Row, NEW n \in Nat, NEW k \in Nat, NEW d \in Nat,
           RowFits(a, n, k), Moved(a, b, d), Within(b, k + d)
    PROVE  RowFits(b, n, k + d)
<1>1. Moved(a, b, d) => /\ b.status = "absent" => b.retry = 0 /\ n = 0
                        /\ b.status \in {"received", "queued"} => n <= b.retry
                        /\ n <= b.retry + 1
  BY DEF RowFits, Moved, Same, Row, Terminal
<1> QED BY <1>1 DEF RowFits, Within

(* What an aborted sweep leaves open is open after the next one. *)
LEMMA DriftTwice ==
    ASSUME NEW c \in Row, NEW a \in Row, NEW b \in Row, Drift(c, a), Drift(a, b)
    PROVE  Drift(c, b)
BY DEF Drift, Same, Row

----------------------------------------------------------------------------
(* What a step does to the tables *)

\* Every row is moved by a statement, with the reruns it needs.
Changes ==
    \A t \in Task : \E d \in {0, 1} :
        /\ reruns'[t] = reruns[t] + d
        /\ Change(tasks[t], tasks'[t], d) /\ Within(tasks'[t], reruns'[t])

\* Every step but a start and a crash moves both tables.
StepMove ==
    \A t \in Task : \E d \in {0, 1} :
        /\ reruns'[t] = reruns[t] + d
        /\ Moved(tasks[t], tasks'[t], d) /\ Within(tasks'[t], reruns'[t])
        /\ Moved(Committed[t], Committed'[t], d) /\ Within(Committed'[t], reruns'[t])
        /\ Drift(Committed'[t], tasks'[t])

LEMMA TableTypes ==
    ASSUME TypeOK
    PROVE  /\ tasks \in [Task -> Row] /\ Committed \in [Task -> Row]
           /\ \A t \in Task : /\ tasks[t] \in Row /\ Committed[t] \in Row
                             /\ reruns[t] \in Nat
BY DEF TypeOK, Committed

LEMMA TableTypesNext ==
    ASSUME TypeOK'
    PROVE  \A t \in Task : /\ tasks'[t] \in Row /\ Committed'[t] \in Row
                          /\ reruns'[t] \in Nat
BY DEF TypeOK, Committed

LEMMA RowsWithin ==
    ASSUME RowsFit
    PROVE  \A t \in Task : /\ Within(tasks[t], reruns[t])
                          /\ Within(Committed[t], reruns[t])
BY DEF RowsFit, RowFits, Within

LEMMA SameRow == \A row : Same(row, row)
BY DEF Same

(* A step that commits. *)
LEMMA CommitStep ==
    ASSUME TypeOK, TypeOK', RunInv, Changes, pending' = None
    PROVE  StepMove
<1> SUFFICES ASSUME NEW t \in Task
             PROVE  \E d \in {0, 1} :
                      /\ reruns'[t] = reruns[t] + d
                      /\ Moved(tasks[t], tasks'[t], d) /\ Within(tasks'[t], reruns'[t])
                      /\ Moved(Committed[t], Committed'[t], d)
                      /\ Within(Committed'[t], reruns'[t])
                      /\ Drift(Committed'[t], tasks'[t])
  BY DEF StepMove
<1>1. PICK d \in {0, 1} : /\ reruns'[t] = reruns[t] + d
                          /\ Change(tasks[t], tasks'[t], d)
                          /\ Within(tasks'[t], reruns'[t])
  BY DEF Changes
<1>2. Committed' = tasks' BY DEF Committed
<1>3. Drift(tasks[t], tasks[t]) /\ Drift(tasks'[t], tasks'[t])
  BY SameRow DEF Drift
<1>4. Drift(Committed[t], tasks[t]) BY DEF RunInv, OpenDrift
<1>5. Moved(tasks[t], tasks'[t], d)
  BY <1>1, <1>3, TableTypes, TableTypesNext, DriftThenChange
<1>6. Moved(Committed[t], tasks'[t], d)
  BY <1>1, <1>4, TableTypes, TableTypesNext, DriftThenChange
<1> QED BY <1>1, <1>2, <1>3, <1>5, <1>6

(* A step that writes nothing to the tasks, and may commit what is open. *)
LEMMA IdleStep ==
    ASSUME TypeOK, TypeOK', RunInv, UNCHANGED <<tasks, reruns>>,
           pending' \in {None, pending, Committed}
    PROVE  StepMove
<1>1. \A t \in Task : /\ reruns'[t] = reruns[t] + 0 /\ Same(tasks[t], tasks'[t])
                      /\ Within(tasks'[t], reruns'[t])
  BY TableTypes, RowsWithin, SameRow DEF RunInv
<1>2. CASE pending' = None
  <2>1. Changes BY <1>1 DEF Changes, Change
  <2> QED BY <1>2, <2>1, CommitStep
<1>3. CASE pending' # None
  <2>1. Committed' = Committed BY <1>3 DEF Committed
  <2>2. \A t \in Task : /\ Moved(tasks[t], tasks'[t], 0)
                        /\ Moved(Committed[t], Committed'[t], 0)
                        /\ Within(Committed'[t], reruns'[t])
                        /\ Drift(Committed'[t], tasks'[t])
    BY <1>1, <2>1, SameRow, RowsWithin DEF Moved, RunInv, OpenDrift
  <2> QED BY <1>1, <2>2 DEF StepMove
<1> QED BY <1>2, <1>3

(* A step that opens a transaction, or leaves it open. *)
LEMMA OpenStep ==
    ASSUME TypeOK, TypeOK', RunInv, UNCHANGED reruns, Committed' = Committed,
           \A t \in Task : /\ Change(tasks[t], tasks'[t], 0)
                           /\ Drift(tasks[t], tasks'[t])
                           /\ Within(tasks'[t], reruns[t])
    PROVE  StepMove
<1> SUFFICES ASSUME NEW t \in Task
             PROVE  /\ reruns'[t] = reruns[t] + 0
                    /\ Moved(tasks[t], tasks'[t], 0) /\ Within(tasks'[t], reruns'[t])
                    /\ Moved(Committed[t], Committed'[t], 0)
                    /\ Within(Committed'[t], reruns'[t])
                    /\ Drift(Committed'[t], tasks'[t])
  BY DEF StepMove
<1>1. reruns'[t] = reruns[t] + 0 BY TableTypes
<1>2. Drift(tasks[t], tasks[t]) BY SameRow DEF Drift
<1>3. Moved(tasks[t], tasks'[t], 0)
  BY <1>2, TableTypes, TableTypesNext, DriftThenChange
<1>4. Drift(Committed[t], tasks'[t])
  BY TableTypes, TableTypesNext, DriftTwice DEF RunInv, OpenDrift
<1>5. Moved(Committed[t], Committed'[t], 0) /\ Within(Committed'[t], reruns'[t])
  BY SameRow, RowsWithin DEF Moved, RunInv
<1> QED BY <1>1, <1>3, <1>4, <1>5

----------------------------------------------------------------------------
(* The steps that write *)

(* A fresh id has no row, and none in the table of an event it is not for. *)
LEMMA FreshRows ==
    ASSUME NEW es, NEW new \in Rehydrations(es), NEW t \in DOMAIN new
    PROVE  /\ t \in Task /\ new[t] \in Nat
           /\ tasks[t].status = "absent" /\ \A p \in Proc : job[p] # t
<1>1. Fresh(t) BY RehydrationsType
<1> QED BY <1>1, RehydrationsType DEF Fresh

LEMMA NothingToRehydrate ==
    ASSUME NEW new \in Rehydrations({})
    PROVE  DOMAIN new = {}
<1>1. PICK ts \in SUBSET Task :
        /\ \A t \in ts : Fresh(t) /\ EventOf[t] \in {}
        /\ new \in [ts -> ClientMax \cup {MaxAutoRetries}]
  <2> HIDE DEF Fresh
  <2> QED BY DEF Rehydrations
<1> QED BY <1>1

LEMMA NewRowChange ==
    ASSUME NEW row, row.status = "absent", NEW max \in Nat, NEW k \in Nat
    PROVE  Change(row, NewRow(max), 0) /\ Within(NewRow(max), k)
BY MaxAutoRetriesAssumption
   DEF Change, Within, NewRow, NoRow, RetryLimit, Larger

(* A sweep of the table the daemon or the tool sees. *)
LEMMA SweptTableChange ==
    ASSUME TypeOK, RunInv, NEW es, NEW new \in Rehydrations(es), NEW auto \in BOOLEAN,
           NEW t \in Task
    PROVE  /\ Change(tasks[t], SweptTable(tasks, new, auto)[t], 0)
           /\ Within(SweptTable(tasks, new, auto)[t], reruns[t])
           /\ Change(tasks[t], HalfSweptTable(tasks, new, auto)[t], 0)
           /\ Within(HalfSweptTable(tasks, new, auto)[t], reruns[t])
           /\ t \notin DOMAIN new => Drift(tasks[t], HalfSweptTable(tasks, new, auto)[t])
<1>1. tasks[t] \in Row /\ reruns[t] \in Nat /\ Within(tasks[t], reruns[t])
  BY TableTypes, RowsWithin DEF RunInv
<1>2. CASE t \in DOMAIN new
  <2>1. /\ SweptTable(tasks, new, auto)[t] = NewRow(new[t])
        /\ HalfSweptTable(tasks, new, auto)[t] = NewRow(new[t])
    BY <1>2 DEF SweptTable, HalfSweptTable
  <2> QED BY <1>1, <1>2, <2>1, FreshRows, NewRowChange
<1>3. CASE t \notin DOMAIN new
  <2>1. /\ SweptTable(tasks, new, auto)[t] = Swept(tasks[t], auto)
        /\ HalfSweptTable(tasks, new, auto)[t] = HalfSwept(tasks[t], auto)
    BY <1>3 DEF SweptTable, HalfSweptTable
  <2> QED BY <1>1, <2>1, SweptChange, HalfSweptChange
<1> QED BY <1>2, <1>3

(* A sweep at boot, after the recovery. *)
LEMMA BootTableMove ==
    ASSUME TypeOK, RunInv, NEW es, NEW new \in Rehydrations(es), NEW auto \in BOOLEAN,
           NEW t \in Task
    PROVE  /\ Moved(tasks[t], SweptTable(Recovered, new, auto)[t], 0)
           /\ Within(SweptTable(Recovered, new, auto)[t], reruns[t])
           /\ Moved(tasks[t], HalfSweptTable(Recovered, new, auto)[t], 0)
           /\ Within(HalfSweptTable(Recovered, new, auto)[t], reruns[t])
           /\ Moved(tasks[t], Recovered[t], 0) /\ Within(Recovered[t], reruns[t])
           /\ t \notin DOMAIN new
                => Drift(Recovered[t], HalfSweptTable(Recovered, new, auto)[t])
<1>1. tasks[t] \in Row /\ reruns[t] \in Nat /\ Within(tasks[t], reruns[t])
  BY TableTypes, RowsWithin DEF RunInv
<1>2. Recovered[t] = RecoverOrphaned(tasks[t]) BY DEF Recovered
<1>3. Recovered[t] \in Row /\ Within(Recovered[t], reruns[t])
  BY <1>1, <1>2, RecoverOrphanedType, RecoverChange
<1>4. Moved(tasks[t], Recovered[t], 0)
  BY <1>1, <1>2, <1>3, RecoverChange DEF Moved, Same, Terminal, Row
<1>5. CASE t \in DOMAIN new
  <2>1. /\ SweptTable(Recovered, new, auto)[t] = NewRow(new[t])
        /\ HalfSweptTable(Recovered, new, auto)[t] = NewRow(new[t])
    BY <1>5 DEF SweptTable, HalfSweptTable
  <2>2. /\ Change(tasks[t], NewRow(new[t]), 0) /\ Within(NewRow(new[t]), reruns[t])
        /\ NewRow(new[t]) \in Row
    BY <1>1, <1>5, FreshRows, NewRowChange, NewRowType
  <2>3. Drift(tasks[t], tasks[t]) BY SameRow DEF Drift
  <2>4. Moved(tasks[t], NewRow(new[t]), 0) BY <1>1, <2>2, <2>3, DriftThenChange
  <2> QED BY <1>3, <1>4, <1>5, <2>1, <2>2, <2>4
<1>6. CASE t \notin DOMAIN new
  <2>1. /\ SweptTable(Recovered, new, auto)[t] = Swept(Recovered[t], auto)
        /\ HalfSweptTable(Recovered, new, auto)[t] = HalfSwept(Recovered[t], auto)
    BY <1>6 DEF SweptTable, HalfSweptTable
  <2>2. Swept(Recovered[t], auto) \in Row /\ HalfSwept(Recovered[t], auto) \in Row
    BY <1>3, SweptType, HalfSweptType
  <2>3. /\ Moved(tasks[t], Swept(Recovered[t], auto), 0)
        /\ Moved(tasks[t], HalfSwept(Recovered[t], auto), 0)
    BY <1>1, <1>2, <1>3, <2>2, SweptChange, HalfSweptChange, RecoverThenChange
  <2>4. /\ Within(Swept(Recovered[t], auto), reruns[t])
        /\ Within(HalfSwept(Recovered[t], auto), reruns[t])
        /\ Drift(Recovered[t], HalfSwept(Recovered[t], auto))
    BY <1>1, <1>3, SweptChange, HalfSweptChange
  <2> QED BY <1>3, <1>4, <2>1, <2>3, <2>4
<1> QED BY <1>5, <1>6

----------------------------------------------------------------------------
(* The invariant over a step that starts no run *)

(* No step lowers a retry count, and what waits in a committed row stays. *)
LEMMA MovedUp ==
    ASSUME NEW a \in Row, NEW b \in Row, NEW d, NEW n, NEW k, RowFits(a, n, k),
           Moved(a, b, d)
    PROVE  /\ a.retry <= b.retry
           /\ a.status \in {"received", "queued"}
                => b.status \in {"received", "queued"}
BY DEF RowFits, Moved, Same, Row, Terminal

LEMMA LastRunType ==
    ASSUME TypeOK, NEW t \in Task
    PROVE  LastRun(t) \in Nat
<1>1. executions[t] \in Seq(Nat) BY DEF TypeOK
<1>2. CASE executions[t] = <<>> BY <1>2 DEF LastRun
<1>3. CASE executions[t] # <<>>
  <2>1. Len(executions[t]) \in 1..Len(executions[t]) BY <1>1, <1>3
  <2> QED BY <1>1, <1>3, <2>1 DEF LastRun, Last
<1> QED BY <1>2, <1>3

LEMMA FitsStep ==
    ASSUME TypeOK, TypeOK', RunInv, StepMove, UNCHANGED executions
    PROVE  RowsFit' /\ RunsNumbered' /\ AttemptsIncrease' /\ OpenDrift'
<1>1. \A t \in Task : LastRun(t)' = LastRun(t) BY DEF LastRun
<1>2. RowsFit'
  <2> SUFFICES ASSUME NEW t \in Task
               PROVE  /\ RowFits(tasks'[t], LastRun(t), reruns'[t])
                      /\ RowFits(Committed'[t], LastRun(t), reruns'[t])
    BY <1>1 DEF RowsFit
  <2>1. PICK d \in {0, 1} :
          /\ reruns'[t] = reruns[t] + d
          /\ Moved(tasks[t], tasks'[t], d) /\ Within(tasks'[t], reruns'[t])
          /\ Moved(Committed[t], Committed'[t], d) /\ Within(Committed'[t], reruns'[t])
    BY DEF StepMove
  <2>2. /\ RowFits(tasks[t], LastRun(t), reruns[t])
        /\ RowFits(Committed[t], LastRun(t), reruns[t])
    BY DEF RunInv, RowsFit
  <2>3. LastRun(t) \in Nat /\ reruns[t] \in Nat BY LastRunType, TableTypes
  <2> HIDE DEF RowFits, Within
  <2> QED BY <2>1, <2>2, <2>3, TableTypes, TableTypesNext, FitsMoved
<1>3. RunsNumbered' BY <1>1 DEF RunInv, RunsNumbered
<1>4. AttemptsIncrease' BY DEF RunInv, AttemptsIncrease
<1>5. OpenDrift' BY DEF StepMove, OpenDrift
<1> QED BY <1>2, <1>3, <1>4, <1>5

LEMMA RunStep ==
    ASSUME TypeOK, TypeOK', RunInv, StepMove, UNCHANGED executions,
           \A p \in Proc : pc'[p] \in {"cas", "record"} =>
              /\ job'[p] \in Task /\ LastRun(job'[p]) < seen'[p].attempt
              /\ seen'[p].attempt <= tasks[job'[p]].retry + 1,
           \A p \in Proc : pc'[p] = "record" =>
              /\ pc[p] = "record" /\ job'[p] = job[p] /\ seen'[p] = seen[p]
              /\ pending' = None,
           \A w \in Worker : pc'[w] = "run" => LastRun(job'[w]) <= seen'[w].attempt,
           \A h \in Handler : pc'[h] = "insert" => tasks'[job'[h]].status = "absent",
           \A t \in Task : Due(t)' =>
              Due(t) \/ Committed'[t].status \in {"received", "queued"},
           up' \/ pending' = None
    PROVE  RunInv'
<1>1. RowsFit' /\ RunsNumbered' /\ AttemptsIncrease' /\ OpenDrift' BY FitsStep
<1>2. ASSUME NEW t \in Task
      PROVE  /\ tasks[t].retry <= tasks'[t].retry
             /\ tasks[t].retry \in Nat /\ tasks'[t].retry \in Nat
             /\ Committed[t].status \in {"received", "queued"}
                  => Committed'[t].status \in {"received", "queued"}
  <2>1. PICK d : Moved(tasks[t], tasks'[t], d) /\ Moved(Committed[t], Committed'[t], d)
    BY DEF StepMove
  <2>2. /\ RowFits(tasks[t], LastRun(t), reruns[t])
        /\ RowFits(Committed[t], LastRun(t), reruns[t])
    BY DEF RunInv, RowsFit
  <2>3. tasks[t].retry \in Nat /\ tasks'[t].retry \in Nat
    BY TableTypes, TableTypesNext DEF Row
  <2> QED BY <2>1, <2>2, <2>3, TableTypes, TableTypesNext, MovedUp
<1>3. AttemptsNew'
  <2> SUFFICES ASSUME NEW p \in Proc, pc'[p] \in {"cas", "record"}
               PROVE  /\ LastRun(job'[p]) < seen'[p].attempt
                      /\ seen'[p].attempt <= tasks'[job'[p]].retry + 1
    BY DEF AttemptsNew, LastRun
  <2>1. /\ job'[p] \in Task /\ LastRun(job'[p]) < seen'[p].attempt
        /\ seen'[p].attempt <= tasks[job'[p]].retry + 1
    OBVIOUS
  <2>2. seen'[p].attempt \in Nat BY DEF TypeOK
  <2> QED BY <1>2, <2>1, <2>2
<1>4. RunLatest' BY DEF RunLatest, LastRun
<1>5. DrawnAbsent' BY DEF DrawnAbsent
<1>6. DueCommitted' BY <1>2 DEF RunInv, DueCommitted
<1>7. RecordsFit'
  <2> SUFFICES ASSUME NEW p \in Proc, pc'[p] = "record"
               PROVE  RowFits(tasks'[job[p]], seen[p].attempt, reruns'[job[p]])
    BY DEF RecordsFit
  <2>1. job[p] \in Task /\ RowFits(tasks[job[p]], seen[p].attempt, reruns[job[p]])
    BY DEF RunInv, RecordsFit
  <2>2. PICK d \in {0, 1} : /\ reruns'[job[p]] = reruns[job[p]] + d
                            /\ Moved(tasks[job[p]], tasks'[job[p]], d)
                            /\ Within(tasks'[job[p]], reruns'[job[p]])
    BY <2>1 DEF StepMove
  <2>3. seen[p].attempt \in Nat /\ reruns[job[p]] \in Nat BY <2>1 DEF TypeOK
  <2> HIDE DEF RowFits, Within
  <2> QED BY <2>1, <2>2, <2>3, TableTypes, TableTypesNext, FitsMoved
<1> QED BY <1>1, <1>3, <1>4, <1>5, <1>6, <1>7 DEF RunInv

\* No run gets its number in the step, and none begins.
Named == \A t \in Task : Unnumbered(t)' <=> Unnumbered(t)

(* The same for a step that leaves the coroutines alone. *)
LEMMA TableRunStep ==
    ASSUME TypeOK, TypeOK', RunInv, StepMove, UNCHANGED <<executions, procVars>>,
           \A h \in Handler : pc[h] = "insert" => tasks'[job[h]].status = "absent",
           \A t \in Queued' :
              t \in Queued \/ Committed'[t].status \in {"received", "queued"},
           up' \/ pending' = None,
           loop = None \/ pending' \in {None, pending}
    PROVE  RunInv' /\ Named
<1>1. UNCHANGED <<pc, job, seen>> BY DEF procVars
<1>2. \A p \in Proc : pc'[p] \in {"cas", "record"} =>
         /\ job'[p] \in Task /\ LastRun(job'[p]) < seen'[p].attempt
         /\ seen'[p].attempt <= tasks[job'[p]].retry + 1
  BY <1>1, JobType DEF RunInv, AttemptsNew
<1>4. \A p \in Proc : pc'[p] = "record" =>
         /\ pc[p] = "record" /\ job'[p] = job[p] /\ seen'[p] = seen[p]
         /\ pending' = None
  <2> SUFFICES ASSUME NEW p \in Proc, pc[p] = "record" PROVE pending' = None BY <1>1
  <2>1. p # None BY NoneAssumption DEF Proc
  <2>2. pc[p] \in {"idle", "run"} \/ loop = p BY DEF TypeOK
  <2>3. loop = p BY <2>2
  <2>4. pending = None BY DEF RunInv, RecordsFit
  <2> QED BY <2>1, <2>3, <2>4
<1>5. \A w \in Worker : pc'[w] = "run" => LastRun(job'[w]) <= seen'[w].attempt
  BY <1>1 DEF RunInv, RunLatest
<1>6. Named BY <1>1 DEF Named, Unnumbered
<1>3. \A t \in Task : Due(t)' =>
         Due(t) \/ Committed'[t].status \in {"received", "queued"}
  BY <1>1 DEF Due
<1> QED BY <1>1, <1>2, <1>3, <1>4, <1>5, <1>6, RunStep

(* The same for a step of one coroutine, the others idle or inside an action. *)
LEMMA CoroutineRunStep ==
    ASSUME TypeOK, TypeOK', RunInv, StepMove, UNCHANGED <<executions, up>>,
           NEW p \in Proc, loop \in {p, None}, up,
           NEW label, Goto(p, label), label # "record",
           \A q \in Proc : q # p => job'[q] = job[q] /\ seen'[q] = seen[q],
           label = "run" => LastRun(job'[p]) <= seen'[p].attempt,
           label = "cas" => /\ LastRun(job'[p]) < seen'[p].attempt
                            /\ seen'[p].attempt <= tasks[job'[p]].retry + 1,
           label = "insert" => tasks'[job'[p]].status = "absent",
           \A t \in Task : Due(t)' =>
              Due(t) \/ Committed'[t].status \in {"received", "queued"}
    PROVE  RunInv' /\ (pc[p] # "record" => Named)
<1>1. \A q \in Proc : pc'[q] = IF q = p THEN label ELSE pc[q]
  BY DEF TypeOK, Goto
<1>2. \A q \in Proc : q # p => pc'[q] \in {"idle", "run"} BY <1>1, OthersWait
<1>3. \A q \in Proc : /\ pc'[q] \in {"cas", "record"} =>
                          /\ job'[q] \in Task /\ LastRun(job'[q]) < seen'[q].attempt
                          /\ seen'[q].attempt <= tasks[job'[q]].retry + 1
                       /\ pc'[q] # "record"
  <2>1. \A q \in Proc : pc'[q] = "cas" => job'[q] \in Task BY DEF TypeOK
  <2> QED BY <1>1, <1>2, <2>1
<1>4. \A w \in Worker : pc'[w] = "run" => LastRun(job'[w]) <= seen'[w].attempt
  BY <1>1 DEF Proc, RunInv, RunLatest
<1>6. ASSUME pc[p] # "record" PROVE Named
  <2>1. \A q \in Proc : q # p => pc[q] # "record" BY OthersWait
  <2> QED BY <1>3, <1>6, <2>1 DEF Named, Unnumbered
<1>5. \A h \in Handler : pc'[h] = "insert" => tasks'[job'[h]].status = "absent"
  BY <1>1, <1>2 DEF Proc
<1> QED BY <1>3, <1>4, <1>5, <1>6, RunStep

----------------------------------------------------------------------------
(* The sweeper, the operators and the command line tool *)

\* A step that starts nothing keeps the invariant and moves both tables.
Quiet == RunInv' /\ StepMove /\ UNCHANGED executions /\ Named

LEMMA SweepQuiet ==
    ASSUME TypeOK, TypeOK', RunInv, NEW auto \in BOOLEAN,
           NEW new \in Rehydrations(Orphans), tasks' = SweptTable(tasks, new, auto),
           pending' = None, UNCHANGED <<executions, procVars, reruns, up>>,
           \A t \in Queued' : t \in Queued \/ tasks'[t].status = "queued"
    PROVE  Quiet
<1>1. Changes
  <2>1. ASSUME NEW t \in Task
        PROVE  /\ reruns'[t] = reruns[t] + 0
               /\ Change(tasks[t], tasks'[t], 0) /\ Within(tasks'[t], reruns'[t])
    <3>1. reruns[t] \in Nat /\ reruns'[t] = reruns[t] BY TableTypes
    <3>2. Change(tasks[t], tasks'[t], 0) /\ Within(tasks'[t], reruns[t])
      BY SweptTableChange
    <3> QED BY <3>1, <3>2
  <2> QED BY <2>1 DEF Changes
<1>2. StepMove BY <1>1, CommitStep
<1>3. Committed' = tasks' BY DEF Committed
<1>4. \A h \in Handler : pc[h] = "insert" => tasks'[job[h]].status = "absent"
  <2> SUFFICES ASSUME NEW h \in Handler, pc[h] = "insert"
               PROVE  tasks'[job[h]].status = "absent"
    OBVIOUS
  <2>1. h \in Proc /\ job[h] \in Task BY JobType DEF Proc
  <2>2. job[h] \notin DOMAIN new BY <2>1, FreshRows
  <2>3. tasks[job[h]].status = "absent" /\ tasks[job[h]] \in Row
    BY <2>1, TableTypes DEF RunInv, DrawnAbsent
  <2>4. tasks'[job[h]] = Swept(tasks[job[h]], auto) BY <2>1, <2>2 DEF SweptTable
  <2> QED BY <2>3, <2>4, AbsentSwept
<1>5. RunInv' /\ Named BY <1>2, <1>3, <1>4, TableRunStep
<1> QED BY <1>2, <1>5 DEF Quiet

LEMMA HalfSweepQuiet ==
    ASSUME TypeOK, TypeOK', RunInv, NEW auto \in BOOLEAN, NEW es,
           NEW new \in Rehydrations(es), tasks' = HalfSweptTable(tasks, new, auto),
           \/ pending' = None
           \/ es = {} /\ pending' = Committed /\ up /\ loop = None,
           UNCHANGED <<executions, procVars, reruns, up, memVars>>
    PROVE  Quiet
<1>1. \A t \in Task : /\ Change(tasks[t], tasks'[t], 0)
                       /\ Within(tasks'[t], reruns[t])
                       /\ reruns'[t] = reruns[t] + 0 /\ reruns'[t] = reruns[t]
  BY SweptTableChange, TableTypes
<1>2. ASSUME pending' = None PROVE StepMove
  <2>1. Changes BY <1>1 DEF Changes
  <2> QED BY <1>2, <2>1, CommitStep
<1>3. ASSUME es = {}, pending' = Committed PROVE StepMove
  <2>1. DOMAIN new = {} BY <1>3, NothingToRehydrate
  <2>2. \A t \in Task : Drift(tasks[t], tasks'[t]) BY <2>1, SweptTableChange
  <2>3. Committed \in [Task -> Row] BY TableTypes
  <2>4. Committed' = Committed BY <1>3, <2>3, NoTableAssumption DEF Committed
  <2> QED BY <1>1, <2>2, <2>4, OpenStep
<1>4. StepMove BY <1>2, <1>3
<1>5. \A h \in Handler : pc[h] = "insert" => tasks'[job[h]].status = "absent"
  <2> SUFFICES ASSUME NEW h \in Handler, pc[h] = "insert"
               PROVE  tasks'[job[h]].status = "absent"
    OBVIOUS
  <2>1. h \in Proc /\ job[h] \in Task BY JobType DEF Proc
  <2>2. job[h] \notin DOMAIN new BY <2>1, FreshRows
  <2>3. tasks[job[h]].status = "absent" /\ tasks[job[h]] \in Row
    BY <2>1, TableTypes DEF RunInv, DrawnAbsent
  <2>4. tasks'[job[h]] = HalfSwept(tasks[job[h]], auto)
    BY <2>1, <2>2 DEF HalfSweptTable
  <2> QED BY <2>3, <2>4, AbsentSwept
<1>6. Queued' = Queued BY DEF Queued, memVars
<1>7. up' \/ pending' = None OBVIOUS
<1>8. RunInv' /\ Named BY <1>4, <1>5, <1>6, <1>7, TableRunStep
<1> QED BY <1>4, <1>8 DEF Quiet

LEMMA RerunQuiet ==
    ASSUME TypeOK, TypeOK', RunInv, NEW t \in Task, tasks[t].status # "absent",
           tasks' = [tasks EXCEPT ![t] = Rerun(@)],
           reruns' = [reruns EXCEPT ![t] = @ + 1], pending' = None,
           UNCHANGED <<executions, procVars, up>>,
           Queued' \subseteq Queued \cup {t}
    PROVE  Quiet
<1>1. ASSUME NEW u \in Task
      PROVE  \E d \in {0, 1} : /\ reruns'[u] = reruns[u] + d
                               /\ Change(tasks[u], tasks'[u], d)
                               /\ Within(tasks'[u], reruns'[u])
  <2>1. /\ tasks[u] \in Row /\ reruns[u] \in Nat /\ Within(tasks[u], reruns[u])
        /\ tasks'[u] = IF u = t THEN Rerun(tasks[u]) ELSE tasks[u]
        /\ reruns'[u] = IF u = t THEN reruns[u] + 1 ELSE reruns[u]
    BY TableTypes, RowsWithin DEF RunInv, TypeOK
  <2>2. CASE u # t
    <3>1. reruns'[u] = reruns[u] + 0 /\ Change(tasks[u], tasks'[u], 0)
      BY <2>1, <2>2 DEF Change, Same
    <3> QED BY <2>1, <2>2, <3>1
  <2>3. CASE u = t
    <3>1. Change(tasks[u], Rerun(tasks[u]), 1) BY <2>1, <2>3 DEF Change, Rerun, Row
    <3>2. Within(Rerun(tasks[u]), reruns[u] + 1)
      BY <2>1, MaxAutoRetriesAssumption DEF Within, Rerun, RetryLimit, Larger, Row
    <3> QED BY <2>1, <2>3, <3>1, <3>2
  <2> QED BY <2>2, <2>3
<1>2. StepMove BY <1>1, CommitStep DEF Changes
<1>3. Committed' = tasks' /\ tasks'[t].status = "queued"
  <2>1. tasks'[t] = Rerun(tasks[t]) /\ tasks[t] \in Row BY DEF TypeOK
  <2> QED BY <2>1, RerunType DEF Committed
<1>4. \A h \in Handler : pc[h] = "insert" => tasks'[job[h]].status = "absent"
  <2> SUFFICES ASSUME NEW h \in Handler, pc[h] = "insert"
               PROVE  tasks'[job[h]].status = "absent"
    OBVIOUS
  <2>1. job[h] # t /\ tasks[job[h]].status = "absent" BY DEF RunInv, DrawnAbsent
  <2>2. job[h] \in Task BY JobType DEF Proc
  <2> QED BY <2>1, <2>2 DEF TypeOK
<1>5. RunInv' /\ Named BY <1>2, <1>3, <1>4, TableRunStep
<1> QED BY <1>2, <1>5 DEF Quiet

LEMMA StaleQuiet ==
    ASSUME TypeOK, TypeOK', RunInv, NEW t \in Task, GrowStale(t)
    PROVE  Quiet
<1>1. /\ tasks[t].status = "running" /\ tasks' = [tasks EXCEPT ![t].aged = TRUE]
      /\ UNCHANGED <<executions, pending, up, memVars, procVars, reruns>>
  BY DEF GrowStale, histVars
<1>2. ASSUME NEW u \in Task
      PROVE  /\ Same(tasks[u], tasks'[u]) /\ Within(tasks'[u], reruns[u])
             /\ tasks'[u].status = tasks[u].status
  <2>1. tasks[u] \in Row /\ Within(tasks[u], reruns[u])
    BY TableTypes, RowsWithin DEF RunInv
  <2>2. tasks'[u] = IF u = t THEN [tasks[u] EXCEPT !.aged = TRUE] ELSE tasks[u]
    BY <1>1 DEF TypeOK
  <2>3. /\ tasks'[u].status = tasks[u].status /\ tasks'[u].retry = tasks[u].retry
        /\ tasks'[u].max = tasks[u].max
    BY <2>1, <2>2 DEF Row
  <2> QED BY <2>1, <2>3 DEF Same, Within, RetryLimit
<1>3. StepMove
  <2>1. CASE pending = None
    <3>1. \A u \in Task : reruns'[u] = reruns[u] + 0 /\ reruns'[u] = reruns[u]
      BY <1>1, TableTypes
    <3>2. Changes BY <1>2, <3>1 DEF Changes, Change
    <3> QED BY <1>1, <2>1, <3>2, CommitStep
  <2>2. CASE pending # None
    <3>1. Committed' = Committed BY <1>1, <2>2 DEF Committed
    <3> QED BY <1>1, <1>2, <3>1, OpenStep DEF Change, Drift
  <2> QED BY <2>1, <2>2
<1>4. \A h \in Handler : pc[h] = "insert" => tasks'[job[h]].status = "absent"
  BY <1>2, JobType DEF RunInv, DrawnAbsent, Proc
<1>5. Queued' = Queued BY <1>1 DEF Queued, memVars
<1>6. RunInv' /\ Named BY <1>1, <1>3, <1>4, <1>5, TableRunStep DEF RunInv
<1> QED BY <1>1, <1>3, <1>6 DEF Quiet

LEMMA OperateQuiet ==
    ASSUME TypeOK, TypeOK', QueueInv, RunInv, Operate
    PROVE  Quiet
<1>1. ASSUME NEW e \in Event, ReceiveAlert(e) PROVE Quiet
  <2>1. /\ UNCHANGED <<tasks, executions, up, memVars, procVars, reruns>>
        /\ pending' = None
    BY <1>1 DEF ReceiveAlert, histVars
  <2>2. StepMove BY <2>1, IdleStep
  <2>3. \A h \in Handler : pc[h] = "insert" => tasks'[job[h]].status = "absent"
    BY <2>1 DEF RunInv, DrawnAbsent
  <2>4. Queued' = Queued BY <2>1 DEF Queued, memVars
  <2> QED BY <2>1, <2>2, <2>3, <2>4, TableRunStep DEF Quiet
<1>2. ASSUME NEW auto \in BOOLEAN, Sweep(auto) PROVE Quiet
  <2>1. PICK new \in Rehydrations(Orphans) : tasks' = SweptTable(tasks, new, auto)
    BY <1>2 DEF Sweep
  <2>2. /\ UNCHANGED <<executions, procVars, reruns, up>> /\ pending' = None
        /\ EnqueueAll(QueuedIn(tasks'))
    BY <1>2 DEF Sweep, histVars
  <2>3. Queued' \subseteq Queued \cup QueuedIn(tasks')
    <3>1. QueuedIn(tasks') \in SUBSET Task BY DEF QueuedIn
    <3>2. Held' = Held BY <2>2 DEF Held, procVars
    <3> QED BY <2>2, <3>1, <3>2, EnqueueAllExact DEF QueueInv
  <2>4. \A t \in Queued' : t \in Queued \/ tasks'[t].status = "queued"
    BY <2>3 DEF QueuedIn
  <2> QED BY <2>1, <2>2, <2>4, SweepQuiet
<1>3. ASSUME NEW auto \in BOOLEAN, AbortSweep(auto) PROVE Quiet
  <2>1. PICK before \in SUBSET (Orphans \ Malformed) :
          /\ \E new \in Rehydrations(before) :
                tasks' = HalfSweptTable(tasks, new, auto)
          /\ pending' = IF before = {} THEN Committed ELSE None
    BY <1>3 DEF AbortSweep
  <2>2. PICK new \in Rehydrations(before) :
          tasks' = HalfSweptTable(tasks, new, auto)
    BY <2>1
  <2>3. UNCHANGED <<executions, procVars, reruns, up, memVars>> /\ up /\ loop = None
    BY <1>3 DEF AbortSweep, histVars, LoopFree
  <2>4. \/ pending' = None
        \/ before = {} /\ pending' = Committed /\ up /\ loop = None
    BY <2>1, <2>3
  <2> QED BY <2>2, <2>3, <2>4, HalfSweepQuiet
<1>4. ASSUME NEW auto \in BOOLEAN, CliSweep(auto) PROVE Quiet
  <2>1. PICK new \in Rehydrations(Orphans) : tasks' = SweptTable(tasks, new, auto)
    BY <1>4 DEF CliSweep
  <2>2. UNCHANGED <<executions, procVars, memVars, reruns, up>> /\ pending' = None
    BY <1>4 DEF CliSweep, histVars
  <2>3. Queued' = Queued BY <2>2 DEF Queued, memVars
  <2> QED BY <2>1, <2>2, <2>3, SweepQuiet
<1>5. ASSUME NEW auto \in BOOLEAN, AbortCliSweep(auto) PROVE Quiet
  <2>1. PICK before \in SUBSET (Orphans \ Malformed) :
          \E new \in Rehydrations(before) :
             tasks' = HalfSweptTable(tasks, new, auto)
    BY <1>5 DEF AbortCliSweep
  <2>2. PICK new \in Rehydrations(before) :
          tasks' = HalfSweptTable(tasks, new, auto)
    BY <2>1
  <2>3. UNCHANGED <<executions, procVars, reruns, up, memVars>> /\ pending' = None
    BY <1>5 DEF AbortCliSweep, histVars
  <2> QED BY <2>2, <2>3, HalfSweepQuiet
<1>6. ASSUME NEW t \in Task, RerunTask(t) PROVE Quiet
  <2>1. /\ tasks[t].status # "absent" /\ tasks' = [tasks EXCEPT ![t] = Rerun(@)]
        /\ reruns' = [reruns EXCEPT ![t] = @ + 1] /\ pending' = None
        /\ UNCHANGED <<executions, procVars, up>> /\ Enqueue(t)
    BY <1>6 DEF RerunTask
  <2>2. Held' = Held BY <2>1 DEF Held, procVars
  <2>3. Queued' \subseteq Queued \cup {t} BY <2>1, <2>2, EnqueueExact DEF QueueInv
  <2> QED BY <2>1, <2>3, RerunQuiet
<1>7. ASSUME NEW t \in Task, CliRerun(t) PROVE Quiet
  <2>1. /\ tasks[t].status # "absent" /\ tasks' = [tasks EXCEPT ![t] = Rerun(@)]
        /\ reruns' = [reruns EXCEPT ![t] = @ + 1] /\ pending' = None
        /\ UNCHANGED <<executions, procVars, memVars, up>>
    BY <1>7 DEF CliRerun
  <2>2. Queued' = Queued BY <2>1 DEF Queued, memVars
  <2> QED BY <2>1, <2>2, RerunQuiet
<1>8. ASSUME NEW t \in Task, GrowStale(t) PROVE Quiet BY <1>8, StaleQuiet
<1> QED BY <1>1, <1>2, <1>3, <1>4, <1>5, <1>6, <1>7, <1>8 DEF Operate

----------------------------------------------------------------------------
(* Ingress and the steps of a run that do not start it *)

LEMMA IngressQuiet ==
    ASSUME TypeOK, TypeOK', QueueInv, RunInv, NEW h \in Handler, Ingress(h)
    PROVE  Quiet
<1> h \in Proc /\ h # None BY NoneAssumption DEF Proc
<1>1. ASSUME NEW e \in Event, ReceiveWebhook(h, e) PROVE Quiet
  <2>1. PICK t \in Task : Fresh(t) /\ job' = [job EXCEPT ![h] = t]
    BY <1>1 DEF ReceiveWebhook
  <2>2. /\ UNCHANGED <<tasks, executions, up, queue, seen, reruns>>
        /\ pending' \in {None, pending} /\ Goto(h, "insert") /\ up /\ loop = None
    BY <1>1 DEF ReceiveWebhook, memVars, histVars, LoopFree
  <2>8. pc[h] # "record" BY <1>1 DEF ReceiveWebhook
  <2>3. StepMove BY <2>2, IdleStep
  <2>4. \A q \in Proc : /\ pc'[q] = IF q = h THEN "insert" ELSE pc[q]
                        /\ job'[q] = IF q = h THEN t ELSE job[q]
    BY <2>1, <2>2 DEF TypeOK, Goto
  <2>5. \A u \in Task : Due(u)' => Due(u) BY <2>2, <2>4 DEF Due, Queued
  <2>6. tasks'[job'[h]].status = "absent" BY <2>1, <2>2, <2>4 DEF Fresh
  <2>7. RunInv' /\ Named BY <2>2, <2>3, <2>4, <2>5, <2>6, <2>8, CoroutineRunStep
  <2> QED BY <2>2, <2>3, <2>7 DEF Quiet
<1>2. ASSUME pc[h] = "insert", NEW m \in ClientMax, pending' = None,
             tasks' = [tasks EXCEPT ![job[h]] = NewRow(m)], UNCHANGED reruns
      PROVE  /\ StepMove /\ up /\ loop = h /\ job[h] \in Task
             /\ Committed'[job[h]].status = "queued"
  <2>1. job[h] \in Task /\ tasks[job[h]].status = "absent"
    BY <1>2, JobType DEF RunInv, DrawnAbsent
  <2>2. m \in Nat /\ NewRow(m) \in Row /\ NewRow(m).status = "queued"
    BY ClientMaxAssumption, NewRowType
  <2>3. ASSUME NEW t \in Task
        PROVE  /\ reruns'[t] = reruns[t] + 0
               /\ Change(tasks[t], tasks'[t], 0) /\ Within(tasks'[t], reruns'[t])
    <3>1. /\ reruns[t] \in Nat /\ reruns'[t] = reruns[t]
          /\ Within(tasks[t], reruns[t])
          /\ tasks'[t] = IF t = job[h] THEN NewRow(m) ELSE tasks[t]
      BY <1>2, TableTypes, RowsWithin DEF RunInv, TypeOK
    <3>2. CASE t = job[h] BY <2>1, <2>2, <3>1, <3>2, NewRowChange
    <3>3. CASE t # job[h] BY <3>1, <3>3, SameRow DEF Change
    <3> QED BY <3>2, <3>3
  <2>4. Changes BY <2>3 DEF Changes
  <2>5. up /\ loop = h BY <1>2 DEF QueueInv, TypeOK
  <2>6. Committed'[job[h]].status = "queued"
    BY <1>2, <2>1, <2>2 DEF TypeOK, Committed
  <2> QED BY <1>2, <2>1, <2>4, <2>5, <2>6, CommitStep
<1>3. ASSUME AcceptWebhook(h) PROVE Quiet
  <2>1. PICK m \in ClientMax : tasks' = [tasks EXCEPT ![job[h]] = NewRow(m)]
    BY <1>3 DEF AcceptWebhook
  <2>2. /\ pc[h] = "insert" /\ pending' = None /\ Enqueue(job[h])
        /\ Goto(h, "idle") /\ job' = [job EXCEPT ![h] = None]
        /\ UNCHANGED <<executions, up, seen, reruns>>
    BY <1>3 DEF AcceptWebhook, histVars
  <2>3. /\ StepMove /\ up /\ loop = h /\ job[h] \in Task
        /\ Committed'[job[h]].status = "queued"
    BY <1>2, <2>1, <2>2
  <2>4. \A q \in Proc : /\ pc'[q] = IF q = h THEN "idle" ELSE pc[q]
                        /\ job'[q] = IF q = h THEN None ELSE job[q]
    BY <2>2 DEF TypeOK, Goto
  <2>5. Held' = Held BY <2>4, ProcAssumption DEF Held, Proc
  <2>6. Queued' \subseteq Queued \cup {job[h]}
    BY <2>2, <2>3, <2>5, EnqueueExact DEF QueueInv
  <2>7. \A u \in Task : Due(u)' =>
           Due(u) \/ Committed'[u].status \in {"received", "queued"}
    BY <2>3, <2>4, <2>6 DEF Due
  <2>8. RunInv' /\ Named BY <2>2, <2>3, <2>4, <2>7, CoroutineRunStep
  <2> QED BY <2>2, <2>3, <2>8 DEF Quiet
<1>4. ASSUME AcceptSyncWebhook(h) PROVE Quiet
  <2>1. PICK m \in ClientMax : tasks' = [tasks EXCEPT ![job[h]] = NewRow(m)]
    BY <1>4 DEF AcceptSyncWebhook
  <2>2. /\ pc[h] = "insert" /\ pending' = None /\ Goto(h, "load")
        /\ UNCHANGED <<executions, up, queue, job, seen, reruns>>
    BY <1>4 DEF AcceptSyncWebhook, histVars, memVars
  <2>3. /\ StepMove /\ up /\ loop = h /\ job[h] \in Task
        /\ Committed'[job[h]].status = "queued"
    BY <1>2, <2>1, <2>2
  <2>4. \A q \in Proc : pc'[q] = IF q = h THEN "load" ELSE pc[q]
    BY <2>2 DEF TypeOK, Goto
  <2>5. \A u \in Task : Due(u)' =>
           Due(u) \/ Committed'[u].status \in {"received", "queued"}
    BY <2>2, <2>3, <2>4 DEF Due, Queued
  <2>6. RunInv' /\ Named BY <2>2, <2>3, <2>5, CoroutineRunStep
  <2> QED BY <2>2, <2>3, <2>6 DEF Quiet
<1> QED BY <1>1, <1>3, <1>4 DEF Ingress

LEMMA TakeQuiet ==
    ASSUME TypeOK, TypeOK', RunInv, NEW w \in Worker, TakeTask(w)
    PROVE  Quiet
<1> w \in Proc BY DEF Proc
<1>1. /\ up /\ loop = None /\ Goto(w, "load") /\ queue # <<>>
      /\ job' = [job EXCEPT ![w] = Head(queue)] /\ queue' = Tail(queue)
      /\ UNCHANGED <<tasks, executions, pending, up, seen, reruns>>
  BY DEF TakeTask, LoopFree, dbVars, histVars
<1>2. StepMove BY <1>1, IdleStep
<1>3. queue \in Seq(Task) BY DEF TypeOK
<1>4. Elements(queue) = Elements(Tail(queue)) \cup {Head(queue)}
  BY <1>1, <1>3, TailElements
<1>5. Queued' = Elements(Tail(queue)) /\ Queued = Elements(queue)
  BY <1>1 DEF Queued, Elements
<1>6. \A q \in Proc : /\ pc'[q] = IF q = w THEN "load" ELSE pc[q]
                      /\ job'[q] = IF q = w THEN Head(queue) ELSE job[q]
  BY <1>1 DEF TypeOK, Goto
<1>7. \A u \in Task : Due(u)' => Due(u) BY <1>4, <1>5, <1>6 DEF Due
<1>9. pc[w] # "record" BY DEF TakeTask
<1>8. RunInv' /\ Named BY <1>1, <1>2, <1>6, <1>7, <1>9, CoroutineRunStep
<1> QED BY <1>1, <1>2, <1>8 DEF Quiet

(* The end of a coroutine's turn with its task. *)
LEMMA ReleaseQuiet ==
    ASSUME TypeOK, TypeOK', RunInv, NEW p \in Proc, loop \in {p, None}, up,
           pc[p] # "record", Release(p), UNCHANGED <<tasks, executions, queue, up, reruns>>,
           pending' \in {None, pending}
    PROVE  Quiet
<1>1. StepMove BY IdleStep
<1>2. /\ Goto(p, "idle") /\ job' = [job EXCEPT ![p] = None]
      /\ seen' = [seen EXCEPT ![p] = NotSeen]
  BY DEF Release
<1>3. \A q \in Proc : /\ pc'[q] = IF q = p THEN "idle" ELSE pc[q]
                      /\ job'[q] = IF q = p THEN None ELSE job[q]
                      /\ seen'[q] = IF q = p THEN NotSeen ELSE seen[q]
  BY <1>2 DEF TypeOK, Goto
<1>4. \A t \in Task : Due(t)' => Due(t) BY <1>3 DEF Due, Queued
<1>5. RunInv' /\ Named BY <1>1, <1>2, <1>3, <1>4, CoroutineRunStep
<1> QED BY <1>1, <1>5 DEF Quiet

LEMMA FinishQuiet ==
    ASSUME TypeOK, TypeOK', RunInv, NEW p \in Proc, FinishTask(p)
    PROVE  Quiet
<1>1. /\ up /\ loop = None /\ pc[p] = "run" /\ Goto(p, "mark") /\ pending' = None
      /\ UNCHANGED <<executions, queue, up, job, seen, reruns>>
  BY DEF FinishTask, LoopFree, memVars, histVars
<1>2. PICK o \in Outcomes :
        tasks' = [tasks EXCEPT ![job[p]] = Settled(@, o[1], o[2])]
  BY DEF FinishTask
<1>3. ASSUME NEW t \in Task
      PROVE  /\ reruns'[t] = reruns[t] + 0
             /\ Change(tasks[t], tasks'[t], 0) /\ Within(tasks'[t], reruns'[t])
  <2>1. /\ tasks[t] \in Row /\ reruns[t] \in Nat /\ reruns'[t] = reruns[t]
        /\ Within(tasks[t], reruns[t])
        /\ tasks'[t] = IF t = job[p] THEN Settled(tasks[t], o[1], o[2]) ELSE tasks[t]
    BY <1>1, <1>2, TableTypes, RowsWithin DEF RunInv, TypeOK
  <2>2. o[1] \in Terminal BY DEF Outcomes, Terminal
  <2>3. /\ \/ Settled(tasks[t], o[1], o[2]) = tasks[t]
           \/ /\ tasks[t].status = "running"
              /\ Settled(tasks[t], o[1], o[2]).status = o[1]
        /\ Settled(tasks[t], o[1], o[2]).retry = tasks[t].retry
        /\ Settled(tasks[t], o[1], o[2]).max = tasks[t].max
    BY <2>1 DEF Settled, Row
  <2>4. Change(tasks[t], tasks'[t], 0)
    BY <2>1, <2>2, <2>3, SameRow DEF Change
  <2>5. Within(tasks'[t], reruns'[t]) BY <2>1, <2>3 DEF Within, RetryLimit
  <2> QED BY <2>1, <2>4, <2>5
<1>4. Changes BY <1>3 DEF Changes
<1>5. StepMove BY <1>1, <1>4, CommitStep
<1>6. \A q \in Proc : pc'[q] = IF q = p THEN "mark" ELSE pc[q]
  BY <1>1 DEF TypeOK, Goto
<1>7. \A t \in Task : Due(t)' => Due(t) BY <1>1, <1>6 DEF Due, Queued
<1>8. RunInv' /\ Named BY <1>1, <1>5, <1>7, CoroutineRunStep
<1> QED BY <1>1, <1>5, <1>8 DEF Quiet

LEMMA ExecuteQuiet ==
    ASSUME TypeOK, TypeOK', QueueInv, RunInv, NEW p \in Proc, Execute(p),
           ~(StartTask(p) /\ tasks[job[p]].status = seen[p].status), pc[p] # "record"
    PROVE  Quiet
<1> p # None BY NoneAssumption DEF Proc
<1>1. ASSUME pc[p] \in {"load", "cas", "mark"} PROVE up /\ loop = p
  BY <1>1 DEF QueueInv, TypeOK
<1>2. ASSUME LoadTask(p) PROVE Quiet
  <2>1. /\ up /\ loop = p /\ pc[p] = "load"
        /\ UNCHANGED <<tasks, executions, pending, up, queue, reruns>>
    BY <1>1, <1>2 DEF LoadTask, dbVars, histVars
  <2>2. CASE Release(p) BY <2>1, <2>2, ReleaseQuiet
  <2>3. CASE ~Release(p)
    <3>1. /\ Goto(p, "cas") /\ UNCHANGED job
          /\ seen' = [seen EXCEPT ![p] = [status |-> tasks[job[p]].status,
                                         attempt |-> tasks[job[p]].retry + 1]]
      BY <1>2, <2>3 DEF LoadTask
    <3>2. /\ seen'[p].attempt = tasks[job[p]].retry + 1
          /\ \A q \in Proc : q # p => seen'[q] = seen[q]
      BY <3>1 DEF TypeOK
    <3>3. /\ job[p] \in Task /\ tasks[job[p]].status = "queued"
          /\ LastRun(job[p]) <= tasks[job[p]].retry
      BY <2>1, JobType DEF QueueInv, JobsQueued, RunInv, RowsFit, RowFits
    <3>4. LastRun(job[p]) \in Nat /\ tasks[job[p]].retry \in Nat
      BY <3>3, LastRunType, TableTypes DEF Row
    <3>5. /\ LastRun(job'[p]) < seen'[p].attempt
          /\ seen'[p].attempt <= tasks[job'[p]].retry + 1
      BY <3>1, <3>2, <3>3, <3>4
    <3>6. StepMove BY <2>1, IdleStep
    <3>7. \A q \in Proc : pc'[q] = IF q = p THEN "cas" ELSE pc[q]
      BY <3>1 DEF TypeOK, Goto
    <3>8. \A t \in Task : Due(t)' => Due(t) BY <2>1, <3>1, <3>7 DEF Due, Queued
    <3>9. RunInv' /\ Named BY <2>1, <3>1, <3>2, <3>5, <3>6, <3>8, CoroutineRunStep
    <3> QED BY <2>1, <3>6, <3>9 DEF Quiet
  <2> QED BY <2>2, <2>3
<1>3. ASSUME StartTask(p) PROVE Quiet
  <2>1. /\ up /\ loop = p /\ pending' = None /\ Release(p)
        /\ UNCHANGED <<tasks, executions, queue, up, reruns>>
    BY <1>1, <1>3 DEF StartTask, histVars
  <2> QED BY <2>1, ReleaseQuiet
<1>4. ASSUME StartError(p) PROVE Quiet
  <2>1. /\ up /\ loop = p /\ pending' = pending /\ Release(p)
        /\ UNCHANGED <<tasks, executions, queue, up, reruns>>
    BY <1>1, <1>4 DEF StartError, dbVars
  <2> QED BY <2>1, ReleaseQuiet
<1>5. ASSUME FinishTask(p) PROVE Quiet BY <1>5, FinishQuiet
<1>6. ASSUME FinishError(p) PROVE Quiet
  <2>1. /\ up /\ loop = None /\ pending' = None /\ Release(p)
        /\ UNCHANGED <<tasks, executions, queue, up, reruns>>
    BY <1>6 DEF FinishError, LoopFree
  <2> QED BY <2>1, ReleaseQuiet
<1>7. ASSUME MarkEvent(p) PROVE Quiet
  <2>1. /\ up /\ loop = p /\ pending' = pending /\ Release(p)
        /\ UNCHANGED <<tasks, executions, queue, up, reruns>>
    BY <1>1, <1>7 DEF MarkEvent, histVars
  <2> QED BY <2>1, ReleaseQuiet
<1>8. ~RecordExecution(p) /\ ~RecordError(p) BY DEF RecordExecution, RecordError
<1> QED BY <1>2, <1>3, <1>4, <1>5, <1>6, <1>7, <1>8 DEF Execute

----------------------------------------------------------------------------
(* Boot *)

LEMMA BootQuiet ==
    ASSUME TypeOK, TypeOK', QueueInv, RunInv, Boot \/ BootWithoutSweep
    PROVE  Quiet
<1>1. /\ up' /\ pending = None /\ UNCHANGED <<executions, procVars, reruns>>
      /\ EnqueueAll(QueuedIn(tasks'))
  BY DEF Boot, BootWithoutSweep, RunInv, histVars
<1>2. Committed = tasks BY <1>1 DEF Committed
<1>3. \A t \in Task : reruns'[t] = reruns[t] + 0 /\ reruns'[t] = reruns[t]
  BY <1>1, TableTypes
<1>4. Queued' \subseteq Queued \cup QueuedIn(tasks')
  <2>1. QueuedIn(tasks') \in SUBSET Task BY DEF QueuedIn
  <2>2. Held' = Held BY <1>1 DEF Held, procVars
  <2> QED BY <1>1, <2>1, <2>2, EnqueueAllExact DEF QueueInv
<1>5. /\ StepMove
      /\ \A t \in Task : tasks'[t].status = "queued"
                            => Committed'[t].status \in {"received", "queued"}
  <2>1. ASSUME NEW es, NEW new \in Rehydrations(es), pending' = None,
               \/ tasks' = SweptTable(Recovered, new, TRUE)
               \/ tasks' = HalfSweptTable(Recovered, new, TRUE)
        PROVE  <1>5!:
    <3>1. Committed' = tasks' BY <2>1 DEF Committed
    <3>2. ASSUME NEW t \in Task
          PROVE  /\ Moved(tasks[t], tasks'[t], 0) /\ Within(tasks'[t], reruns[t])
                 /\ Drift(tasks'[t], tasks'[t])
      BY <2>1, BootTableMove, SameRow DEF Drift
    <3> QED BY <1>2, <1>3, <3>1, <3>2 DEF StepMove
  <2>2. ASSUME NEW new \in Rehydrations({}), pending' = Recovered,
               tasks' = HalfSweptTable(Recovered, new, TRUE)
        PROVE  <1>5!:
    <3>1. Recovered \in [Task -> Row] BY TableTypes, RecoverOrphanedType DEF Recovered
    <3>2. Committed' = Recovered BY <2>2, <3>1, NoTableAssumption DEF Committed
    <3>3. DOMAIN new = {} BY NothingToRehydrate
    <3>4. ASSUME NEW t \in Task
          PROVE  /\ Moved(tasks[t], tasks'[t], 0) /\ Within(tasks'[t], reruns[t])
                 /\ Moved(tasks[t], Recovered[t], 0) /\ Within(Recovered[t], reruns[t])
                 /\ Drift(Recovered[t], tasks'[t])
      BY <2>2, <3>3, BootTableMove
    <3>5. ASSUME NEW t \in Task, tasks'[t].status = "queued"
          PROVE  Recovered[t].status \in {"received", "queued"}
      <4>1. Recovered[t].status # "running"
        BY TableTypes, RecoverChange DEF Recovered
      <4>2. Drift(Recovered[t], tasks'[t]) BY <3>4
      <4> QED BY <3>5, <4>1, <4>2 DEF Drift, Same
    <3> QED BY <1>2, <1>3, <3>2, <3>4, <3>5 DEF StepMove
  <2>3. CASE Boot
    <3>1. PICK new \in Rehydrations(Orphans) :
            tasks' = SweptTable(Recovered, new, TRUE)
      BY <2>3 DEF Boot
    <3>2. pending' = None BY <1>1, <2>3 DEF Boot
    <3> QED BY <2>1, <3>1, <3>2
  <2>4. CASE BootWithoutSweep
    <3>1. PICK before \in SUBSET (Orphans \ Malformed) :
            /\ \E new \in Rehydrations(before) :
                  tasks' = HalfSweptTable(Recovered, new, TRUE)
            /\ pending' = IF before = {} THEN Recovered ELSE None
      BY <2>4 DEF BootWithoutSweep
    <3>2. PICK new \in Rehydrations(before) :
            tasks' = HalfSweptTable(Recovered, new, TRUE)
      BY <3>1
    <3> QED BY <2>1, <2>2, <3>1, <3>2
  <2> QED BY <2>3, <2>4
<1>6. \A h \in Handler : pc[h] # "insert"
  <2>1. loop = None BY DEF QueueInv, Boot, BootWithoutSweep
  <2>2. \A q \in Proc : pc[q] \in {"idle", "run"}
    BY <2>1, NoneAssumption DEF TypeOK, Proc
  <2> QED BY <2>2 DEF Proc
<1>7. \A t \in Queued' :
         t \in Queued \/ Committed'[t].status \in {"received", "queued"}
  BY <1>4, <1>5 DEF QueuedIn
<1>8. RunInv' /\ Named
  <2>1. loop = None BY DEF QueueInv, Boot, BootWithoutSweep
  <2> QED BY <1>1, <1>5, <1>6, <1>7, <2>1, TableRunStep
<1> QED BY <1>1, <1>5, <1>8 DEF Quiet

----------------------------------------------------------------------------
(* The two commits of a start, and a crash *)

\* What StartTask does to the tables: j starts, and whatever the connection had
\* open for the other tasks is committed.
Starting(j) ==
    /\ tasks' = [tasks EXCEPT ![j] = Started(@)]
    /\ pending' = None /\ UNCHANGED <<executions, reruns>>
    /\ tasks[j].status = "queued" /\ Same(Committed[j], tasks[j])
    /\ Committed[j].status \in {"received", "queued"}

\* It is the one run that has no number yet.
Begins(j) == \A t \in Task : ~Unnumbered(t) /\ (Unnumbered(t)' <=> t = j)

\* What RecordExecution does: run n of j is recorded.
Recording(j, n) ==
    /\ executions' = [executions EXCEPT ![j] = Append(@, n)]
    /\ tasks' = tasks /\ reruns' = reruns /\ pending' = None /\ Committed' = Committed
    /\ LastRun(j) < n /\ RowFits(tasks[j], n, reruns[j])
    /\ Unnumbered(j) /\ \A t \in Task : ~Unnumbered(t)' /\ (Unnumbered(t) => t = j)

\* A run may be left without its number.
Lost == \A t \in Task : Unnumbered(t)' => Unnumbered(t)

(* The tables after the start. *)
LEMMA StartedTables ==
    ASSUME TypeOK, TypeOK', NEW j \in Task, Starting(j)
    PROVE  /\ Committed' = tasks'
           /\ tasks'[j].status = "running" /\ tasks'[j].retry = tasks[j].retry
           /\ tasks'[j].max = tasks[j].max
           /\ \A t \in Task : t # j => tasks'[t] = tasks[t]
           /\ \A t \in Task : LastRun(t)' = LastRun(t)
<1>1. Committed' = tasks' BY DEF Starting, Committed
<1>2. \A t \in Task : LastRun(t)' = LastRun(t) BY DEF Starting, LastRun
<1>4. tasks'[j] = Started(tasks[j]) /\ tasks[j] \in Row BY DEF Starting, TypeOK
<1>5. /\ tasks'[j].status = "running" /\ tasks'[j].retry = tasks[j].retry
      /\ tasks'[j].max = tasks[j].max
  BY <1>4 DEF Started, Row
<1>6. \A t \in Task : t # j => tasks'[t] = tasks[t] BY DEF Starting, TypeOK
<1> QED BY <1>1, <1>2, <1>5, <1>6

LEMMA StartRun ==
    ASSUME TypeOK, TypeOK', QueueInv, RunInv, NEW p \in Proc, StartTask(p),
           tasks[job[p]].status = seen[p].status, NEW j \in Task, j = job[p]
    PROVE  RunInv' /\ Starting(j) /\ Begins(j)
<1>1. /\ pc[p] = "cas" /\ Goto(p, "record")
      /\ UNCHANGED <<job, seen, queue, up, executions, reruns>> /\ pending' = None
  BY DEF StartTask, histVars
<1>2. up /\ loop = p
  <2>1. p # None BY NoneAssumption DEF Proc
  <2>2. loop = p BY <1>1 DEF TypeOK
  <2> QED BY <2>1, <2>2 DEF QueueInv
<1>3. PICK n \in Nat : n = seen[p].attempt BY DEF TypeOK
<1>4. Starting(j) /\ LastRun(j) < n /\ n <= tasks[j].retry + 1
  <2>1. tasks[j].status = "queued"
    BY <1>1 DEF QueueInv, StartsFromQueued
  <2>2. LastRun(j) < n /\ n <= tasks[j].retry + 1
    BY <1>1, <1>3 DEF RunInv, AttemptsNew
  <2>3. Committed[j].status \in {"received", "queued"}
    BY <1>1 DEF RunInv, DueCommitted, Due
  <2>4. Same(Committed[j], tasks[j])
    BY <2>3 DEF RunInv, OpenDrift, Drift
  <2>5. tasks' = [tasks EXCEPT ![j] = Started(@)] BY DEF StartTask
  <2> QED BY <1>1, <2>1, <2>2, <2>3, <2>4, <2>5 DEF Starting
<1>5. j \notin Queued BY <1>1, JobNotQueued
<1>6. /\ Committed' = tasks'
      /\ tasks'[j].status = "running" /\ tasks'[j].retry = tasks[j].retry
      /\ tasks'[j].max = tasks[j].max
      /\ \A t \in Task : t # j => tasks'[t] = tasks[t]
      /\ \A t \in Task : LastRun(t)' = LastRun(t)
  BY <1>4, StartedTables
<1>7. \A q \in Proc : pc'[q] = IF q = p THEN "record" ELSE pc[q]
  BY <1>1 DEF TypeOK, Goto
<1>8. \A q \in Proc : q # p => pc[q] \in {"idle", "run"} BY <1>2, OthersWait
<1>9. RowsFit' /\ RowFits(tasks'[j], n, reruns'[j])
  <2>1. ASSUME NEW t \in Task
        PROVE  /\ RowFits(tasks'[t], LastRun(t), reruns[t])
               /\ t = j => RowFits(tasks'[t], n, reruns[t])
    <3>1. RowFits(tasks[t], LastRun(t), reruns[t]) BY DEF RunInv, RowsFit
    <3>2. CASE t # j BY <1>6, <3>1, <3>2
    <3>3. CASE t = j
      <4>1. LastRun(t) \in Nat /\ tasks[t].retry \in Nat
        BY LastRunType, TableTypes DEF Row
      <4> QED BY <1>4, <1>6, <3>1, <3>3, <4>1 DEF RowFits, RetryLimit
    <3> QED BY <3>2, <3>3
  <2> QED BY <1>1, <1>6, <2>1 DEF RowsFit
<1>10. RunsNumbered' /\ AttemptsIncrease'
  BY <1>1, <1>6 DEF RunInv, RunsNumbered, AttemptsIncrease
<1>11. AttemptsNew'
  <2> SUFFICES ASSUME NEW q \in Proc, pc'[q] \in {"cas", "record"}
               PROVE  /\ LastRun(job[q]) < seen[q].attempt
                      /\ seen[q].attempt <= tasks'[job[q]].retry + 1
    BY <1>1 DEF AttemptsNew, LastRun
  <2>1. q = p BY <1>7, <1>8
  <2> QED BY <1>3, <1>4, <1>6, <2>1
<1>12. RecordsFit' BY <1>1, <1>3, <1>7, <1>8, <1>9 DEF RecordsFit
<1>13. RunLatest'
  <2> SUFFICES ASSUME NEW w \in Worker, pc'[w] = "run"
               PROVE  LastRun(job[w]) <= seen[w].attempt
    BY <1>1 DEF RunLatest, LastRun
  <2>1. pc[w] = "run" BY <1>7 DEF Proc
  <2> QED BY <2>1 DEF RunInv, RunLatest
<1>14. DrawnAbsent' BY <1>7, <1>8 DEF DrawnAbsent, Proc
<1>15. OpenDrift' BY <1>6, SameRow DEF OpenDrift, Drift
<1>16. DueCommitted'
  <2> SUFFICES ASSUME NEW t \in Task, Due(t)'
               PROVE  Committed'[t].status \in {"received", "queued"}
    BY DEF DueCommitted
  <2>1. t \in Queued BY <1>1, <1>7, <1>8 DEF Due, Queued
  <2>2. tasks[t].status = "queued" /\ t # j BY <1>5, <2>1, QueuedRows
  <2> QED BY <1>6, <2>2
<1>17. Begins(j)
  <2>1. \A q \in Proc : pc[q] # "record" BY <1>1, <1>8
  <2>2. \A q \in Proc : pc'[q] = "record" <=> q = p BY <1>7, <1>8
  <2> QED BY <1>1, <2>1, <2>2 DEF Begins, Unnumbered
<1> QED BY <1>1, <1>2, <1>4, <1>9, <1>10, <1>11, <1>12, <1>13, <1>14, <1>15, <1>16, <1>17
        DEF RunInv

LEMMA LastAppended ==
    ASSUME NEW s \in Seq(Nat), NEW n \in Nat
    PROVE  /\ Append(s, n) # <<>> /\ Last(Append(s, n)) = n
           /\ Len(Append(s, n)) = Len(s) + 1
BY DEF Last

(* The runs after the record. *)
LEMMA RecordedRuns ==
    ASSUME TypeOK, NEW j \in Task, NEW n \in Nat, Recording(j, n)
    PROVE  /\ LastRun(j)' = n
           /\ \A t \in Task : t # j => /\ executions'[t] = executions[t]
                                       /\ LastRun(t)' = LastRun(t)
<1>1. executions'[j] = Append(executions[j], n) /\ executions[j] \in Seq(Nat)
  BY DEF Recording, TypeOK
<1>2. LastRun(j)' = n BY <1>1, LastAppended DEF LastRun
<1>3. \A t \in Task : t # j => /\ executions'[t] = executions[t]
                              /\ LastRun(t)' = LastRun(t)
  BY DEF Recording, TypeOK, LastRun
<1> QED BY <1>2, <1>3

LEMMA RecordNumbers ==
    ASSUME TypeOK, RunInv, NEW j \in Task, NEW n \in Nat, Recording(j, n)
    PROVE  RunsNumbered' /\ AttemptsIncrease'
<1> SUFFICES ASSUME NEW t \in Task
             PROVE  /\ Len(executions'[t]) <= LastRun(t)'
                    /\ \A i \in 1..Len(executions'[t]) : executions'[t][i] <= LastRun(t)'
                    /\ \A i \in 1..(Len(executions'[t]) - 1) :
                          executions'[t][i] < executions'[t][i + 1]
  BY DEF RunsNumbered, AttemptsIncrease
<1>1. /\ Len(executions[t]) <= LastRun(t)
      /\ \A i \in 1..Len(executions[t]) : executions[t][i] <= LastRun(t)
      /\ \A i \in 1..(Len(executions[t]) - 1) : executions[t][i] < executions[t][i + 1]
  BY DEF RunInv, RunsNumbered, AttemptsIncrease
<1>2. CASE t # j BY <1>1, <1>2, RecordedRuns
<1>3. CASE t = j
  <2>1. PICK s \in Seq(Nat) : s = executions[t] BY DEF TypeOK
  <2>2. executions'[t] = Append(s, n) BY <1>3, <2>1 DEF Recording, TypeOK
  <2>3. Len(Append(s, n)) = Len(s) + 1 BY <2>1, LastAppended
  <2>4. PICK m \in Nat : m = LastRun(t) BY LastRunType
  <2>5. LastRun(t)' = n /\ m < n BY <1>3, <2>4, RecordedRuns DEF Recording
  <2>6. /\ Len(s) <= m /\ \A i \in 1..Len(s) : s[i] <= m
        /\ \A i \in 1..(Len(s) - 1) : s[i] < s[i + 1]
    BY <1>1, <2>1, <2>4
  <2>7. \A i \in 1..Len(s) : s[i] \in Nat /\ Append(s, n)[i] = s[i] BY <2>1
  <2>8. Append(s, n)[Len(s) + 1] = n BY <2>1
  <2>9. \A i \in 1..(Len(s) + 1) : Append(s, n)[i] <= n
    BY <2>1, <2>4, <2>5, <2>6, <2>7, <2>8
  <2>10. ASSUME NEW i \in 1..Len(s) PROVE Append(s, n)[i] < Append(s, n)[i + 1]
    <3>1. CASE i < Len(s) BY <2>1, <2>6, <2>7, <3>1
    <3>2. CASE i = Len(s) BY <2>1, <2>4, <2>5, <2>6, <2>7, <2>8, <3>2
    <3> QED BY <2>1, <3>1, <3>2
  <2> QED BY <2>1, <2>2, <2>3, <2>4, <2>5, <2>6, <2>9, <2>10
<1> QED BY <1>2, <1>3

LEMMA RecordRun ==
    ASSUME TypeOK, TypeOK', QueueInv, RunInv, NEW p \in Proc, RecordExecution(p),
           NEW j \in Task, NEW n \in Nat, j = job[p], n = seen[p].attempt
    PROVE  RunInv' /\ Recording(j, n)
<1>1. /\ pc[p] = "record" /\ Goto(p, "run") /\ pending' = None
      /\ executions' = [executions EXCEPT ![j] = Append(@, n)]
      /\ UNCHANGED <<tasks, job, seen, queue, up, reruns>>
  BY DEF RecordExecution, memVars, histVars
<1>2. up /\ loop = p
  <2>1. p # None BY NoneAssumption DEF Proc
  <2>2. loop = p BY <1>1 DEF TypeOK
  <2> QED BY <2>1, <2>2 DEF QueueInv
<1>3. \A q \in Proc : pc'[q] = IF q = p THEN "run" ELSE pc[q]
  BY <1>1 DEF TypeOK, Goto
<1>4. \A q \in Proc : q # p => pc[q] \in {"idle", "run"} BY <1>2, OthersWait
<1>5. \A q \in Proc : pc'[q] \in {"idle", "run"} BY <1>3, <1>4
<1>6. Recording(j, n)
  <2>1. pending = None /\ RowFits(tasks[j], n, reruns[j]) /\ LastRun(j) < n
    BY <1>1 DEF RunInv, RecordsFit, AttemptsNew
  <2>2. Committed' = Committed BY <1>1, <2>1 DEF Committed
  <2>3. Unnumbered(j) /\ \A t \in Task : ~Unnumbered(t)' /\ (Unnumbered(t) => t = j)
    BY <1>1, <1>4, <1>5 DEF Unnumbered
  <2> QED BY <1>1, <2>1, <2>2, <2>3 DEF Recording
<1>7. /\ LastRun(j)' = n
      /\ \A t \in Task : t # j => LastRun(t)' = LastRun(t)
  BY <1>6, RecordedRuns
<1>8. Committed' = tasks' /\ Committed' = Committed BY <1>1, <1>6 DEF Committed, Recording
<1>9. RowsFit'
  <2> SUFFICES ASSUME NEW t \in Task PROVE RowFits(tasks[t], LastRun(t)', reruns[t])
    BY <1>1, <1>8 DEF RowsFit
  <2>1. CASE t # j BY <1>7, <2>1 DEF RunInv, RowsFit
  <2>2. CASE t = j BY <1>6, <1>7, <2>2 DEF Recording
  <2> QED BY <2>1, <2>2
<1>10. RunsNumbered' /\ AttemptsIncrease' BY <1>6, RecordNumbers
<1>11. AttemptsNew' /\ RecordsFit' /\ DrawnAbsent'
  BY <1>5 DEF AttemptsNew, RecordsFit, DrawnAbsent, Proc
<1>12. RunLatest'
  <2>1. ASSUME NEW w \in Worker, NEW t \in Task, t = job[w], pc'[w] = "run"
        PROVE  LastRun(t)' <= seen[w].attempt
    <3>1. w \in Proc BY DEF Proc
    <3>2. CASE w = p
      <4>1. LastRun(t)' = n /\ n = seen[w].attempt BY <1>7, <2>1, <3>2
      <4> QED BY <4>1
    <3>3. CASE w # p
      <4>1. pc[w] = "run" BY <1>3, <2>1, <3>1, <3>3
      <4>2. t # j
        <5>1. CASE p \in Worker
          BY <1>1, <2>1, <3>3, <4>1, <5>1, NoneAssumption DEF QueueInv, WorkersExclusive
        <5>2. CASE p \in Handler
          <6>1. j \notin enqueued BY <1>1, <5>2 DEF QueueInv, HandlersApart
          <6>2. Held \subseteq enqueued BY DEF QueueInv, QueueIntegrity
          <6> QED BY <2>1, <4>1, <6>1, <6>2 DEF Held
        <5> QED BY <5>1, <5>2 DEF Proc
      <4>3. LastRun(t)' = LastRun(t) BY <1>7, <4>2
      <4>4. LastRun(t) <= seen[w].attempt BY <2>1, <4>1 DEF RunInv, RunLatest
      <4> QED BY <4>3, <4>4
    <3> QED BY <3>2, <3>3
  <2>2. \A w \in Worker : pc'[w] = "run" => job[w] \in Task
    BY <1>1, <1>3, JobType DEF Proc
  <2> QED BY <1>1, <2>1, <2>2 DEF RunLatest, LastRun
<1>13. OpenDrift' BY <1>8, SameRow DEF OpenDrift, Drift
<1>14. DueCommitted'
  <2> SUFFICES ASSUME NEW t \in Task, Due(t)'
               PROVE  Committed[t].status \in {"received", "queued"}
    BY <1>8 DEF DueCommitted
  <2>1. t \in Queued BY <1>1, <1>5 DEF Due, Queued
  <2> QED BY <2>1 DEF RunInv, DueCommitted, Due
<1> QED BY <1>1, <1>2, <1>6, <1>9, <1>10, <1>11, <1>12, <1>13, <1>14 DEF RunInv

(* The record fails: the run goes on without it. *)
LEMMA RecordErrorRun ==
    ASSUME TypeOK, TypeOK', QueueInv, RunInv, NEW p \in Proc, RecordError(p)
    PROVE  RunInv' /\ Committed' = Committed /\ UNCHANGED <<executions, reruns>> /\ Lost
<1>1. /\ pc[p] = "record" /\ Goto(p, "run")
      /\ UNCHANGED <<tasks, executions, pending, up, queue, job, seen, reruns>>
  BY DEF RecordError, dbVars, memVars
<1>2. up /\ loop = p
  <2>1. p # None BY NoneAssumption DEF Proc
  <2>2. loop = p BY <1>1 DEF TypeOK
  <2> QED BY <2>1, <2>2 DEF QueueInv
<1>3. StepMove BY <1>1, IdleStep
<1>4. \A q \in Proc : pc'[q] = IF q = p THEN "run" ELSE pc[q]
  BY <1>1 DEF TypeOK, Goto
<1>5. LastRun(job'[p]) <= seen'[p].attempt
  <2>1. job[p] \in Task /\ seen[p].attempt \in Nat BY <1>1, JobType DEF TypeOK
  <2>2. LastRun(job[p]) \in Nat BY <2>1, LastRunType
  <2>3. LastRun(job[p]) < seen[p].attempt BY <1>1 DEF RunInv, AttemptsNew
  <2> QED BY <1>1, <2>1, <2>2, <2>3
<1>6. \A t \in Task : Due(t)' => Due(t) BY <1>1, <1>4 DEF Due, Queued
<1>7. RunInv' BY <1>1, <1>2, <1>3, <1>5, <1>6, CoroutineRunStep
<1>8. Lost BY <1>1, <1>4 DEF Lost, Unnumbered
<1> QED BY <1>1, <1>7, <1>8 DEF Committed

LEMMA CrashRun ==
    ASSUME TypeOK, TypeOK', RunInv, Crash
    PROVE  RunInv' /\ Committed' = Committed /\ UNCHANGED <<executions, reruns>> /\ Lost
<1>1. /\ tasks' = Committed /\ pending' = None /\ queue' = <<>>
      /\ pc' = [p \in Proc |-> "idle"] /\ UNCHANGED <<executions, reruns>>
  BY DEF Crash
<1>2. Committed' = Committed /\ tasks' = Committed
  <2>1. Committed' = tasks' BY <1>1 DEF Committed
  <2> QED BY <1>1, <2>1
<1>3. \A p \in Proc : pc'[p] = "idle" BY <1>1
<1>4. RowsFit' BY <1>1, <1>2 DEF RunInv, RowsFit, LastRun
<1>5. RunsNumbered' /\ AttemptsIncrease'
  BY <1>1 DEF RunInv, RunsNumbered, AttemptsIncrease, LastRun
<1>6. AttemptsNew' /\ RecordsFit' /\ RunLatest' /\ DrawnAbsent' /\ Lost
  BY <1>3 DEF AttemptsNew, RecordsFit, RunLatest, DrawnAbsent, Lost, Unnumbered, Proc
<1>7. OpenDrift' BY <1>2, SameRow DEF OpenDrift, Drift
<1>8. DueCommitted' BY <1>1, <1>3 DEF DueCommitted, Due, Queued
<1> QED BY <1>1, <1>2, <1>4, <1>5, <1>6, <1>7, <1>8 DEF RunInv

----------------------------------------------------------------------------
(* Every step *)

\* A step is quiet, the start of a run, its record, or moves no row and at most
\* leaves a run without its number.
StepKind == \/ StepMove /\ UNCHANGED executions /\ Named
            \/ \E j \in Task : Starting(j) /\ Begins(j)
            \/ \E j \in Task : \E n \in Nat : Recording(j, n)
            \/ Committed' = Committed /\ UNCHANGED <<executions, reruns>> /\ Lost

LEMMA RunNext ==
    ASSUME TypeOK, QueueInv, RunInv, [Next]_vars
    PROVE  RunInv' /\ StepKind
<1>1. TypeOK' BY TypeNext
<1>2. ASSUME Quiet PROVE RunInv' /\ StepKind BY <1>2 DEF Quiet, StepKind
<1>3. ASSUME NEW h \in Handler, Ingress(h) PROVE RunInv' /\ StepKind
  BY <1>1, <1>2, <1>3, IngressQuiet
<1>4. ASSUME NEW w \in Worker, TakeTask(w) PROVE RunInv' /\ StepKind
  BY <1>1, <1>2, <1>4, TakeQuiet
<1>5. ASSUME NEW p \in Proc, Execute(p) PROVE RunInv' /\ StepKind
  <2>1. CASE StartTask(p) /\ tasks[job[p]].status = seen[p].status
    <3>1. PICK j \in Task : j = job[p] BY <2>1, JobType DEF StartTask
    <3>2. RunInv' /\ Starting(j) /\ Begins(j) BY <1>1, <2>1, <3>1, StartRun
    <3> QED BY <3>2 DEF StepKind
  <2>2. CASE /\ ~(StartTask(p) /\ tasks[job[p]].status = seen[p].status)
             /\ pc[p] # "record"
    BY <1>1, <1>2, <1>5, <2>2, ExecuteQuiet
  <2>3. CASE RecordExecution(p)
    <3>1. PICK j \in Task, n \in Nat : j = job[p] /\ n = seen[p].attempt
      BY <2>3, JobType DEF RecordExecution, TypeOK
    <3>2. RunInv' /\ Recording(j, n) BY <1>1, <2>3, <3>1, RecordRun
    <3> QED BY <3>2 DEF StepKind
  <2>4. CASE RecordError(p) BY <1>1, <2>4, RecordErrorRun DEF StepKind
  <2>5. ASSUME pc[p] = "record" PROVE RecordExecution(p) \/ RecordError(p)
    BY <1>5, <2>5 DEF Execute, LoadTask, StartTask, StartError, FinishTask,
                      FinishError, MarkEvent
  <2> QED BY <2>1, <2>2, <2>3, <2>4, <2>5 DEF StartTask
<1>6. ASSUME WriteLog \/ CreateTask \/ UNCHANGED vars PROVE RunInv' /\ StepKind
  <2>1. /\ UNCHANGED <<tasks, executions, up, queue, procVars, reruns>>
        /\ pending' \in {None, pending, Committed}
    BY <1>6 DEF WriteLog, CreateTask, vars, dbVars, memVars, histVars
  <2>2. StepMove BY <1>1, <2>1, IdleStep
  <2>3. \A h \in Handler : pc[h] = "insert" => tasks'[job[h]].status = "absent"
    BY <2>1 DEF RunInv, DrawnAbsent
  <2>4. Queued' = Queued BY <2>1 DEF Queued
  <2>5. up' \/ pending' = None
    BY <1>6, <2>1 DEF RunInv, WriteLog, CreateTask, LoopFree, vars, dbVars
  <2>7. loop = None \/ pending' \in {None, pending}
    BY <1>6 DEF WriteLog, CreateTask, LoopFree, vars, dbVars
  <2>6. RunInv' /\ Named BY <1>1, <2>1, <2>2, <2>3, <2>4, <2>5, <2>7, TableRunStep
  <2> QED BY <2>1, <2>2, <2>6 DEF StepKind
<1>7. ASSUME Operate PROVE RunInv' /\ StepKind BY <1>1, <1>2, <1>7, OperateQuiet
<1>8. ASSUME Crash PROVE RunInv' /\ StepKind
  BY <1>1, <1>8, CrashRun DEF StepKind
<1>9. ASSUME Boot \/ BootWithoutSweep PROVE RunInv' /\ StepKind
  BY <1>1, <1>2, <1>9, BootQuiet
<1> QED BY <1>3, <1>4, <1>5, <1>6, <1>7, <1>8, <1>9 DEF Next

LEMMA RunInit == Init => RunInv
<1> SUFFICES ASSUME Init PROVE RunInv OBVIOUS
<1>1. /\ tasks = [t \in Task |-> NoRow] /\ executions = [t \in Task |-> <<>>]
      /\ pending = None /\ up /\ queue = <<>> /\ reruns = [t \in Task |-> 0]
      /\ pc = [p \in Proc |-> "idle"]
  BY DEF Init
<1>2. Committed = tasks BY <1>1 DEF Committed
<1>3. \A p \in Proc : pc[p] = "idle" BY <1>1
<1>4. \A t \in Task : /\ tasks[t] = NoRow /\ executions[t] = <<>> /\ LastRun(t) = 0
                       /\ reruns[t] = 0
  BY <1>1 DEF LastRun
<1>5. RowFits(NoRow, 0, 0)
  BY MaxAutoRetriesAssumption DEF RowFits, NoRow, RetryLimit, Larger
<1>6. RowsFit BY <1>2, <1>4, <1>5 DEF RowsFit
<1>7. RunsNumbered /\ AttemptsIncrease BY <1>4 DEF RunsNumbered, AttemptsIncrease
<1>8. AttemptsNew /\ RecordsFit /\ RunLatest /\ DrawnAbsent
  BY <1>3 DEF AttemptsNew, RecordsFit, RunLatest, DrawnAbsent, Proc
<1>9. OpenDrift BY <1>2, SameRow DEF OpenDrift, Drift
<1>10. DueCommitted BY <1>1, <1>3 DEF DueCommitted, Due, Queued
<1> QED BY <1>1, <1>6, <1>7, <1>8, <1>9, <1>10 DEF RunInv

THEOREM RunInvCorrect == Spec => [](TypeOK /\ QueueInv /\ RunInv)
<1>1. Init => TypeOK /\ QueueInv /\ RunInv BY TypeInit, QueueInit, RunInit
<1>2. TypeOK /\ QueueInv /\ RunInv /\ [Next]_vars
        => TypeOK' /\ QueueInv' /\ RunInv'
  BY TypeNext, QueueNext, RunNext
<1> QED BY <1>1, <1>2, PTL DEF Spec

----------------------------------------------------------------------------
(* The theorems *)

(* A task is executed at most once per granted attempt: the first, one per
   automatic retry within the limit, one per rerun an operator asked for. *)
THEOREM RunBudgetCorrect == Spec => []RunBudget
<1>1. TypeOK /\ RunInv => RunBudget
  <2> SUFFICES ASSUME TypeOK, RunInv, NEW t \in Task
               PROVE  Len(executions[t]) <= RetryLimit(tasks[t]) + reruns[t] + 1
    BY DEF RunBudget
  <2>1. /\ Len(executions[t]) <= LastRun(t) /\ LastRun(t) <= tasks[t].retry + 1
        /\ tasks[t].retry <= RetryLimit(tasks[t]) + reruns[t]
    BY DEF RunInv, RunsNumbered, RowsFit, RowFits
  <2>2. /\ LastRun(t) \in Nat /\ tasks[t].retry \in Nat /\ reruns[t] \in Nat
        /\ RetryLimit(tasks[t]) \in Nat /\ executions[t] \in Seq(Nat)
    BY LastRunType, TableTypes, RetryLimitType DEF Row, TypeOK
  <2> QED BY <2>1, <2>2
<1> QED BY <1>1, RunInvCorrect, PTL

(* The rows of the executions table are in the order of their attempt numbers,
   and no number comes twice. *)
THEOREM AttemptsIncreaseCorrect == Spec => []AttemptsIncrease
<1>1. RunInv => AttemptsIncrease BY DEF RunInv
<1> QED BY <1>1, RunInvCorrect, PTL

(* No recorded run of a task is newer than the one a worker has in hand: its
   result can never be credited to a later attempt. *)
THEOREM WorkerRunIsLatestCorrect == Spec => []WorkerRunIsLatest
<1>1. TypeOK /\ RunInv => WorkerRunIsLatest
  <2> SUFFICES ASSUME TypeOK, RunInv, NEW w \in Worker, pc[w] = "run",
                      NEW i \in 1..Len(executions[job[w]])
               PROVE  executions[job[w]][i] <= seen[w].attempt
    BY DEF WorkerRunIsLatest
  <2>1. w \in Proc BY DEF Proc
  <2>2. job[w] \in Task BY <2>1, JobType
  <2>3. PICK s \in Seq(Nat) : s = executions[job[w]] BY <2>2 DEF TypeOK
  <2>4. s[i] <= LastRun(job[w]) /\ LastRun(job[w]) <= seen[w].attempt
    BY <2>2, <2>3 DEF RunInv, RunsNumbered, RunLatest
  <2>5. s[i] \in Nat /\ LastRun(job[w]) \in Nat /\ seen[w].attempt \in Nat
    BY <2>1, <2>2, <2>3, LastRunType DEF TypeOK
  <2> QED BY <2>3, <2>4, <2>5
<1> QED BY <1>1, RunInvCorrect, PTL

(* A committed terminal status is left only for a new attempt, and success
   only when an operator asks for a rerun. *)
THEOREM TerminalSticksCorrect == Spec => TerminalSticks
<1> DEFINE Sticks ==
      \A t \in Task :
          /\ Committed[t].status \in Terminal
          /\ Committed'[t].status # Committed[t].status
          => /\ Committed'[t].status = "queued"
             /\ Committed'[t].retry = Committed[t].retry + 1
             /\ Committed[t].status = "succeeded" => reruns'[t] = reruns[t] + 1
<1>1. TypeOK /\ QueueInv /\ RunInv /\ [Next]_vars => Sticks
  <2> SUFFICES ASSUME TypeOK, QueueInv, RunInv, [Next]_vars, NEW t \in Task,
                      Committed[t].status \in Terminal,
                      Committed'[t].status # Committed[t].status
               PROVE  /\ Committed'[t].status = "queued"
                      /\ Committed'[t].retry = Committed[t].retry + 1
                      /\ Committed[t].status = "succeeded"
                           => reruns'[t] = reruns[t] + 1
    OBVIOUS
  <2>1. StepKind BY RunNext
  <2>2. CASE StepMove
    <3>1. PICK d \in {0, 1} : /\ reruns'[t] = reruns[t] + d
                              /\ Moved(Committed[t], Committed'[t], d)
      BY <2>2 DEF StepMove
    <3> QED BY <3>1 DEF Moved, Same, Terminal
  <2>3. ASSUME NEW j \in Task, Starting(j) PROVE FALSE
    <3>1. TypeOK' BY TypeNext
    <3>2. Committed' = tasks' /\ (t # j => tasks'[t] = tasks[t])
      BY <2>3, <3>1, StartedTables
    <3>3. t # j BY <2>3 DEF Starting, Terminal
    <3>4. Drift(Committed[t], tasks[t]) BY DEF RunInv, OpenDrift
    <3> QED BY <3>2, <3>3, <3>4 DEF Drift, Same, Terminal
  <2>4. ASSUME NEW j \in Task, NEW n \in Nat, Recording(j, n) PROVE FALSE
    BY <2>4 DEF Recording
  <2> QED BY <2>1, <2>2, <2>3, <2>4 DEF StepKind
<1>2. TypeOK /\ QueueInv /\ RunInv /\ [Next]_vars => [Sticks]_vars BY <1>1
<1>3. Spec => [][Sticks]_vars
  <2> HIDE DEF Sticks
  <2> QED BY <1>2, RunInvCorrect, PTL DEF Spec
<1> QED BY <1>3 DEF TerminalSticks

(* What the quiet moves are in the abstract life of a task. *)
LEMMA MovedLife ==
    ASSUME NEW a \in Row, NEW b \in Row, NEW d, NEW n, NEW k,
           RowFits(a, n, k), Moved(a, b, d)
    PROVE  \/ PhaseOf(b) = PhaseOf(a) /\ b.retry = a.retry
           \/ PhaseOf(a) = "none" /\ PhaseOf(b) = "waiting" /\ b.retry = a.retry
           \/ /\ PhaseOf(a) = "running" /\ PhaseOf(b) \in {"failed", "succeeded"}
              /\ b.retry = a.retry
           \/ /\ PhaseOf(a) # "none" /\ PhaseOf(b) = "waiting" /\ a.retry < b.retry
              /\ PhaseOf(a) = "succeeded" => d = 1
<1>1. CASE Same(a, b) BY <1>1 DEF Same, PhaseOf
<1>2. CASE a.status = "absent" /\ b.status = "queued" /\ b.retry = 0
  BY <1>2 DEF RowFits, PhaseOf
<1>3. CASE a.status = "running" /\ b.status \in Terminal /\ b.retry = a.retry
  BY <1>3 DEF PhaseOf, Terminal
<1>4. CASE /\ a.status # "absent" /\ b.status = "queued" /\ b.retry > a.retry
           /\ a.status = "succeeded" => d = 1
  BY <1>4 DEF PhaseOf, Row, Status, Terminal
<1> QED BY <1>1, <1>2, <1>3, <1>4 DEF Moved

LEMMA LifeInit == Init => Life!Init
<1> SUFFICES ASSUME Init PROVE Life!Init OBVIOUS
<1>1. /\ Committed = [t \in Task |-> NoRow]
      /\ executions = [t \in Task |-> <<>>] /\ reruns = [t \in Task |-> 0]
  BY DEF Init, Committed
<1>2. PhaseOf(NoRow) = "none" /\ NoRow.retry + 1 = 1 BY DEF PhaseOf, NoRow
<1>3. \A t \in Task : LastRun(t) = 0 BY <1>1 DEF LastRun
<1>4. \A t \in Task : Unnumbered(t) = FALSE BY DEF Init, Unnumbered
<1> QED BY <1>1, <1>2, <1>3, <1>4 DEF Life!Init

(* One task in one step. *)
LEMMA LifeMove ==
    ASSUME TypeOK, QueueInv, RunInv, [Next]_vars, NEW t \in Task
    PROVE  Life!Move(t) /\ Life!Asks(t)
<1>1. TypeOK' /\ StepKind BY TypeNext, RunNext
<1>2. /\ Committed[t] \in Row /\ Committed'[t] \in Row
      /\ reruns[t] \in Nat /\ reruns'[t] \in Nat
      /\ Committed[t].retry \in Nat /\ Committed'[t].retry \in Nat
  BY <1>1, TableTypes, TableTypesNext DEF Row
<1>3. RowFits(Committed[t], LastRun(t), reruns[t]) BY DEF RunInv, RowsFit
<1>4. ASSUME NEW d \in {0, 1}, reruns'[t] = reruns[t] + d,
             Moved(Committed[t], Committed'[t], d), LastRun(t)' = LastRun(t),
             Unnumbered(t)' = Unnumbered(t)
      PROVE  Life!Move(t) /\ Life!Asks(t)
  <2>1. \/ PhaseOf(Committed'[t]) = PhaseOf(Committed[t])
           /\ Committed'[t].retry = Committed[t].retry
        \/ /\ PhaseOf(Committed[t]) = "none" /\ PhaseOf(Committed'[t]) = "waiting"
           /\ Committed'[t].retry = Committed[t].retry
        \/ /\ PhaseOf(Committed[t]) = "running"
           /\ PhaseOf(Committed'[t]) \in {"failed", "succeeded"}
           /\ Committed'[t].retry = Committed[t].retry
        \/ /\ PhaseOf(Committed[t]) # "none" /\ PhaseOf(Committed'[t]) = "waiting"
           /\ Committed[t].retry < Committed'[t].retry
           /\ PhaseOf(Committed[t]) = "succeeded" => d = 1
    BY <1>2, <1>3, <1>4, MovedLife
  <2>2. Life!Asks(t) BY <1>2, <1>4 DEF Life!Asks
  <2>3. d = 1 => reruns[t] < reruns'[t] BY <1>2, <1>4
  <2> HIDE DEF PhaseOf, LastRun, Unnumbered
  <2>4. Life!Move(t)
    BY <1>2, <1>4, <2>1, <2>3
       DEF Life!Move, Life!Stays, Life!Submit, Life!Settle, Life!Requeue,
           Life!Unmoved, Life!Unrecorded
  <2> QED BY <2>2, <2>4
<1>5. ASSUME UNCHANGED executions PROVE LastRun(t)' = LastRun(t)
  BY <1>5 DEF LastRun
<1>6. Unnumbered(t) \in BOOLEAN /\ Unnumbered(t)' \in BOOLEAN BY DEF Unnumbered
<1>7. CASE StepMove /\ UNCHANGED executions /\ Named
  <2>1. PICK d \in {0, 1} : /\ reruns'[t] = reruns[t] + d
                            /\ Moved(Committed[t], Committed'[t], d)
    BY <1>7 DEF StepMove
  <2>2. Unnumbered(t)' = Unnumbered(t)
    <3>1. Unnumbered(t)' <=> Unnumbered(t) BY <1>7 DEF Named
    <3> QED BY <1>6, <3>1
  <2> QED BY <1>4, <1>5, <1>7, <2>1, <2>2
<1>8. CASE Committed' = Committed /\ UNCHANGED <<executions, reruns>> /\ Lost
  <2>1. LastRun(t)' = LastRun(t) BY <1>5, <1>8
  <2>2. Moved(Committed[t], Committed'[t], 0) BY <1>8, SameRow DEF Moved
  <2>3. reruns'[t] = reruns[t] + 0 BY <1>2, <1>8
  <2>4. CASE Unnumbered(t)' = Unnumbered(t) BY <1>4, <2>1, <2>2, <2>3, <2>4
  <2>5. CASE Unnumbered(t)' # Unnumbered(t)
    <3>1. Unnumbered(t) /\ ~Unnumbered(t)' BY <1>6, <1>8, <2>5 DEF Lost
    <3>2. Life!Asks(t) BY <1>2, <1>8 DEF Life!Asks
    <3> HIDE DEF PhaseOf, LastRun, Unnumbered
    <3>3. Life!Skip(t) BY <1>8, <2>1, <3>1 DEF Life!Skip, Life!Unmoved
    <3> QED BY <3>2, <3>3 DEF Life!Move
  <2> QED BY <2>4, <2>5
<1>9. ASSUME NEW j \in Task, Starting(j), Begins(j)
      PROVE  Life!Move(t) /\ Life!Asks(t)
  <2>1. /\ Committed' = tasks' /\ LastRun(t)' = LastRun(t)
        /\ tasks'[j].status = "running" /\ tasks'[j].retry = tasks[j].retry
        /\ t # j => tasks'[t] = tasks[t]
    BY <1>1, <1>9, StartedTables
  <2>2. reruns'[t] = reruns[t] + 0 BY <1>2, <1>9 DEF Starting
  <2>3. ~Unnumbered(t) /\ (Unnumbered(t)' <=> t = j) BY <1>9 DEF Begins
  <2>4. CASE t # j
    <3>1. Drift(Committed[t], tasks[t]) BY DEF RunInv, OpenDrift
    <3>2. Committed'[t] = tasks[t] BY <2>1, <2>4
    <3>3. Moved(Committed[t], Committed'[t], 0)
      BY <1>2, <3>1, <3>2 DEF Drift, Moved, Same, Terminal
    <3>4. Unnumbered(t)' = Unnumbered(t) BY <1>6, <2>3, <2>4
    <3> QED BY <1>4, <2>1, <2>2, <3>3, <3>4
  <2>5. CASE t = j
    <3>1. /\ Committed[t].status \in {"received", "queued"}
          /\ Same(Committed[t], tasks[t])
      BY <1>9, <2>5 DEF Starting
    <3>2. /\ PhaseOf(Committed[t]) = "waiting" /\ PhaseOf(Committed'[t]) = "running"
          /\ Committed'[t].retry = Committed[t].retry
      BY <2>1, <2>5, <3>1 DEF PhaseOf, Same
    <3>3. Life!Asks(t) BY <1>2, <2>2 DEF Life!Asks
    <3> HIDE DEF PhaseOf, LastRun, Unnumbered
    <3>4. Life!Start(t) BY <2>1, <2>3, <2>5, <3>2 DEF Life!Start
    <3> QED BY <3>3, <3>4 DEF Life!Move
  <2> QED BY <2>4, <2>5
<1>10. ASSUME NEW j \in Task, NEW n \in Nat, Recording(j, n)
       PROVE  Life!Move(t) /\ Life!Asks(t)
  <2>1. /\ Committed' = Committed /\ reruns' = reruns /\ LastRun(j) < n
        /\ Unnumbered(j) /\ ~Unnumbered(t)' /\ (Unnumbered(t) => t = j)
        /\ RowFits(tasks[j], n, reruns[j])
    BY <1>10 DEF Recording
  <2>2. reruns'[t] = reruns[t] + 0 BY <1>2, <2>1
  <2>3. /\ LastRun(j)' = n
        /\ t # j => LastRun(t)' = LastRun(t)
    BY <1>10, RecordedRuns
  <2>4. CASE t # j
    <3>1. Moved(Committed[t], Committed'[t], 0) BY <2>1, SameRow DEF Moved
    <3>2. Unnumbered(t)' = Unnumbered(t) BY <1>6, <2>1, <2>4
    <3> QED BY <1>4, <2>2, <2>3, <2>4, <3>1, <3>2
  <2>5. CASE t = j
    <3>1. n <= Committed[t].retry + 1
      <4>1. Committed' = tasks BY <1>10 DEF Recording, Committed
      <4> QED BY <2>1, <2>5, <4>1 DEF RowFits
    <3>2. Life!Asks(t) BY <1>2, <2>2 DEF Life!Asks
    <3> HIDE DEF PhaseOf, LastRun, Unnumbered
    <3>3. Life!Number(t) BY <2>1, <2>3, <2>5, <3>1 DEF Life!Number, Life!Unmoved
    <3> QED BY <3>2, <3>3 DEF Life!Move
  <2> QED BY <2>4, <2>5
<1> QED BY <1>1, <1>7, <1>8, <1>9, <1>10 DEF StepKind

(* The dispatcher implements the abstract life of a task (TaskLifecycle), for
   the committed table: what a crash would leave. *)
THEOREM LifecycleCorrect == Spec => Lifecycle
<1>1. TypeOK /\ QueueInv /\ RunInv /\ [Next]_vars => [Life!Next]_(Life!vars)
  BY LifeMove DEF Life!Next
<1> QED BY <1>1, LifeInit, RunInvCorrect, PTL DEF Spec, Lifecycle, Life!Spec

----------------------------------------------------------------------------
(* One task per event, in one process *)

Present(row) == row.status # "absent"

Single(table) ==
    \A t, u \in Task : Present(table[t]) /\ Present(table[u]) /\ EventOf[t] = EventOf[u] => t = u

SamePresence(a, b) == \A t \in Task : Present(a[t]) <=> Present(b[t])

\* Between the commit of an event and the commit of its task nobody else makes one.
InsertAlone == \A p \in Proc : pc[p] = "insert" => TasksOf(EventOf[job[p]]) = {}

EventInv ==
    /\ Single(tasks) /\ InsertAlone
    /\ pending # None => SamePresence(tasks, pending)

(* No statement of the sweep or the recovery makes a row or deletes one. *)
LEMMA RowPresence ==
    ASSUME NEW row \in Row, NEW auto \in BOOLEAN
    PROVE  /\ Present(RecoverOrphaned(row)) <=> Present(row)
           /\ Present(HalfSwept(row, auto)) <=> Present(row)
           /\ Present(Swept(row, auto)) <=> Present(row)
<1>1. ASSUME NEW r \in Row
      PROVE  /\ Present(RecoverOrphaned(r)) <=> Present(r)
             /\ Present(HalfSwept(r, auto)) <=> Present(r)
             /\ Present(RetryInterrupted(r, auto)) <=> Present(r)
  BY DEF Present, RecoverOrphaned, HalfSwept, Promote, ResetStale, RetryInterrupted,
         Interrupted, Requeued, Row, Terminal
<1>2. HalfSwept(row, auto) \in Row BY HalfSweptType
<1> QED BY <1>1, <1>2 DEF Swept

(* A step that makes no row, with no new handler between its two commits. *)
LEMMA EventStep ==
    ASSUME EventInv, SamePresence(tasks, tasks'),
           pending' # None => SamePresence(tasks, pending'),
           \A p \in Proc : pc'[p] = "insert" => pc[p] = "insert" /\ job'[p] = job[p]
    PROVE  EventInv'
<1>1. \A e : TasksOf(e)' = TasksOf(e) BY DEF TasksOf, SamePresence, Present
<1>2. InsertAlone' BY <1>1 DEF EventInv, InsertAlone
<1> QED BY <1>2 DEF EventInv, Single, SamePresence

(* A sweep makes a task of each orphan, and of nothing else. *)
LEMMA RehydrationsSingle ==
    ASSUME NEW es, NEW new \in Rehydrations(es)
    PROVE  \A t \in DOMAIN new : /\ EventOf[t] \in es
                                 /\ \A u \in DOMAIN new : EventOf[u] = EventOf[t] => u = t
<1>1. PICK ts \in SUBSET Task :
        /\ \A t \in ts : Fresh(t) /\ EventOf[t] \in es
        /\ \A e \in es : \E t \in ts : \A u \in ts : EventOf[u] = e <=> u = t
        /\ new \in [ts -> ClientMax \cup {MaxAutoRetries}]
  <2> HIDE DEF Fresh
  <2> QED BY DEF Rehydrations
<1>2. DOMAIN new = ts BY <1>1
<1> QED BY <1>1, <1>2

LEMMA SweptSingle ==
    ASSUME Single(tasks), NEW es \in SUBSET Orphans, NEW new \in Rehydrations(es),
           NEW next, \A t \in Task : Present(next[t]) <=> (t \in DOMAIN new \/ Present(tasks[t]))
    PROVE  Single(next)
<1>1. \A t \in DOMAIN new : /\ t \in Task /\ TasksOf(EventOf[t]) = {}
                            /\ \A u \in DOMAIN new : EventOf[u] = EventOf[t] => u = t
  BY RehydrationsSingle, FreshRows DEF Orphans
<1>2. \A t \in DOMAIN new, u \in Task : EventOf[u] = EventOf[t] => ~Present(tasks[u])
  BY <1>1 DEF TasksOf, Present
<1> QED BY <1>1, <1>2 DEF Single

LEMMA SweptPresence ==
    ASSUME TypeOK, NEW es, NEW new \in Rehydrations(es), NEW auto \in BOOLEAN, NEW t \in Task
    PROVE  /\ Present(SweptTable(tasks, new, auto)[t])
                 <=> (t \in DOMAIN new \/ Present(tasks[t]))
           /\ Present(HalfSweptTable(tasks, new, auto)[t])
                 <=> (t \in DOMAIN new \/ Present(tasks[t]))
           /\ Present(SweptTable(Recovered, new, auto)[t])
                 <=> (t \in DOMAIN new \/ Present(tasks[t]))
           /\ Present(HalfSweptTable(Recovered, new, auto)[t])
                 <=> (t \in DOMAIN new \/ Present(tasks[t]))
<1>1. tasks[t] \in Row /\ RecoverOrphaned(tasks[t]) \in Row
  BY TableTypes, RecoverOrphanedType
<1>2. CASE t \in DOMAIN new
  <2>1. Present(NewRow(new[t])) BY <1>2, FreshRows, NewRowType DEF Present
  <2> QED BY <1>2, <2>1 DEF SweptTable, HalfSweptTable
<1>3. CASE t \notin DOMAIN new
  <2>1. /\ Present(Swept(tasks[t], auto)) <=> Present(tasks[t])
        /\ Present(HalfSwept(tasks[t], auto)) <=> Present(tasks[t])
    BY <1>1, RowPresence
  <2>2. /\ Present(Swept(RecoverOrphaned(tasks[t]), auto)) <=> Present(tasks[t])
        /\ Present(HalfSwept(RecoverOrphaned(tasks[t]), auto)) <=> Present(tasks[t])
    BY <1>1, RowPresence
  <2> QED BY <1>3, <2>1, <2>2 DEF SweptTable, HalfSweptTable, Recovered
<1> QED BY <1>2, <1>3

(* Sweeps and boots: no coroutine has the loop, so none is between its commits. *)
LEMMA SweepEvent ==
    ASSUME TypeOK, EventInv, loop = None, UNCHANGED procVars,
           NEW es \in SUBSET Orphans, NEW new \in Rehydrations(es),
           \A t \in Task : Present(tasks'[t]) <=> (t \in DOMAIN new \/ Present(tasks[t])),
           pending' # None => SamePresence(tasks', pending')
    PROVE  EventInv'
<1>1. Single(tasks)' BY SweptSingle DEF EventInv
<1>2. InsertAlone'
  <2>1. \A p \in Proc : pc[p] # "insert" BY NoneAssumption DEF TypeOK, Proc
  <2> QED BY <2>1 DEF InsertAlone, procVars
<1> QED BY <1>1, <1>2 DEF EventInv

LEMMA BootEvent ==
    ASSUME TypeOK, QueueInv, EventInv, up \/ pending = None, Boot \/ BootWithoutSweep
    PROVE  EventInv'
<1>1. loop = None /\ pending = None /\ UNCHANGED procVars
  BY DEF QueueInv, Boot, BootWithoutSweep
<1>2. CASE Boot
  <2>1. PICK new \in Rehydrations(Orphans) : tasks' = SweptTable(Recovered, new, TRUE)
    BY <1>2 DEF Boot
  <2>2. pending' = None BY <1>1, <1>2 DEF Boot
  <2>3. \A t \in Task : Present(tasks'[t]) <=> (t \in DOMAIN new \/ Present(tasks[t]))
    BY <2>1, SweptPresence
  <2> QED BY <1>1, <2>2, <2>3, SweepEvent
<1>3. CASE BootWithoutSweep
  <2>1. PICK before \in SUBSET (Orphans \ Malformed) :
          /\ \E new \in Rehydrations(before) : tasks' = HalfSweptTable(Recovered, new, TRUE)
          /\ pending' = IF before = {} THEN Recovered ELSE None
    BY <1>3 DEF BootWithoutSweep
  <2>2. PICK new \in Rehydrations(before) : tasks' = HalfSweptTable(Recovered, new, TRUE)
    BY <2>1
  <2>3. \A t \in Task : Present(tasks'[t]) <=> (t \in DOMAIN new \/ Present(tasks[t]))
    BY <2>2, SweptPresence
  <2>4. ASSUME pending' # None PROVE SamePresence(tasks', pending')
    <3>1. before = {} /\ pending' = Recovered BY <2>1, <2>4
    <3>2. DOMAIN new = {} BY <3>1, NothingToRehydrate
    <3>3. \A t \in Task : Present(Recovered[t]) <=> Present(tasks[t])
      BY TableTypes, RowPresence DEF Recovered
    <3> QED BY <2>3, <3>1, <3>2, <3>3 DEF SamePresence
  <2>5. before \in SUBSET Orphans OBVIOUS
  <2> QED BY <1>1, <2>3, <2>4, <2>5, SweepEvent
<1> QED BY <1>2, <1>3

LEMMA OperateEvent ==
    ASSUME ~HasCli, TypeOK, EventInv, Operate
    PROVE  EventInv'
<1>1. \A t \in Task : tasks[t] \in Row BY TableTypes
<1>2. ASSUME NEW e \in Event, ReceiveAlert(e) PROVE EventInv'
  BY <1>2, EventStep DEF ReceiveAlert, procVars, SamePresence
<1>3. ASSUME NEW auto \in BOOLEAN, Sweep(auto) PROVE EventInv'
  <2>1. PICK new \in Rehydrations(Orphans) : tasks' = SweptTable(tasks, new, auto)
    BY <1>3 DEF Sweep
  <2>2. \A t \in Task : Present(tasks'[t]) <=> (t \in DOMAIN new \/ Present(tasks[t]))
    BY <2>1, SweptPresence
  <2>3. loop = None /\ pending' = None /\ UNCHANGED procVars BY <1>3 DEF Sweep, LoopFree
  <2> QED BY <2>2, <2>3, SweepEvent
<1>4. ASSUME NEW auto \in BOOLEAN, AbortSweep(auto) PROVE EventInv'
  <2>1. PICK before \in SUBSET (Orphans \ Malformed) :
          /\ \E new \in Rehydrations(before) : tasks' = HalfSweptTable(tasks, new, auto)
          /\ pending' = IF before = {} THEN Committed ELSE None
    BY <1>4 DEF AbortSweep
  <2>2. PICK new \in Rehydrations(before) : tasks' = HalfSweptTable(tasks, new, auto)
    BY <2>1
  <2>3. \A t \in Task : Present(tasks'[t]) <=> (t \in DOMAIN new \/ Present(tasks[t]))
    BY <2>2, SweptPresence
  <2>4. loop = None /\ UNCHANGED procVars BY <1>4 DEF AbortSweep, LoopFree
  <2>5. ASSUME pending' # None PROVE SamePresence(tasks', pending')
    <3>1. before = {} /\ pending' = Committed BY <2>1, <2>5
    <3>2. DOMAIN new = {} BY <3>1, NothingToRehydrate
    <3>3. SamePresence(tasks, Committed) BY DEF EventInv, Committed, SamePresence
    <3> QED BY <2>3, <3>1, <3>2, <3>3 DEF SamePresence
  <2>6. before \in SUBSET Orphans OBVIOUS
  <2> QED BY <2>3, <2>4, <2>5, <2>6, SweepEvent
<1>5. ASSUME NEW t \in Task, RerunTask(t) PROVE EventInv'
  <2>1. tasks' = [tasks EXCEPT ![t] = Rerun(tasks[t])] /\ Present(tasks[t])
    BY <1>5 DEF RerunTask, Present
  <2>2. Present(Rerun(tasks[t])) BY <1>1, RerunType DEF Present
  <2>3. SamePresence(tasks, tasks') BY <2>1, <2>2 DEF SamePresence, TypeOK
  <2> QED BY <1>5, <2>3, EventStep DEF RerunTask, procVars
<1>6. ASSUME NEW t \in Task, GrowStale(t) PROVE EventInv'
  <2>1. PICK row \in Row : row = tasks[t] BY <1>1
  <2>2. tasks' = [tasks EXCEPT ![t] = [row EXCEPT !.aged = TRUE]] /\ Present(row)
    BY <1>6, <2>1 DEF GrowStale, Present
  <2>3. Present([row EXCEPT !.aged = TRUE]) BY <2>2 DEF Present, Row
  <2>4. SamePresence(tasks, tasks') BY <2>1, <2>2, <2>3 DEF SamePresence, TypeOK
  <2> QED BY <1>6, <2>4, EventStep DEF GrowStale, procVars, EventInv
<1>7. ASSUME NEW auto \in BOOLEAN PROVE ~CliSweep(auto) /\ ~AbortCliSweep(auto)
  BY DEF CliSweep, AbortCliSweep
<1>8. ASSUME NEW t \in Task PROVE ~CliRerun(t)
  BY DEF CliRerun
<1> QED BY <1>2, <1>3, <1>4, <1>5, <1>6, <1>7, <1>8 DEF Operate

(* The two commits of a delivery. *)
LEMMA IngressEvent ==
    ASSUME TypeOK, EventInv, NEW h \in Handler, Ingress(h)
    PROVE  EventInv'
<1> h \in Proc /\ h # None BY NoneAssumption DEF Proc
<1>1. ASSUME NEW e \in Event, ReceiveWebhook(h, e) PROVE EventInv'
  <2>1. PICK t \in Task : EventOf[t] = e /\ job' = [job EXCEPT ![h] = t]
    BY <1>1 DEF ReceiveWebhook
  <2>2. /\ tasks' = tasks /\ pc' = [pc EXCEPT ![h] = "insert"] /\ TasksOf(e) = {}
        /\ pending' \in {None, pending}
    BY <1>1 DEF ReceiveWebhook, Goto
  <2>3. \A x : TasksOf(x)' = TasksOf(x) BY <2>2 DEF TasksOf
  <2>4. InsertAlone'
    BY <2>1, <2>2, <2>3 DEF EventInv, InsertAlone, TypeOK
  <2> QED BY <2>2, <2>4 DEF EventInv, Single, SamePresence
<1>2. ASSUME AcceptWebhook(h) \/ AcceptSyncWebhook(h) PROVE EventInv'
  <2>1. /\ pc[h] = "insert" /\ pending' = None
        /\ \E m \in ClientMax : tasks' = [tasks EXCEPT ![job[h]] = NewRow(m)]
        /\ \E label \in {"idle", "load"} : pc' = [pc EXCEPT ![h] = label]
    BY <1>2 DEF AcceptWebhook, AcceptSyncWebhook, Goto
  <2>2. PICK j \in Task : j = job[h] BY <2>1 DEF TypeOK
  <2>3. TasksOf(EventOf[j]) = {} BY <2>1, <2>2 DEF EventInv, InsertAlone
  <2>4. \A u \in Task : EventOf[u] = EventOf[j] => ~Present(tasks[u])
    BY <2>3 DEF TasksOf, Present
  <2>5. \A u \in Task : u # j => tasks'[u] = tasks[u]
    BY <2>1, <2>2 DEF TypeOK
  <2>6. Single(tasks)' BY <2>4, <2>5 DEF EventInv, Single
  <2>7. loop = h BY <2>1 DEF TypeOK
  <2>8. \A p \in Proc : pc'[p] # "insert"
    <3>1. \A p \in Proc : p # h => pc[p] # "insert" BY <2>7 DEF TypeOK
    <3> QED BY <2>1, <3>1 DEF TypeOK
  <2> QED BY <2>1, <2>6, <2>8 DEF EventInv, InsertAlone
<1> QED BY <1>1, <1>2 DEF Ingress

LEMMA ExecuteEvent ==
    ASSUME TypeOK, QueueInv, EventInv, NEW p \in Proc, Execute(p)
    PROVE  EventInv'
<1>1. pc[p] \in {"load", "cas", "record", "run", "mark"} /\ job[p] \in Task /\ tasks[job[p]] \in Row
  <2>1. pc[p] \in {"load", "cas", "record", "run", "mark"}
    BY DEF Execute, LoadTask, StartTask, StartError, RecordExecution, RecordError,
           FinishTask, FinishError, MarkEvent
  <2> QED BY <2>1, JobType
<1>2. PICK j \in Task : j = job[p] BY <1>1
<1>3. PICK row \in Row : row = tasks[j] BY <1>1, <1>2
<1>4. /\ \E label \in {"idle", "cas", "record", "run", "mark"} : pc' = [pc EXCEPT ![p] = label]
      /\ \A q \in Proc : q # p => job'[q] = job[q]
      /\ pending' \in {None, pending}
      /\ tasks' = tasks \/ FinishTask(p) \/ StartTask(p)
  BY DEF Execute, LoadTask, StartTask, StartError, RecordExecution, RecordError,
         FinishTask, FinishError, MarkEvent, Release, Goto, dbVars, TypeOK
<1>5. \A q \in Proc : pc'[q] = "insert" => pc[q] = "insert" /\ job'[q] = job[q]
  BY <1>4 DEF TypeOK
<1>6. SamePresence(tasks, tasks')
  <2>1. CASE tasks' = tasks BY <2>1 DEF SamePresence
  <2>2. CASE FinishTask(p)
    <3>1. PICK o \in Outcomes : tasks' = [tasks EXCEPT ![j] = Settled(row, o[1], o[2])]
      BY <1>2, <1>3, <2>2 DEF FinishTask
    <3>2. o[1] \in Terminal BY DEF Outcomes, Terminal
    <3>3. Present(Settled(row, o[1], o[2])) <=> Present(row)
      BY <3>2 DEF Settled, Present, Row, Terminal
    <3> QED BY <1>3, <3>1, <3>3 DEF SamePresence, TypeOK
  <2>3. CASE StartTask(p)
    <3>1. \/ tasks' = tasks
          \/ /\ tasks' = [tasks EXCEPT ![j] = Started(row)]
             /\ row.status = seen[p].status /\ pc[p] = "cas"
      BY <1>2, <1>3, <2>3 DEF StartTask
    <3>2. CASE tasks' = tasks BY <3>2 DEF SamePresence
    <3>3. CASE /\ tasks' = [tasks EXCEPT ![j] = Started(row)]
               /\ row.status = seen[p].status /\ pc[p] = "cas"
      <4>1. row.status = "queued" BY <3>3 DEF QueueInv, StartsFromQueued
      <4>2. Present(row) /\ Present(Started(row)) BY <4>1 DEF Present, Started, Row
      <4> QED BY <1>3, <3>3, <4>2 DEF SamePresence, TypeOK
    <3> QED BY <3>1, <3>2, <3>3
  <2> QED BY <1>4, <2>1, <2>2, <2>3
<1> QED BY <1>4, <1>5, <1>6, EventStep DEF EventInv

LEMMA EventNext ==
    ASSUME ~HasCli, TypeOK, QueueInv, RunInv, EventInv, [Next]_vars
    PROVE  EventInv'
<1>1. CASE Crash
  <2>1. SamePresence(tasks, tasks') BY <1>1 DEF Crash, Committed, EventInv, SamePresence
  <2>2. pending' = None /\ \A p \in Proc : pc'[p] = "idle" BY <1>1 DEF Crash
  <2> QED BY <2>1, <2>2, EventStep
<1>2. CASE Boot \/ BootWithoutSweep BY <1>2, BootEvent DEF RunInv
<1>3. ASSUME NEW w \in Worker, TakeTask(w) PROVE EventInv'
  <2>1. /\ tasks' = tasks /\ pending' = pending /\ pc' = [pc EXCEPT ![w] = "load"]
        /\ \A q \in Proc : q # w => job'[q] = job[q]
    BY <1>3 DEF TakeTask, dbVars, Goto, TypeOK
  <2>2. \A q \in Proc : pc'[q] = "insert" => pc[q] = "insert" /\ job'[q] = job[q]
    BY <2>1 DEF TypeOK
  <2> QED BY <2>1, <2>2, EventStep DEF EventInv, SamePresence
<1>4. CASE WriteLog \/ CreateTask \/ UNCHANGED vars
  <2>1. UNCHANGED <<tasks, pc, job>> /\ pending' \in {None, pending, Committed}
    BY <1>4 DEF WriteLog, CreateTask, vars, dbVars, procVars
  <2>2. SamePresence(tasks, Committed) BY DEF EventInv, Committed, SamePresence
  <2> QED BY <2>1, <2>2, EventStep DEF EventInv, SamePresence
<1> QED BY <1>1, <1>2, <1>3, <1>4, IngressEvent, ExecuteEvent, OperateEvent DEF Next

(* A delivery gets one task, whatever deliveries, sweeps, crashes and boots come
   between the commit of the event and the commit of the task, as long as the
   daemon is the only process that writes. *)
THEOREM OneTaskPerEventCorrect == ~HasCli => (Spec => []OneTaskPerEvent)
<1> SUFFICES ASSUME ~HasCli PROVE Spec => []OneTaskPerEvent OBVIOUS
<1>1. Init => EventInv
  BY DEF Init, EventInv, Single, InsertAlone, Present, NoRow
<1>2. TypeOK /\ QueueInv /\ RunInv /\ EventInv /\ [Next]_vars => EventInv'
  BY EventNext
<1>3. EventInv => OneTaskPerEvent
  <2> SUFFICES ASSUME EventInv, NEW e \in Event PROVE Cardinality(TasksOf(e)) <= 1
    BY DEF OneTaskPerEvent
  <2>1. \A t, u \in TasksOf(e) : t = u BY DEF EventInv, Single, TasksOf, Present
  <2>2. CASE TasksOf(e) = {} BY <2>2, FS_EmptySet
  <2>3. ASSUME NEW t \in TasksOf(e) PROVE Cardinality(TasksOf(e)) <= 1
    <3>1. TasksOf(e) = {t} BY <2>1, <2>3
    <3>2. Cardinality({t}) = 1 BY FS_Singleton
    <3> QED BY <3>1, <3>2
  <2> QED BY <2>2, <2>3
<1> QED BY <1>1, <1>2, <1>3, TypeCorrect, QueueInvCorrect, RunInvCorrect, PTL DEF Spec
=============================================================================

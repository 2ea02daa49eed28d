------------------------ MODULE TaskDispatcherProofs ------------------------
(***************************************************************************)
(* Theorems about the statements of the tasks table (TaskStore), for every *)
(* row and every value of MaxAutoRetries, and about TaskDispatcher, for    *)
(* every number of events, tasks, workers, handlers, retries, reruns and   *)
(* faults: types, the queue and its duplicate guard, the start of a run.   *)
(***************************************************************************)
EXTENDS TaskDispatcher, FiniteSetTheorems, SequenceTheorems, TLAPS

----------------------------------------------------------------------------
(* The statements of the tasks table *)

LEMMA StatusMembers ==
    /\ "queued" \in Status /\ "running" \in Status
    /\ "failed" \in Status /\ "timed_out" \in Status
    /\ "none" \in ErrorClass /\ "recoverable" \in ErrorClass
    /\ Terminal \subseteq Status
BY DEF Status, Terminal, ErrorClass

(* An inserted row has the type of a row and waits: insert_task. *)
LEMMA NewRowType ==
    ASSUME NEW max \in Nat
    PROVE  NewRow(max) \in Row /\ NewRow(max).status = "queued"
BY DEF NewRow, NoRow, Row, Status, Terminal, ErrorClass

(* No limit the sweeper computes leaves the naturals. *)
LEMMA RetryLimitType ==
    ASSUME NEW row \in Row
    PROVE  RetryLimit(row) \in Nat
BY MaxAutoRetriesAssumption DEF RetryLimit, Larger, Row

(* The statements of update_task_status_cas. *)
LEMMA StartedType ==
    ASSUME NEW row \in Row
    PROVE  Started(row) \in Row
BY DEF Started, Row, Status

LEMMA SettledType ==
    ASSUME NEW row \in Row, NEW status \in Terminal, NEW error \in ErrorClass
    PROVE  Settled(row, status, error) \in Row
BY DEF Settled, Row, Status

(* The compare-and-swap of a result leaves a row that is not running alone. *)
LEMMA SettledOnlyRunning ==
    ASSUME NEW row, NEW status, NEW error, row.status # "running"
    PROVE  Settled(row, status, error) = row
BY DEF Settled

(* A rerun makes any row a queued one: rerun_task. *)
LEMMA RerunType ==
    ASSUME NEW row \in Row
    PROVE  Rerun(row) \in Row /\ Rerun(row).status = "queued"
<1>1. row.retry + 1 \in Nat BY DEF Row
<1>2. Rerun(row) \in Row BY <1>1, StatusMembers DEF Rerun, Row
<1>3. Rerun(row).status = "queued" BY DEF Rerun, Row
<1> QED BY <1>2, <1>3

(* The boot-time recovery, and what it leaves alone: recover_orphaned_tasks. *)
LEMMA RecoverOrphanedType ==
    ASSUME NEW row \in Row
    PROVE  /\ RecoverOrphaned(row) \in Row
           /\ row.status = "queued" => RecoverOrphaned(row) = row
<1>1. row.retry + 1 \in Nat BY DEF Row
<1>2. CASE row.status # "running" BY <1>2 DEF RecoverOrphaned
<1>3. CASE row.status = "running" /\ row.retry < row.max
  BY <1>1, <1>3, StatusMembers DEF RecoverOrphaned, Row
<1>4. CASE row.status = "running" /\ ~(row.retry < row.max)
  BY <1>4, StatusMembers DEF RecoverOrphaned, Row
<1> QED BY <1>2, <1>3, <1>4

LEMMA RequeuedType ==
    ASSUME NEW row \in Row, NEW max \in Nat
    PROVE  Requeued(row, max) \in Row /\ Requeued(row, max).status = "queued"
<1>1. row.retry + 1 \in Nat BY DEF Row
<1>2. Requeued(row, max) \in Row BY <1>1, StatusMembers DEF Requeued, Row
<1>3. Requeued(row, max).status = "queued" BY DEF Requeued, Row
<1> QED BY <1>2, <1>3

(* Steps 1 and 2 of the sweep. *)
LEMMA HalfSweptType ==
    ASSUME NEW row \in Row, NEW auto \in BOOLEAN
    PROVE  /\ HalfSwept(row, auto) \in Row
           /\ row.status = "queued" => HalfSwept(row, auto).status = "queued"
<1>1. /\ ResetStale(row, auto) \in Row
      /\ row.status = "queued" => ResetStale(row, auto) = row
  BY RetryLimitType, RequeuedType
     DEF ResetStale, Row, Status, Terminal, ErrorClass
<1>2. ASSUME NEW r \in Row
      PROVE  /\ Promote(r) \in Row
             /\ r.status = "queued" => Promote(r).status = "queued"
  BY DEF Promote, Row, Status
<1> QED BY <1>1, <1>2 DEF HalfSwept

(* The whole sweep keeps the type of a row, and no step of it takes a waiting
   row out of 'queued'. *)
LEMMA SweptType ==
    ASSUME NEW row \in Row, NEW auto \in BOOLEAN
    PROVE  /\ Swept(row, auto) \in Row
           /\ row.status = "queued" => Swept(row, auto).status = "queued"
<1>1. ASSUME NEW r \in Row
      PROVE  /\ RetryInterrupted(r, auto) \in Row
             /\ r.status = "queued" => RetryInterrupted(r, auto).status = "queued"
  BY RetryLimitType, RequeuedType DEF RetryInterrupted, Interrupted
<1> QED BY <1>1, HalfSweptType DEF Swept

----------------------------------------------------------------------------
(* Sequences without duplicates *)

Elements(q) == {q[i] : i \in 1..Len(q)}

Distinct(q) == \A i, j \in 1..Len(q) : i # j => q[i] # q[j]

(* enqueue appends: the elements grow by the new id, and stay distinct when it
   is new. *)
LEMMA AppendElements ==
    ASSUME NEW T, NEW q \in Seq(T), NEW t \in T
    PROVE  /\ Append(q, t) \in Seq(T)
           /\ Elements(Append(q, t)) = Elements(q) \cup {t}
           /\ Distinct(q) /\ t \notin Elements(q) => Distinct(Append(q, t))
BY DEF Elements, Distinct

(* queue.get takes the head: it is no longer in what is left. *)
LEMMA TailElements ==
    ASSUME NEW T, NEW q \in Seq(T), q # <<>>
    PROVE  /\ Head(q) \in T /\ Tail(q) \in Seq(T)
           /\ Elements(q) = Elements(Tail(q)) \cup {Head(q)}
           /\ Distinct(q) => /\ Distinct(Tail(q))
                             /\ Head(q) \notin Elements(Tail(q))
BY DEF Elements, Distinct

(* The batch of a sweep: two sequences with nothing in common. *)
LEMMA ConcatElements ==
    ASSUME NEW T, NEW q \in Seq(T), NEW s \in Seq(T)
    PROVE  /\ q \o s \in Seq(T)
           /\ Elements(q \o s) = Elements(q) \cup Elements(s)
           /\ Distinct(q) /\ Distinct(s) /\ Elements(q) \cap Elements(s) = {}
              => Distinct(q \o s)
<1> DEFINE m == Len(q)
           c == q \o s
<1>1. /\ c \in Seq(T) /\ Len(c) = m + Len(s) /\ m \in Nat /\ Len(s) \in Nat
      /\ \A i \in 1..Len(c) : c[i] = IF i <= m THEN q[i] ELSE s[i - m]
  OBVIOUS
<1>2. ASSUME NEW i \in 1..Len(c)
      PROVE  \/ i \in 1..m /\ c[i] = q[i]
             \/ i - m \in 1..Len(s) /\ c[i] = s[i - m]
  BY <1>1
<1>3. ASSUME NEW i \in 1..m PROVE i \in 1..Len(c) /\ c[i] = q[i]
  BY <1>1
<1>4. ASSUME NEW i \in 1..Len(s) PROVE i + m \in 1..Len(c) /\ c[i + m] = s[i]
  BY <1>1
<1> HIDE DEF m, c
<1>5. Elements(c) = Elements(q) \cup Elements(s)
  <2>1. ASSUME NEW i \in 1..Len(c) PROVE c[i] \in Elements(q) \cup Elements(s)
    BY <1>2 DEF Elements, m
  <2>2. ASSUME NEW i \in 1..Len(q) PROVE q[i] \in Elements(c)
    <3>1. i \in 1..Len(c) /\ c[i] = q[i] BY <1>3 DEF m
    <3> QED BY <3>1 DEF Elements
  <2>3. ASSUME NEW i \in 1..Len(s) PROVE s[i] \in Elements(c)
    <3>1. i + m \in 1..Len(c) /\ c[i + m] = s[i] BY <1>4
    <3> QED BY <3>1 DEF Elements
  <2> QED BY <2>1, <2>2, <2>3 DEF Elements
<1>6. ASSUME Distinct(q), Distinct(s), Elements(q) \cap Elements(s) = {},
             NEW i \in 1..Len(c), NEW j \in 1..Len(c), i # j
      PROVE  c[i] # c[j]
  <2>1. CASE i \in 1..m /\ c[i] = q[i] /\ j \in 1..m /\ c[j] = q[j]
    BY <1>6, <2>1 DEF Distinct, m
  <2>2. CASE i - m \in 1..Len(s) /\ c[i] = s[i - m] /\ j - m \in 1..Len(s) /\ c[j] = s[j - m]
    BY <1>1, <1>6, <2>2 DEF Distinct
  <2>3. CASE i \in 1..m /\ c[i] = q[i] /\ j - m \in 1..Len(s) /\ c[j] = s[j - m]
    BY <1>6, <2>3 DEF Elements, m
  <2>4. CASE i - m \in 1..Len(s) /\ c[i] = s[i - m] /\ j \in 1..m /\ c[j] = q[j]
    BY <1>6, <2>4 DEF Elements, m
  <2> QED BY <1>2, <2>1, <2>2, <2>3, <2>4
<1> QED BY <1>1, <1>5, <1>6 DEF Distinct, c

(* The ids of a sweep, in some order: all of them, and each once. *)
LEMMA BatchElements ==
    ASSUME NEW T, IsFiniteSet(T), NEW S \in SUBSET T, NEW s \in SetToSeqs(S)
    PROVE  /\ s \in Seq(T)
           /\ Elements(s) = S
           /\ Distinct(s)
<1> DEFINE n == Cardinality(S)
<1>1. IsFiniteSet(S) /\ n \in Nat BY FS_Subset, FS_CardinalityType
<1>2. /\ s \in [1..n -> S]
      /\ \A i, j \in 1..n : i # j => s[i] # s[j]
  BY DEF SetToSeqs
<1>3. s \in Seq(S) /\ Len(s) = n BY <1>1, <1>2
<1>4. s \in Injection(1..n, S)
  BY <1>2 DEF Injection, IsInjective
<1>5. Cardinality(1..n) = n BY <1>1, FS_Interval
<1>6. s \in Surjection(1..n, S) BY <1>1, <1>4, <1>5, FS_Injection
<1>7. Elements(s) = S BY <1>2, <1>3, <1>6 DEF Elements, Surjection
<1>8. s \in Seq(T) BY <1>3
<1> QED BY <1>2, <1>3, <1>7, <1>8 DEF Distinct

----------------------------------------------------------------------------
(* Type correctness *)

CoroutineTypes ==
    /\ loop \in Proc \cup {None}
    /\ pc \in [Proc -> PcLabels]
    /\ job \in [Proc -> Task \cup {None}]
    /\ seen \in [Proc -> [status : Status, attempt : Nat]]
    /\ outcome \in [Proc -> Terminal \cup {"absent"}]
    /\ \A p \in Proc : /\ pc[p] = "idle" <=> job[p] = None
                       /\ pc[p] \in {"idle", "run"} \/ loop = p

(* A coroutine that is released leaves a well-formed set of coroutines. *)
LEMMA ReleaseType ==
    ASSUME TypeOK, NEW p \in Proc, loop \in {p, None}, Release(p)
    PROVE  CoroutineTypes' /\ enqueued' \subseteq Task
<1>1. NotSeen \in [status : Status, attempt : Nat] BY DEF NotSeen, Status
<1>2. "idle" \in PcLabels BY DEF PcLabels
<1> QED BY <1>1, <1>2, NoneAssumption DEF TypeOK, CoroutineTypes, Release, Goto, Proc

(* So does one that takes the loop, or keeps it, with a task in hand. *)
LEMMA HoldType ==
    ASSUME TypeOK, NEW p \in Proc, loop \in {p, None}, loop' = p,
           NEW label \in PcLabels \ {"idle"}, Goto(p, label),
           NEW t \in Task, job' = [job EXCEPT ![p] = t],
           seen' \in [Proc -> [status : Status, attempt : Nat]],
           outcome' \in [Proc -> Terminal \cup {"absent"}]
    PROVE  CoroutineTypes'
<1>1. /\ pc' \in [Proc -> PcLabels] /\ job' \in [Proc -> Task \cup {None}]
      /\ loop' \in Proc \cup {None}
  BY DEF TypeOK, Goto
<1>2. pc'[p] = label /\ job'[p] = t /\ t # None
  BY NoneAssumption DEF TypeOK, Goto
<1>3. ASSUME NEW q \in Proc, q # p
      PROVE  /\ pc'[q] = "idle" <=> job'[q] = None
             /\ pc'[q] \in {"idle", "run"}
  <2>1. pc'[q] = pc[q] /\ job'[q] = job[q] BY <1>3 DEF TypeOK, Goto
  <2>2. loop # q BY <1>3, NoneAssumption DEF Proc
  <2>3. /\ pc[q] = "idle" <=> job[q] = None
        /\ pc[q] \in {"idle", "run"}
    BY <2>2 DEF TypeOK
  <2> QED BY <2>1, <2>3
<1> QED BY <1>1, <1>2, <1>3 DEF CoroutineTypes

(* enqueue and the enqueue loop of a sweep keep the queue one of task ids. *)
LEMMA EnqueueType ==
    ASSUME TypeOK, NEW t \in Task, Enqueue(t)
    PROVE  queue' \in Seq(Task) /\ enqueued' \subseteq Task
<1>1. queue \in Seq(Task) /\ enqueued \subseteq Task BY DEF TypeOK
<1>2. CASE t \in enqueued BY <1>1, <1>2 DEF Enqueue, memVars
<1>3. CASE t \notin enqueued BY <1>1, <1>3, AppendElements DEF Enqueue
<1> QED BY <1>2, <1>3

LEMMA EnqueueAllType ==
    ASSUME TypeOK, NEW ts \in SUBSET Task, EnqueueAll(ts)
    PROVE  queue' \in Seq(Task) /\ enqueued' \subseteq Task
<1>1. PICK s \in SetToSeqs(ts \ enqueued) :
        queue' = queue \o s /\ enqueued' = enqueued \cup ts
  BY DEF EnqueueAll
<1>2. s \in Seq(Task) BY BatchElements, TaskAssumption
<1> QED BY <1>1, <1>2, ConcatElements DEF TypeOK

(* A rehydrated task has a fresh id and a natural max_retries. *)
LEMMA RehydrationsType ==
    ASSUME NEW es, NEW new \in Rehydrations(es)
    PROVE  /\ \A t \in DOMAIN new : new[t] \in Nat
           /\ \A t \in DOMAIN new : t \in Task /\ Fresh(t)
<1> DEFINE Good(ts) == /\ \A t \in ts : Fresh(t) /\ EventOf[t] \in es
                       /\ \A e \in es : \E t \in ts :
                             \A u \in ts : EventOf[u] = e <=> u = t
<1>1. PICK ts \in SUBSET Task :
        Good(ts) /\ new \in [ts -> ClientMax \cup {MaxAutoRetries}]
  <2> HIDE DEF Fresh
  <2> QED BY DEF Rehydrations
<1>2. ClientMax \cup {MaxAutoRetries} \subseteq Nat
  BY ClientMaxAssumption, MaxAutoRetriesAssumption
<1>3. \A t \in ts : Fresh(t) BY <1>1
<1> HIDE DEF Good
<1> QED BY <1>1, <1>2, <1>3

(* The tables a sweep leaves, whatever orphans it could make tasks of. *)
LEMMA SweptTableType ==
    ASSUME NEW table \in [Task -> Row], NEW es, NEW new \in Rehydrations(es),
           NEW auto \in BOOLEAN
    PROVE  /\ SweptTable(table, new, auto) \in [Task -> Row]
           /\ HalfSweptTable(table, new, auto) \in [Task -> Row]
<1>1. \A t \in DOMAIN new : new[t] \in Nat BY RehydrationsType
<1>2. \A t \in Task : /\ Swept(table[t], auto) \in Row
                      /\ HalfSwept(table[t], auto) \in Row
  BY SweptType, HalfSweptType
<1> QED BY <1>1, <1>2, NewRowType DEF SweptTable, HalfSweptTable

(* The row a coroutine is busy with. *)
LEMMA JobType ==
    ASSUME TypeOK, NEW p \in Proc, pc[p] # "idle"
    PROVE  job[p] \in Task /\ tasks[job[p]] \in Row
BY DEF TypeOK

LEMMA TypeInit == Init => TypeOK
<1> SUFFICES ASSUME Init PROVE TypeOK OBVIOUS
<1>1. NoRow \in Row BY DEF NoRow, Row, Status, ErrorClass
<1>2. NotSeen \in [status : Status, attempt : Nat] BY DEF NotSeen, Status
<1> QED BY <1>1, <1>2 DEF Init, TypeOK, PcLabels

(* Ingress keeps the types: the event, then the task of a delivery. *)
LEMMA TypeIngress ==
    ASSUME TypeOK, NEW h \in Handler, Ingress(h)
    PROVE  TypeOK'
<1> h \in Proc /\ h # None BY NoneAssumption DEF Proc
<1>1. ASSUME NEW e \in Event, ReceiveWebhook(h, e) PROVE TypeOK'
  <2>1. PICK t \in Task : job' = [job EXCEPT ![h] = t]
    BY <1>1 DEF ReceiveWebhook
  <2>2. events' \in [Event -> {"absent", "received", "processed"}]
    BY <1>1 DEF TypeOK, ReceiveWebhook
  <2>3. pending' \in [Task -> Row] \cup {None}
    BY <1>1 DEF TypeOK, ReceiveWebhook
  <2>4. CoroutineTypes'
    <3>1. "insert" \in PcLabels \ {"idle"} BY DEF PcLabels
    <3>2. /\ loop = None /\ loop' = h /\ Goto(h, "insert")
          /\ UNCHANGED <<seen, outcome>>
      BY <1>1 DEF ReceiveWebhook, LoopFree
    <3> QED BY <2>1, <3>1, <3>2, HoldType DEF TypeOK
  <2>5. UNCHANGED <<tasks, executions, up, memVars, histVars>>
    BY <1>1 DEF ReceiveWebhook
  <2> QED BY <2>2, <2>3, <2>4, <2>5 DEF TypeOK, CoroutineTypes, memVars, histVars
<1>2. ASSUME AcceptWebhook(h) PROVE TypeOK'
  <2>1. job[h] \in Task BY <1>2, JobType DEF AcceptWebhook
  <2>2. queue' \in Seq(Task) /\ enqueued' \subseteq Task
    BY <1>2, <2>1, EnqueueType DEF AcceptWebhook
  <2>3. tasks' \in [Task -> Row]
    <3>1. PICK m \in ClientMax : tasks' = [tasks EXCEPT ![job[h]] = NewRow(m)]
      BY <1>2 DEF AcceptWebhook
    <3>2. NewRow(m) \in Row BY NewRowType, ClientMaxAssumption
    <3> QED BY <3>1, <3>2 DEF TypeOK
  <2>4. loop = h BY <1>2 DEF TypeOK, AcceptWebhook
  <2>5. CoroutineTypes'
    BY <1>2, <2>4 DEF TypeOK, CoroutineTypes, AcceptWebhook, Goto, PcLabels
  <2> QED BY <1>2, <2>2, <2>3, <2>5
          DEF TypeOK, CoroutineTypes, AcceptWebhook, histVars
<1>3. ASSUME AcceptSyncWebhook(h) PROVE TypeOK'
  <2>1. job[h] \in Task BY <1>3, JobType DEF AcceptSyncWebhook
  <2>2. tasks' \in [Task -> Row]
    <3>1. PICK m \in ClientMax : tasks' = [tasks EXCEPT ![job[h]] = NewRow(m)]
      BY <1>3 DEF AcceptSyncWebhook
    <3>2. NewRow(m) \in Row BY NewRowType, ClientMaxAssumption
    <3> QED BY <3>1, <3>2 DEF TypeOK
  <2> QED BY <1>3, <2>2
          DEF TypeOK, AcceptSyncWebhook, Goto, memVars, histVars, PcLabels
<1> QED BY <1>1, <1>2, <1>3 DEF Ingress

(* Taking and executing a task keeps the types. *)
LEMMA TypeTake ==
    ASSUME TypeOK, NEW w \in Worker, TakeTask(w)
    PROVE  TypeOK'
<1> w \in Proc /\ w # None BY NoneAssumption DEF Proc
<1>1. queue \in Seq(Task) /\ queue # <<>> BY DEF TypeOK, TakeTask
<1>2. Head(queue) \in Task /\ Tail(queue) \in Seq(Task)
  BY <1>1, TailElements
<1>3. Head(queue) # None BY <1>2, NoneAssumption
<1>4. CoroutineTypes'
  <2>1. "load" \in PcLabels \ {"idle"} BY DEF PcLabels
  <2>2. /\ loop = None /\ loop' = w /\ Goto(w, "load")
        /\ job' = [job EXCEPT ![w] = Head(queue)]
        /\ UNCHANGED <<seen, outcome>>
    BY DEF TakeTask, LoopFree
  <2> QED BY <1>2, <2>1, <2>2, HoldType DEF TypeOK
<1>5. queue' = Tail(queue) /\ UNCHANGED <<dbVars, up, enqueued, histVars>>
  BY DEF TakeTask
<1> QED BY <1>2, <1>4, <1>5 DEF TypeOK, CoroutineTypes, dbVars, histVars

LEMMA TypeExecute ==
    ASSUME TypeOK, NEW p \in Proc, Execute(p)
    PROVE  TypeOK'
<1> p # None BY NoneAssumption DEF Proc
<1>1. ASSUME LoadTask(p) PROVE TypeOK'
  <2>1. loop = p BY <1>1 DEF TypeOK, LoadTask
  <2>2. job[p] \in Task /\ tasks[job[p]] \in Row
    BY <1>1, JobType DEF LoadTask
  <2>3. CASE Release(p)
    <3>1. CoroutineTypes' /\ enqueued' \subseteq Task BY <2>1, <2>3, ReleaseType
    <3>2. UNCHANGED <<dbVars, up, queue, histVars>> BY <1>1 DEF LoadTask
    <3> QED BY <3>1, <3>2 DEF TypeOK, CoroutineTypes, dbVars, histVars
  <2>4. CASE ~Release(p)
    <3>1. [status |-> tasks[job[p]].status, attempt |-> tasks[job[p]].retry + 1]
            \in [status : Status, attempt : Nat]
      BY <2>2 DEF Row
    <3>2. CoroutineTypes'
      <4>1. "cas" \in PcLabels \ {"idle"} BY DEF PcLabels
      <4>2. /\ Goto(p, "cas") /\ UNCHANGED <<loop, job, outcome>>
            /\ seen' = [seen EXCEPT ![p] = [status |-> tasks[job[p]].status,
                                           attempt |-> tasks[job[p]].retry + 1]]
        BY <1>1, <2>4 DEF LoadTask
      <4>3. job' = [job EXCEPT ![p] = job[p]] BY <4>2 DEF TypeOK
      <4> QED BY <2>1, <2>2, <3>1, <4>1, <4>2, <4>3, HoldType DEF TypeOK
    <3>3. UNCHANGED <<dbVars, up, queue, enqueued, histVars>>
      BY <1>1, <2>4 DEF LoadTask
    <3> QED BY <3>2, <3>3 DEF TypeOK, CoroutineTypes, dbVars, histVars
  <2> QED BY <2>3, <2>4
<1>2. ASSUME StartTask(p) PROVE TypeOK'
  <2>1. loop = p BY <1>2 DEF TypeOK, StartTask
  <2>2. job[p] \in Task /\ tasks[job[p]] \in Row
    BY <1>2, JobType DEF StartTask
  <2>3. CASE tasks[job[p]].status = seen[p].status
    <3>1. tasks' \in [Task -> Row]
      BY <1>2, <2>2, <2>3, StartedType DEF TypeOK, StartTask
    <3> QED BY <1>2, <2>1, <2>3, <3>1 DEF TypeOK, StartTask, Goto, histVars, PcLabels
  <2>4. CASE tasks[job[p]].status # seen[p].status
    <3>1. Release(p) /\ UNCHANGED tasks
      BY <1>2, <2>4 DEF StartTask
    <3>2. CoroutineTypes' /\ enqueued' \subseteq Task BY <2>1, <3>1, ReleaseType
    <3>3. pending' = None /\ UNCHANGED <<events, executions, up, queue, histVars>>
      BY <1>2 DEF StartTask
    <3> QED BY <3>1, <3>2, <3>3 DEF TypeOK, CoroutineTypes, histVars
  <2> QED BY <2>3, <2>4
<1>3. ASSUME StartError(p) PROVE TypeOK'
  <2>1. loop = p BY <1>3 DEF TypeOK, StartError
  <2>2. Release(p) /\ faults' = faults + 1 /\ UNCHANGED <<dbVars, up, queue, reruns>>
    BY <1>3 DEF StartError
  <2>3. CoroutineTypes' /\ enqueued' \subseteq Task BY <2>1, <2>2, ReleaseType
  <2> QED BY <2>2, <2>3 DEF TypeOK, CoroutineTypes, dbVars
<1>4. ASSUME FinishTask(p) PROVE TypeOK'
  <2>1. job[p] \in Task /\ tasks[job[p]] \in Row
    BY <1>4, JobType DEF FinishTask
  <2>2. PICK o \in Outcomes :
          /\ tasks' = [tasks EXCEPT ![job[p]] = Settled(@, o[1], o[2])]
          /\ outcome' = [outcome EXCEPT ![p] = o[1]]
    BY <1>4 DEF FinishTask
  <2>3. o[1] \in Terminal /\ o[2] \in ErrorClass
    BY DEF Outcomes, Terminal, ErrorClass
  <2>4. tasks' \in [Task -> Row] BY <2>1, <2>2, <2>3, SettledType DEF TypeOK
  <2>5. CoroutineTypes'
    <3>1. "mark" \in PcLabels \ {"idle"} BY DEF PcLabels
    <3>2. /\ loop = None /\ loop' = p /\ Goto(p, "mark")
          /\ UNCHANGED <<job, seen>>
      BY <1>4 DEF FinishTask, LoopFree
    <3>3. job' = [job EXCEPT ![p] = job[p]] BY <3>2 DEF TypeOK
    <3> QED BY <2>1, <2>2, <2>3, <3>1, <3>2, <3>3, HoldType DEF TypeOK
  <2>6. /\ pending' = None
        /\ UNCHANGED <<events, executions, up, memVars, histVars>>
    BY <1>4 DEF FinishTask
  <2> QED BY <2>4, <2>5, <2>6 DEF TypeOK, CoroutineTypes, memVars, histVars
<1>5. ASSUME FinishError(p) PROVE TypeOK'
  <2>1. loop = None BY <1>5 DEF FinishError, LoopFree
  <2>2. /\ Release(p) /\ faults' = faults + 1 /\ pending' = None
        /\ UNCHANGED <<events, tasks, executions, up, queue, reruns>>
    BY <1>5 DEF FinishError
  <2>3. CoroutineTypes' /\ enqueued' \subseteq Task BY <2>1, <2>2, ReleaseType
  <2> QED BY <2>2, <2>3 DEF TypeOK, CoroutineTypes
<1>6. ASSUME MarkEvent(p) PROVE TypeOK'
  <2>1. loop = p BY <1>6 DEF TypeOK, MarkEvent
  <2>2. events' \in [Event -> {"absent", "received", "processed"}]
    BY <1>6, JobType, TaskAssumption DEF TypeOK, MarkEvent
  <2>3. Release(p) /\ UNCHANGED <<tasks, executions, pending, up, queue, histVars>>
    BY <1>6 DEF MarkEvent
  <2>4. CoroutineTypes' /\ enqueued' \subseteq Task BY <2>1, <2>3, ReleaseType
  <2> QED BY <2>2, <2>3, <2>4 DEF TypeOK, CoroutineTypes, histVars
<1>7. ASSUME RecordExecution(p) PROVE TypeOK'
  <2>1. loop = p /\ job[p] \in Task BY <1>7, JobType DEF TypeOK, RecordExecution
  <2>2. seen[p].attempt \in Nat /\ executions[job[p]] \in Seq(Nat)
    BY <2>1 DEF TypeOK
  <2>3. Append(executions[job[p]], seen[p].attempt) \in Seq(Nat)
    BY <2>2, AppendElements
  <2>4. executions' \in [Task -> Seq(Nat)]
    BY <1>7, <2>3 DEF TypeOK, RecordExecution
  <2> QED BY <1>7, <2>1, <2>4
          DEF TypeOK, RecordExecution, Goto, memVars, histVars, PcLabels
<1>8. ASSUME RecordError(p) PROVE TypeOK'
  <2>1. loop = p /\ job[p] \in Task BY <1>8, JobType DEF TypeOK, RecordError
  <2> QED BY <1>8, <2>1 DEF TypeOK, RecordError, Goto, dbVars, memVars, PcLabels
<1> QED BY <1>1, <1>2, <1>3, <1>4, <1>5, <1>6, <1>7, <1>8 DEF Execute

(* Sweeps, reruns and the passing of time keep the types. *)
LEMMA TypeOperate ==
    ASSUME TypeOK, Operate
    PROVE  TypeOK'
<1>1. ASSUME NEW e \in Event, ReceiveAlert(e) PROVE TypeOK'
  BY <1>1 DEF TypeOK, ReceiveAlert, memVars, procVars, histVars
<1>2. ASSUME NEW auto \in BOOLEAN, Sweep(auto) PROVE TypeOK'
  <2>1. tasks' \in [Task -> Row]
    <3>1. PICK new \in Rehydrations(Orphans) :
            tasks' = SweptTable(tasks, new, auto)
      BY <1>2 DEF Sweep
    <3> QED BY <3>1, SweptTableType DEF TypeOK
  <2>2. queue' \in Seq(Task) /\ enqueued' \subseteq Task
    BY <1>2, EnqueueAllType DEF Sweep, QueuedIn
  <2> QED BY <1>2, <2>1, <2>2 DEF TypeOK, Sweep, procVars, histVars
<1>3. ASSUME NEW auto \in BOOLEAN, AbortSweep(auto) PROVE TypeOK'
  <2>1. tasks' \in [Task -> Row]
    <3>1. PICK before \in SUBSET (Orphans \ Malformed) :
            \E new \in Rehydrations(before) :
               tasks' = HalfSweptTable(tasks, new, auto)
      BY <1>3 DEF AbortSweep
    <3>2. PICK new \in Rehydrations(before) :
            tasks' = HalfSweptTable(tasks, new, auto)
      BY <3>1
    <3> QED BY <3>2, SweptTableType DEF TypeOK
  <2>2. pending' \in [Task -> Row] \cup {None}
    BY <1>3 DEF TypeOK, AbortSweep, Committed
  <2>3. UNCHANGED <<events, executions, up, memVars, procVars, histVars>>
    BY <1>3 DEF AbortSweep
  <2> QED BY <2>1, <2>2, <2>3 DEF TypeOK, memVars, procVars, histVars
<1>4. ASSUME NEW auto \in BOOLEAN, CliSweep(auto) PROVE TypeOK'
  <2>1. tasks' \in [Task -> Row]
    <3>1. PICK new \in Rehydrations(Orphans) :
            tasks' = SweptTable(tasks, new, auto)
      BY <1>4 DEF CliSweep
    <3> QED BY <3>1, SweptTableType DEF TypeOK
  <2>2. UNCHANGED <<events, executions, pending, up, memVars, procVars, histVars>>
    BY <1>4 DEF CliSweep
  <2> QED BY <2>1, <2>2 DEF TypeOK, memVars, procVars, histVars
<1>5. ASSUME NEW auto \in BOOLEAN, AbortCliSweep(auto) PROVE TypeOK'
  <2>1. tasks' \in [Task -> Row]
    <3>1. PICK before \in SUBSET (Orphans \ Malformed) :
            \E new \in Rehydrations(before) :
               tasks' = HalfSweptTable(tasks, new, auto)
      BY <1>5 DEF AbortCliSweep
    <3>2. PICK new \in Rehydrations(before) :
            tasks' = HalfSweptTable(tasks, new, auto)
      BY <3>1
    <3> QED BY <3>2, SweptTableType DEF TypeOK
  <2>2. UNCHANGED <<events, executions, pending, up, memVars, procVars, histVars>>
    BY <1>5 DEF AbortCliSweep
  <2> QED BY <2>1, <2>2 DEF TypeOK, memVars, procVars, histVars
<1>6. ASSUME NEW t \in Task, RerunTask(t) PROVE TypeOK'
  <2>1. tasks' \in [Task -> Row] /\ reruns' \in [Task -> Nat]
    BY <1>6, RerunType DEF TypeOK, RerunTask
  <2>2. queue' \in Seq(Task) /\ enqueued' \subseteq Task
    BY <1>6, EnqueueType DEF RerunTask
  <2>3. /\ pending' = None
        /\ UNCHANGED <<events, executions, up, procVars, faults>>
    BY <1>6 DEF RerunTask
  <2> QED BY <2>1, <2>2, <2>3 DEF TypeOK, procVars
<1>7. ASSUME NEW t \in Task, CliRerun(t) PROVE TypeOK'
  <2>1. tasks' \in [Task -> Row] /\ reruns' \in [Task -> Nat]
    BY <1>7, RerunType DEF TypeOK, CliRerun
  <2>2. UNCHANGED <<events, executions, pending, up, memVars, procVars, faults>>
    BY <1>7 DEF CliRerun
  <2> QED BY <2>1, <2>2 DEF TypeOK, memVars, procVars
<1>8. ASSUME NEW t \in Task, GrowStale(t) PROVE TypeOK'
  <2>1. tasks' \in [Task -> Row]
    <3>1. tasks[t] \in Row BY DEF TypeOK
    <3>2. PICK row \in Row : row = [tasks[t] EXCEPT !.aged = TRUE] BY <3>1 DEF Row
    <3>3. tasks' = [tasks EXCEPT ![t] = row] BY <1>8, <3>2 DEF GrowStale
    <3> QED BY <3>3 DEF TypeOK
  <2>2. UNCHANGED <<events, executions, pending, up, memVars, procVars, histVars>>
    BY <1>8 DEF GrowStale
  <2> QED BY <2>1, <2>2 DEF TypeOK, memVars, procVars, histVars
<1> QED BY <1>1, <1>2, <1>3, <1>4, <1>5, <1>6, <1>7, <1>8 DEF Operate

(* A crash leaves what was committed; boot recovers, sweeps and enqueues. *)
LEMMA TypeCrash == TypeOK /\ Crash => TypeOK'
<1> SUFFICES ASSUME TypeOK, Crash PROVE TypeOK' OBVIOUS
<1>1. NotSeen \in [status : Status, attempt : Nat] BY DEF NotSeen, Status
<1>2. tasks' \in [Task -> Row] BY DEF TypeOK, Crash, Committed
<1>3. CoroutineTypes' BY <1>1 DEF Crash, CoroutineTypes, PcLabels
<1>4. /\ up' = FALSE /\ pending' = None /\ queue' = <<>> /\ enqueued' = {}
      /\ faults' = faults + 1 /\ UNCHANGED <<events, executions, reruns>>
  BY DEF Crash
<1>5. queue' \in Seq(Task) /\ enqueued' \subseteq Task BY <1>4
<1>6. UNCHANGED <<events, executions, reruns>> BY <1>4
<1>7. up' \in BOOLEAN BY <1>4
<1>8. faults' \in Nat
  <2>1. faults \in Nat /\ faults' = faults + 1 BY <1>4 DEF TypeOK
  <2> QED BY <2>1
<1>9. pending' \in [Task -> Row] \cup {None} BY <1>4
<1> QED BY <1>2, <1>3, <1>5, <1>6, <1>7, <1>8, <1>9 DEF TypeOK, CoroutineTypes

LEMMA TypeBoot == TypeOK /\ (Boot \/ BootWithoutSweep) => TypeOK'
<1> SUFFICES ASSUME TypeOK, Boot \/ BootWithoutSweep PROVE TypeOK' OBVIOUS
<1>1. Recovered \in [Task -> Row]
  BY RecoverOrphanedType DEF TypeOK, Recovered
<1>2. CASE Boot
  <2>1. tasks' \in [Task -> Row] BY <1>1, <1>2, SweptTableType DEF Boot
  <2>2. queue' \in Seq(Task) /\ enqueued' \subseteq Task
    BY <1>2, EnqueueAllType DEF Boot, QueuedIn
  <2>3. up' = TRUE /\ UNCHANGED <<events, executions, pending, procVars, histVars>>
    BY <1>2 DEF Boot
  <2> QED BY <2>1, <2>2, <2>3 DEF TypeOK, procVars, histVars
<1>3. CASE BootWithoutSweep
  <2>1. tasks' \in [Task -> Row]
    BY <1>1, <1>3, SweptTableType DEF BootWithoutSweep
  <2>2. queue' \in Seq(Task) /\ enqueued' \subseteq Task
    BY <1>3, EnqueueAllType DEF BootWithoutSweep, QueuedIn
  <2>3. pending' \in [Task -> Row] \cup {None}
    BY <1>1, <1>3 DEF BootWithoutSweep
  <2>4. up' = TRUE /\ UNCHANGED <<events, executions, procVars, histVars>>
    BY <1>3 DEF BootWithoutSweep
  <2> QED BY <2>1, <2>2, <2>3, <2>4 DEF TypeOK, procVars, histVars
<1> QED BY <1>2, <1>3

LEMMA TypeNext == TypeOK /\ [Next]_vars => TypeOK'
<1> SUFFICES ASSUME TypeOK, [Next]_vars PROVE TypeOK' OBVIOUS
<1>1. CASE WriteLog
  BY <1>1 DEF TypeOK, WriteLog, memVars, procVars, histVars
<1>2. CASE UNCHANGED vars
  BY <1>2 DEF TypeOK, vars, dbVars, memVars, procVars, histVars
<1>3. CASE CreateTask
  <2>1. /\ pending' = Committed /\ faults' = faults + 1
        /\ UNCHANGED <<events, tasks, executions, up, memVars, procVars, reruns>>
    BY <1>3 DEF CreateTask
  <2>2. pending' \in [Task -> Row] \cup {None} BY <2>1 DEF TypeOK, Committed
  <2>3. faults' \in Nat
    <3>1. faults \in Nat BY DEF TypeOK
    <3> QED BY <2>1, <3>1
  <2> QED BY <2>1, <2>2, <2>3 DEF TypeOK, memVars, procVars
<1> QED BY <1>1, <1>2, <1>3, TypeIngress, TypeTake, TypeExecute, TypeOperate,
           TypeCrash, TypeBoot DEF Next

(* Every reachable state is well typed, an idle coroutine holds no task, and
   between two turns of the event loop every busy coroutine is in an action. *)
THEOREM TypeCorrect == Spec => []TypeOK
<1>1. Init => TypeOK BY TypeInit
<1>2. TypeOK /\ [Next]_vars => TypeOK' BY TypeNext
<1> QED BY <1>1, <1>2, PTL DEF Spec

----------------------------------------------------------------------------
(* The queue: the duplicate guard of the dispatcher is exact and a task is
   only started from 'queued'. None of the three properties is inductive alone.
   An id is safe to hand to a worker because its row is 'queued' from the moment
   it enters the queue to the worker's compare-and-swap, over the
   suspension-free steps between them; and a handler that runs a task itself
   must not meet an id of the queue on the way. *)

\* Between queue.get and get_task the row is still 'queued'.
JobsQueued == \A p \in Proc : pc[p] = "load" => tasks[job[p]].status = "queued"

\* The id a handler drew is in nobody's queue until it enqueues it itself.
HandlersApart ==
    \A h \in Handler :
        pc[h] \in {"insert", "load", "cas", "record"} => job[h] \notin enqueued

QueueInv ==
    /\ QueueIntegrity /\ WorkersExclusive /\ StartsFromQueued
    /\ JobsQueued /\ HandlersApart
    /\ up \/ loop = None

----------------------------------------------------------------------------
(* What a step does to the rows that wait *)

\* No step but a compare-and-swap takes a row out of 'queued'.
KeepsQueued(table, next) ==
    \A t \in Task : table[t].status = "queued" => next[t].status = "queued"

(* A sweep leaves queued rows queued: its fresh ids have no row. *)
LEMMA SweepKeepsQueued ==
    ASSUME TypeOK, NEW es, NEW new \in Rehydrations(es), NEW auto \in BOOLEAN
    PROVE  /\ KeepsQueued(tasks, SweptTable(tasks, new, auto))
           /\ KeepsQueued(tasks, HalfSweptTable(tasks, new, auto))
           /\ KeepsQueued(tasks, SweptTable(Recovered, new, auto))
           /\ KeepsQueued(tasks, HalfSweptTable(Recovered, new, auto))
<1>1. ASSUME NEW t \in Task, tasks[t].status = "queued" PROVE t \notin DOMAIN new
  <2>1. SUFFICES ASSUME t \in DOMAIN new PROVE FALSE OBVIOUS
  <2>2. Fresh(t) BY <2>1, RehydrationsType
  <2> QED BY <1>1, <2>2 DEF Fresh
<1>2. ASSUME NEW t \in Task, tasks[t].status = "queued"
      PROVE  /\ Recovered[t] = tasks[t] /\ tasks[t] \in Row
             /\ Swept(tasks[t], auto).status = "queued"
             /\ HalfSwept(tasks[t], auto).status = "queued"
  <2>1. tasks[t] \in Row BY DEF TypeOK
  <2>2. Recovered[t] = tasks[t] BY <1>2, <2>1, RecoverOrphanedType DEF Recovered
  <2> QED BY <1>2, <2>1, <2>2, SweptType, HalfSweptType
<1> QED BY <1>1, <1>2 DEF KeepsQueued, SweptTable, HalfSweptTable

----------------------------------------------------------------------------
(* What a step does to the queue *)

LEMMA QueueAsElements ==
    /\ Queued = Elements(queue)
    /\ QueueIntegrity <=> /\ Distinct(queue)
                          /\ Elements(queue) \cap Held = {}
                          /\ enqueued = Elements(queue) \cup Held
BY DEF Queued, Elements, QueueIntegrity, Distinct

(* enqueue and the enqueue loop of a sweep keep the guard exact: only ids the
   set did not know are appended, and each of them once. *)
LEMMA EnqueueExact ==
    ASSUME TypeOK, QueueIntegrity, NEW t \in Task, Enqueue(t), Held' = Held
    PROVE  /\ QueueIntegrity'
           /\ Queued' \subseteq Queued \cup {t}
           /\ enqueued' = enqueued \cup {t}
<1>1. queue \in Seq(Task) BY DEF TypeOK
<1>2. /\ Queued' = Elements(queue')
      /\ /\ Distinct(queue') /\ Elements(queue') \cap Held' = {}
         /\ enqueued' = Elements(queue') \cup Held'
         => QueueIntegrity'
  BY DEF Queued, Elements, QueueIntegrity, Distinct
<1>3. CASE t \in enqueued
  <2>1. queue' = queue /\ enqueued' = enqueued BY <1>3 DEF Enqueue, memVars
  <2> QED BY <1>2, <1>3, <2>1, QueueAsElements
<1>4. CASE t \notin enqueued
  <2>1. queue' = Append(queue, t) /\ enqueued' = enqueued \cup {t}
    BY <1>4 DEF Enqueue
  <2>2. t \notin Elements(queue) /\ t \notin Held BY <1>4, QueueAsElements
  <2>3. /\ Elements(queue') = Elements(queue) \cup {t}
        /\ Distinct(queue')
    BY <1>1, <2>1, <2>2, AppendElements, QueueAsElements
  <2> QED BY <1>2, <2>1, <2>2, <2>3, QueueAsElements
<1> QED BY <1>3, <1>4

LEMMA EnqueueAllExact ==
    ASSUME TypeOK, QueueIntegrity, NEW ts \in SUBSET Task, EnqueueAll(ts),
           Held' = Held
    PROVE  /\ QueueIntegrity'
           /\ Queued' \subseteq Queued \cup ts
<1>1. queue \in Seq(Task) BY DEF TypeOK
<1>2. /\ Queued' = Elements(queue')
      /\ /\ Distinct(queue') /\ Elements(queue') \cap Held' = {}
         /\ enqueued' = Elements(queue') \cup Held'
         => QueueIntegrity'
  BY DEF Queued, Elements, QueueIntegrity, Distinct
<1>3. PICK s \in SetToSeqs(ts \ enqueued) :
        queue' = queue \o s /\ enqueued' = enqueued \cup ts
  BY DEF EnqueueAll
<1>4. s \in Seq(Task) /\ Elements(s) = ts \ enqueued /\ Distinct(s)
  BY BatchElements, TaskAssumption
<1>5. /\ Elements(s) \cap Elements(queue) = {}
      /\ Elements(s) \cap Held = {}
  BY <1>4, QueueAsElements
<1>6. /\ Elements(queue') = Elements(queue) \cup Elements(s)
      /\ Distinct(queue')
  BY <1>1, <1>3, <1>4, <1>5, ConcatElements, QueueAsElements
<1> QED BY <1>2, <1>3, <1>4, <1>5, <1>6, QueueAsElements

----------------------------------------------------------------------------
(* Steps that leave the coroutines alone *)

LEMMA QueuedRows ==
    ASSUME TypeOK, QueueInv, NEW t \in Queued
    PROVE  t \in Task /\ tasks[t].status = "queued"
<1>1. PICK i \in 1..Len(queue) : t = queue[i] BY DEF Queued
<1>2. queue \in Seq(Task) BY DEF TypeOK
<1> QED BY <1>1, <1>2 DEF QueueInv, StartsFromQueued

(* Between two turns of the loop, or within one, the other coroutines are idle
   or inside an action. *)
LEMMA OthersWait ==
    ASSUME TypeOK, NEW p \in Proc, loop \in {p, None}, NEW q \in Proc, q # p
    PROVE  pc[q] \in {"idle", "run"}
<1>1. loop # q BY NoneAssumption DEF Proc
<1> QED BY <1>1 DEF TypeOK

(* A step of the table alone: the command line tool, a stale row, a sweep that
   fails. *)
LEMMA TableStep ==
    ASSUME QueueInv, KeepsQueued(tasks, tasks'), UNCHANGED <<memVars, procVars, up>>,
           TypeOK
    PROVE  QueueInv'
<1>1. /\ UNCHANGED <<queue, enqueued>>
      /\ UNCHANGED <<loop, pc, job, seen, up>>
  BY DEF memVars, procVars
<1>2. QueueIntegrity' /\ WorkersExclusive' /\ HandlersApart' /\ (up \/ loop = None)'
  BY <1>1 DEF QueueInv, QueueIntegrity, WorkersExclusive, HandlersApart, Queued, Held
<1>3. StartsFromQueued'
  <2>1. Queued \subseteq Task BY DEF TypeOK, Queued
  <2> QED BY <1>1, <2>1 DEF QueueInv, StartsFromQueued, KeepsQueued, Queued
<1>4. JobsQueued'
  BY <1>1, JobType DEF QueueInv, JobsQueued, KeepsQueued
<1> QED BY <1>2, <1>3, <1>4 DEF QueueInv

(* A sweep that ends enqueues what waits in the table it leaves. *)
LEMMA SweepStep ==
    ASSUME TypeOK, QueueInv, loop = None, KeepsQueued(tasks, tasks'),
           EnqueueAll(QueuedIn(tasks')), UNCHANGED procVars
    PROVE  QueueInv'
<1>1. UNCHANGED <<loop, pc, job, seen>> BY DEF procVars
<1>2. Held' = Held BY <1>1 DEF Held
<1>3. QueuedIn(tasks') \in SUBSET Task BY DEF QueuedIn
<1>4. QueueIntegrity' /\ Queued' \subseteq Queued \cup QueuedIn(tasks')
  BY <1>2, <1>3, EnqueueAllExact DEF QueueInv
<1>5. \A p \in Proc : pc'[p] \in {"idle", "run"}
  BY <1>1, NoneAssumption DEF TypeOK, Proc
<1>6. StartsFromQueued'
  <2>1. \A t \in Queued : t \in Task /\ tasks[t].status = "queued" BY QueuedRows
  <2>2. \A t \in Queued' : tasks'[t].status = "queued"
    BY <1>4, <2>1 DEF KeepsQueued, QueuedIn
  <2> QED BY <1>5, <2>2 DEF StartsFromQueued
<1>7. WorkersExclusive' BY <1>1 DEF QueueInv, WorkersExclusive
<1>8. JobsQueued' /\ HandlersApart'
  BY <1>5 DEF JobsQueued, HandlersApart, Proc
<1> QED BY <1>1, <1>4, <1>6, <1>7, <1>8 DEF QueueInv

LEMMA QueueOperate ==
    ASSUME TypeOK, QueueInv, Operate
    PROVE  QueueInv'
<1>1. ASSUME NEW e \in Event, ReceiveAlert(e) PROVE QueueInv'
  <2>1. KeepsQueued(tasks, tasks') BY <1>1 DEF ReceiveAlert, KeepsQueued
  <2> QED BY <1>1, <2>1, TableStep DEF ReceiveAlert
<1>2. ASSUME NEW auto \in BOOLEAN, Sweep(auto) PROVE QueueInv'
  <2>1. PICK new \in Rehydrations(Orphans) : tasks' = SweptTable(tasks, new, auto)
    BY <1>2 DEF Sweep
  <2>2. KeepsQueued(tasks, tasks') BY <2>1, SweepKeepsQueued
  <2> QED BY <1>2, <2>2, SweepStep DEF Sweep, LoopFree
<1>3. ASSUME NEW auto \in BOOLEAN, AbortSweep(auto) PROVE QueueInv'
  <2>1. PICK before \in SUBSET (Orphans \ Malformed) :
          \E new \in Rehydrations(before) :
             tasks' = HalfSweptTable(tasks, new, auto)
    BY <1>3 DEF AbortSweep
  <2>2. PICK new \in Rehydrations(before) :
          tasks' = HalfSweptTable(tasks, new, auto)
    BY <2>1
  <2>3. KeepsQueued(tasks, tasks') BY <2>2, SweepKeepsQueued
  <2> QED BY <1>3, <2>3, TableStep DEF AbortSweep
<1>4. ASSUME NEW auto \in BOOLEAN, CliSweep(auto) PROVE QueueInv'
  <2>1. PICK new \in Rehydrations(Orphans) : tasks' = SweptTable(tasks, new, auto)
    BY <1>4 DEF CliSweep
  <2>2. KeepsQueued(tasks, tasks') BY <2>1, SweepKeepsQueued
  <2> QED BY <1>4, <2>2, TableStep DEF CliSweep
<1>5. ASSUME NEW auto \in BOOLEAN, AbortCliSweep(auto) PROVE QueueInv'
  <2>1. PICK before \in SUBSET (Orphans \ Malformed) :
          \E new \in Rehydrations(before) :
             tasks' = HalfSweptTable(tasks, new, auto)
    BY <1>5 DEF AbortCliSweep
  <2>2. PICK new \in Rehydrations(before) :
          tasks' = HalfSweptTable(tasks, new, auto)
    BY <2>1
  <2>3. KeepsQueued(tasks, tasks') BY <2>2, SweepKeepsQueued
  <2> QED BY <1>5, <2>3, TableStep DEF AbortCliSweep
<1>6. ASSUME NEW t \in Task,
             tasks' = [tasks EXCEPT ![t] = Rerun(@)]
      PROVE  KeepsQueued(tasks, tasks') /\ tasks'[t].status = "queued"
  BY <1>6, RerunType DEF TypeOK, KeepsQueued
<1>7. ASSUME NEW t \in Task, RerunTask(t) PROVE QueueInv'
  <2>1. KeepsQueued(tasks, tasks') /\ tasks'[t].status = "queued"
    BY <1>6, <1>7 DEF RerunTask
  <2>2. UNCHANGED <<loop, pc, job, seen, up>> /\ loop = None
    BY <1>7 DEF RerunTask, procVars, LoopFree
  <2>3. Held' = Held BY <2>2 DEF Held
  <2>4. QueueIntegrity' /\ Queued' \subseteq Queued \cup {t}
    BY <1>7, <2>3, EnqueueExact DEF QueueInv, RerunTask
  <2>5. \A p \in Proc : pc'[p] \in {"idle", "run"}
    BY <2>2, NoneAssumption DEF TypeOK, Proc
  <2>6. StartsFromQueued'
    <3>1. \A u \in Queued : u \in Task /\ tasks[u].status = "queued" BY QueuedRows
    <3>2. \A u \in Queued' : tasks'[u].status = "queued"
      BY <2>1, <2>4, <3>1 DEF KeepsQueued
    <3> QED BY <2>5, <3>2 DEF StartsFromQueued
  <2>7. WorkersExclusive' BY <2>2 DEF QueueInv, WorkersExclusive
  <2>8. JobsQueued' /\ HandlersApart'
    BY <2>5 DEF JobsQueued, HandlersApart, Proc
  <2> QED BY <2>2, <2>4, <2>6, <2>7, <2>8 DEF QueueInv
<1>8. ASSUME NEW t \in Task, CliRerun(t) PROVE QueueInv'
  BY <1>6, <1>8, TableStep DEF CliRerun
<1>9. ASSUME NEW t \in Task, GrowStale(t) PROVE QueueInv'
  <2>1. KeepsQueued(tasks, tasks') BY <1>9 DEF TypeOK, GrowStale, KeepsQueued, Row
  <2> QED BY <1>9, <2>1, TableStep DEF GrowStale
<1> QED BY <1>1, <1>2, <1>3, <1>4, <1>5, <1>7, <1>8, <1>9 DEF Operate

----------------------------------------------------------------------------
(* Steps of a coroutine *)

(* An id between queue.get and the compare-and-swap is not in the queue: a
   worker holds it, or a handler drew it. *)
LEMMA JobNotQueued ==
    ASSUME TypeOK, QueueInv, NEW p \in Proc, pc[p] \in {"load", "cas", "record"}
    PROVE  job[p] \notin Queued
<1>1. CASE p \in Worker
  <2>1. job[p] \in Held BY <1>1 DEF Held
  <2> QED BY <2>1 DEF QueueInv, QueueIntegrity
<1>2. CASE p \in Handler
  BY <1>2 DEF QueueInv, QueueIntegrity, HandlersApart
<1> QED BY <1>1, <1>2 DEF Proc

(* The finally clause gives up one id, which nobody else holds. *)
LEMMA ReleaseStep ==
    ASSUME TypeOK, QueueInv, NEW p \in Proc, loop \in {p, None}, up,
           pc[p] # "idle", Release(p), UNCHANGED <<queue, up>>,
           \A t \in Queued : tasks'[t].status = "queued"
    PROVE  QueueInv'
<1>1. /\ pc' = [pc EXCEPT ![p] = "idle"] /\ job' = [job EXCEPT ![p] = None]
      /\ seen' = [seen EXCEPT ![p] = NotSeen] /\ loop' = None
      /\ enqueued' = IF p \in Worker THEN enqueued \ {job[p]} ELSE enqueued
  BY DEF Release, Goto
<1>2. \A q \in Proc : /\ pc'[q] = IF q = p THEN "idle" ELSE pc[q]
                      /\ job'[q] = IF q = p THEN None ELSE job[q]
  BY <1>1 DEF TypeOK
<1>3. \A q \in Proc : pc'[q] \in {"idle", "run"} BY <1>2, OthersWait
<1>4. QueueIntegrity'
  <2>1. CASE p \in Handler
    <3>1. Held' = Held BY <1>2, <2>1, ProcAssumption DEF Held, Proc
    <3>2. enqueued' = enqueued BY <1>1, <2>1, ProcAssumption
    <3> QED BY <3>1, <3>2 DEF QueueInv, QueueIntegrity, Queued
  <2>2. CASE p \in Worker
    <3>1. job[p] \in Held /\ job[p] # None BY <2>2 DEF Held, TypeOK, Proc
    <3>2. Held' = Held \ {job[p]}
      <4>1. \A w \in Worker : w # p => job[w] # job[p]
        BY <2>2, <3>1 DEF QueueInv, WorkersExclusive
      <4> QED BY <1>2, <2>2, <4>1 DEF Held, Proc
    <3>3. enqueued' = enqueued \ {job[p]} BY <1>1, <2>2
    <3> QED BY <3>1, <3>2, <3>3 DEF QueueInv, QueueIntegrity, Queued
  <2> QED BY <2>1, <2>2 DEF Proc
<1>5. WorkersExclusive' BY <1>2 DEF QueueInv, WorkersExclusive, Proc
<1>6. StartsFromQueued' BY <1>3 DEF StartsFromQueued, Queued
<1>7. JobsQueued' /\ HandlersApart'
  BY <1>3 DEF JobsQueued, HandlersApart, Proc
<1> QED BY <1>1, <1>4, <1>5, <1>6, <1>7 DEF QueueInv

(* A coroutine with a task goes on, and the queue does not change. *)
LEMMA GoOnStep ==
    ASSUME TypeOK, QueueInv, NEW p \in Proc, loop \in {p, None}, up,
           pc[p] # "idle", NEW label, label # "idle", Goto(p, label),
           UNCHANGED <<memVars, job, up>>,
           \A q \in Proc : q # p => seen'[q] = seen[q],
           \A t \in Queued : tasks'[t].status = "queued",
           label = "load" => tasks'[job[p]].status = "queued",
           label = "cas" => seen'[p].status = "queued",
           label \in {"insert", "load", "cas", "record"}
              => pc[p] \in {"insert", "load", "cas", "record"}
    PROVE  QueueInv'
<1>1. UNCHANGED <<queue, enqueued, job, up>> BY DEF memVars
<1>2. \A q \in Proc : pc'[q] = IF q = p THEN label ELSE pc[q]
  BY DEF TypeOK, Goto
<1>3. \A q \in Proc : q # p => pc'[q] \in {"idle", "run"}
  BY <1>2, OthersWait
<1>4. Held' = Held BY <1>1, <1>2 DEF Held, Proc
<1>5. QueueIntegrity' /\ WorkersExclusive'
  BY <1>1, <1>4 DEF QueueInv, QueueIntegrity, WorkersExclusive, Queued
<1>6. StartsFromQueued'
  <2>1. Queued' = Queued BY <1>1 DEF Queued
  <2> QED BY <1>2, <1>3, <2>1 DEF StartsFromQueued
<1>7. JobsQueued' BY <1>1, <1>2, <1>3 DEF JobsQueued
<1>8. HandlersApart'
  BY <1>1, <1>2, <1>3 DEF QueueInv, HandlersApart, Proc
<1> QED BY <1>1, <1>5, <1>6, <1>7, <1>8 DEF QueueInv

LEMMA QueueIngress ==
    ASSUME TypeOK, QueueInv, NEW h \in Handler, Ingress(h)
    PROVE  QueueInv'
<1> h \in Proc /\ h # None /\ h \notin Worker
  BY NoneAssumption, ProcAssumption DEF Proc
<1>1. \A t \in Queued : t \in Task /\ tasks[t].status = "queued" BY QueuedRows
<1>2. ASSUME pc[h] = "insert" PROVE up /\ loop = h
  BY <1>2 DEF QueueInv, TypeOK
<1>3. ASSUME NEW e \in Event, ReceiveWebhook(h, e) PROVE QueueInv'
  <2>1. PICK t \in Task : Fresh(t) /\ job' = [job EXCEPT ![h] = t]
    BY <1>3 DEF ReceiveWebhook
  <2>2. /\ up /\ loop = None /\ loop' = h /\ pc' = [pc EXCEPT ![h] = "insert"]
        /\ UNCHANGED <<tasks, up, queue, enqueued, seen>>
    BY <1>3 DEF ReceiveWebhook, LoopFree, Goto, memVars
  <2>3. t \notin enqueued
    <3>1. t \notin Queued BY <1>1, <2>1 DEF Fresh
    <3>2. t \notin Held BY <2>1 DEF Fresh, Held, Proc
    <3> QED BY <3>1, <3>2 DEF QueueInv, QueueIntegrity
  <2>4. \A q \in Proc : /\ pc'[q] = IF q = h THEN "insert" ELSE pc[q]
                        /\ job'[q] = IF q = h THEN t ELSE job[q]
    BY <2>1, <2>2 DEF TypeOK
  <2>5. \A q \in Proc : q # h => pc'[q] \in {"idle", "run"}
    BY <2>2, <2>4, OthersWait
  <2>6. Held' = Held BY <2>4 DEF Held, Proc
  <2>7. QueueIntegrity' /\ WorkersExclusive'
    BY <2>2, <2>4, <2>6
       DEF QueueInv, QueueIntegrity, WorkersExclusive, Queued, Proc
  <2>8. StartsFromQueued' /\ JobsQueued'
    BY <1>1, <2>2, <2>4, <2>5 DEF StartsFromQueued, JobsQueued, Queued
  <2>9. HandlersApart'
    BY <2>2, <2>3, <2>4, <2>5 DEF HandlersApart, Proc
  <2> QED BY <2>2, <2>7, <2>8, <2>9 DEF QueueInv
<1>4. ASSUME NEW m \in ClientMax, pc[h] = "insert",
             tasks' = [tasks EXCEPT ![job[h]] = NewRow(m)]
      PROVE  /\ \A t \in Queued : tasks'[t].status = "queued"
             /\ tasks'[job[h]].status = "queued"
  <2>1. job[h] \in Task BY <1>4, JobType
  <2>2. NewRow(m).status = "queued" BY NewRowType, ClientMaxAssumption
  <2> QED BY <1>1, <1>4, <2>1, <2>2 DEF TypeOK
<1>5. ASSUME AcceptWebhook(h) PROVE QueueInv'
  <2>1. /\ \A t \in Queued : tasks'[t].status = "queued"
        /\ tasks'[job[h]].status = "queued"
        /\ job[h] \in Task
    BY <1>4, <1>5, JobType DEF AcceptWebhook
  <2>2. /\ pc' = [pc EXCEPT ![h] = "idle"] /\ job' = [job EXCEPT ![h] = None]
        /\ loop' = None /\ Enqueue(job[h]) /\ UNCHANGED <<up, seen>>
    BY <1>5 DEF AcceptWebhook, Goto
  <2>3. \A q \in Proc : /\ pc'[q] = IF q = h THEN "idle" ELSE pc[q]
                        /\ job'[q] = IF q = h THEN None ELSE job[q]
    BY <2>2 DEF TypeOK
  <2>4. \A q \in Proc : pc'[q] \in {"idle", "run"}
    BY <1>2, <1>5, <2>3, OthersWait DEF AcceptWebhook
  <2>5. Held' = Held BY <2>3 DEF Held, Proc
  <2>6. QueueIntegrity' /\ Queued' \subseteq Queued \cup {job[h]}
    BY <2>1, <2>2, <2>5, EnqueueExact DEF QueueInv
  <2>7. WorkersExclusive' BY <2>3 DEF QueueInv, WorkersExclusive, Proc
  <2>8. StartsFromQueued' BY <2>1, <2>4, <2>6 DEF StartsFromQueued
  <2>9. JobsQueued' /\ HandlersApart'
    BY <2>4 DEF JobsQueued, HandlersApart, Proc
  <2> QED BY <2>2, <2>6, <2>7, <2>8, <2>9 DEF QueueInv
<1>6. ASSUME AcceptSyncWebhook(h) PROVE QueueInv'
  <2>1. /\ \A t \in Queued : tasks'[t].status = "queued"
        /\ tasks'[job[h]].status = "queued"
    BY <1>4, <1>6 DEF AcceptSyncWebhook
  <2>2. /\ pc[h] = "insert" /\ Goto(h, "load")
        /\ UNCHANGED <<memVars, job, up, seen>>
    BY <1>6 DEF AcceptSyncWebhook
  <2> QED BY <1>2, <2>1, <2>2, GoOnStep
<1> QED BY <1>3, <1>5, <1>6 DEF Ingress

LEMMA QueueTake ==
    ASSUME TypeOK, QueueInv, NEW w \in Worker, TakeTask(w)
    PROVE  QueueInv'
<1> DEFINE t == Head(queue)
<1> w \in Proc /\ w # None /\ w \notin Handler
  BY NoneAssumption, ProcAssumption DEF Proc
<1>1. /\ up /\ loop = None /\ pc[w] = "idle" /\ loop' = w
      /\ pc' = [pc EXCEPT ![w] = "load"] /\ job' = [job EXCEPT ![w] = t]
      /\ queue' = Tail(queue) /\ UNCHANGED <<tasks, up, enqueued, seen>>
  BY DEF TakeTask, LoopFree, Goto, dbVars
<1>2. queue \in Seq(Task) /\ queue # <<>> BY DEF TypeOK, TakeTask
<1>3. /\ t \in Task /\ Elements(queue) = Elements(queue') \cup {t}
      /\ Distinct(queue') /\ t \notin Elements(queue')
  BY <1>1, <1>2, TailElements, QueueAsElements DEF QueueInv
<1>4. /\ tasks[t].status = "queued" /\ t \notin Held
      /\ \A u \in Elements(queue') : tasks[u].status = "queued"
  BY <1>3, QueueAsElements DEF QueueInv, QueueIntegrity, StartsFromQueued
<1> HIDE DEF t
<1>5. \A q \in Proc : /\ pc'[q] = IF q = w THEN "load" ELSE pc[q]
                      /\ job'[q] = IF q = w THEN t ELSE job[q]
  BY <1>1 DEF TypeOK
<1>6. \A q \in Proc : q # w => pc'[q] \in {"idle", "run"}
  BY <1>1, <1>5, OthersWait
<1>7. Held' = Held \cup {t} BY <1>1, <1>5 DEF Held, Proc
<1>8. QueueIntegrity'
  <2>1. enqueued' = Elements(queue') \cup Held'
    BY <1>1, <1>3, <1>7, QueueAsElements DEF QueueInv
  <2>2. Elements(queue') \cap Held' = {}
    BY <1>3, <1>7, QueueAsElements DEF QueueInv
  <2> QED BY <1>3, <2>1, <2>2
          DEF QueueIntegrity, Queued, Elements, Distinct
<1>9. WorkersExclusive'
  <2>1. \A v \in Worker : v # w => job[v] # t
    BY <1>3, <1>4, NoneAssumption DEF TypeOK, Held, Proc
  <2> QED BY <1>5, <2>1 DEF QueueInv, WorkersExclusive, Proc
<1>10. StartsFromQueued'
  BY <1>1, <1>4, <1>5, <1>6 DEF StartsFromQueued, Queued, Elements
<1>11. JobsQueued' BY <1>1, <1>4, <1>5, <1>6 DEF JobsQueued
<1>12. HandlersApart' BY <1>6 DEF HandlersApart, Proc
<1> QED BY <1>1, <1>8, <1>9, <1>10, <1>11, <1>12 DEF QueueInv

LEMMA QueueExecute ==
    ASSUME TypeOK, QueueInv, NEW p \in Proc, Execute(p)
    PROVE  QueueInv'
<1> p # None BY NoneAssumption DEF Proc
<1>1. \A t \in Queued : t \in Task /\ tasks[t].status = "queued" BY QueuedRows
<1>2. ASSUME pc[p] \in {"load", "cas", "record", "mark"} PROVE up /\ loop = p
  BY <1>2 DEF QueueInv, TypeOK
<1>3. ASSUME LoadTask(p) PROVE QueueInv'
  <2>1. up /\ loop = p /\ pc[p] = "load" BY <1>2, <1>3 DEF LoadTask
  <2>2. UNCHANGED <<tasks, up, queue>> BY <1>3 DEF LoadTask, dbVars
  <2>3. CASE Release(p) BY <1>1, <2>1, <2>2, <2>3, ReleaseStep
  <2>4. CASE ~Release(p)
    <3>1. /\ Goto(p, "cas") /\ UNCHANGED <<enqueued, job>>
          /\ seen' = [seen EXCEPT ![p] = [status |-> tasks[job[p]].status,
                                         attempt |-> tasks[job[p]].retry + 1]]
      BY <1>3, <2>4 DEF LoadTask
    <3>2. seen'[p].status = "queued" /\ \A q \in Proc : q # p => seen'[q] = seen[q]
      BY <2>1, <3>1 DEF TypeOK, QueueInv, JobsQueued
    <3>3. UNCHANGED <<memVars, job, up>> BY <2>2, <3>1 DEF memVars
    <3>4. \A t \in Queued : tasks'[t].status = "queued" BY <1>1, <2>2
    <3> QED BY <2>1, <3>1, <3>2, <3>3, <3>4, GoOnStep
  <2> QED BY <2>3, <2>4
<1>4. ASSUME StartTask(p) PROVE QueueInv'
  <2>1. up /\ loop = p /\ pc[p] = "cas" BY <1>2, <1>4 DEF StartTask
  <2>2. UNCHANGED <<up, queue>> BY <1>4 DEF StartTask
  <2>3. CASE tasks[job[p]].status = seen[p].status
    <3>1. /\ tasks' = [tasks EXCEPT ![job[p]] = Started(@)]
          /\ Goto(p, "record") /\ UNCHANGED <<enqueued, job, seen>>
      BY <1>4, <2>3 DEF StartTask
    <3>2. job[p] \notin Queued BY <2>1, JobNotQueued
    <3>3. \A t \in Queued : tasks'[t].status = "queued"
      BY <1>1, <3>1, <3>2 DEF TypeOK
    <3>4. UNCHANGED <<memVars, job, up>> BY <2>2, <3>1 DEF memVars
    <3>5. \A q \in Proc : q # p => seen'[q] = seen[q] BY <3>1
    <3> QED BY <2>1, <3>1, <3>3, <3>4, <3>5, GoOnStep
  <2>4. CASE tasks[job[p]].status # seen[p].status
    <3>1. Release(p) /\ UNCHANGED tasks BY <1>4, <2>4 DEF StartTask
    <3> QED BY <1>1, <2>1, <2>2, <3>1, ReleaseStep
  <2> QED BY <2>3, <2>4
<1>5. ASSUME StartError(p) PROVE QueueInv'
  <2>1. up /\ loop = p /\ pc[p] # "idle" BY <1>2, <1>5 DEF StartError
  <2>2. Release(p) /\ UNCHANGED <<tasks, up, queue>>
    BY <1>5 DEF StartError, dbVars
  <2> QED BY <1>1, <2>1, <2>2, ReleaseStep
<1>6. ASSUME FinishTask(p) PROVE QueueInv'
  <2>1. /\ up /\ loop = None /\ pc[p] = "run" /\ Goto(p, "mark")
        /\ UNCHANGED <<memVars, job, up, seen>>
    BY <1>6 DEF FinishTask, LoopFree
  <2>2. PICK o \in Outcomes :
          tasks' = [tasks EXCEPT ![job[p]] = Settled(@, o[1], o[2])]
    BY <1>6 DEF FinishTask
  <2>3. \A t \in Queued : tasks'[t].status = "queued"
    <3>1. SUFFICES ASSUME NEW t \in Queued PROVE tasks'[t].status = "queued"
      OBVIOUS
    <3>2. t \in Task /\ tasks[t].status = "queued" BY <1>1
    <3>3. CASE t = job[p]
      <4>1. tasks'[t] = Settled(tasks[t], o[1], o[2])
        BY <2>2, <3>2, <3>3 DEF TypeOK
      <4>2. Settled(tasks[t], o[1], o[2]) = tasks[t]
        BY <3>2, SettledOnlyRunning
      <4> QED BY <3>2, <4>1, <4>2
    <3>4. CASE t # job[p] BY <2>2, <3>2, <3>4 DEF TypeOK
    <3> QED BY <3>3, <3>4
  <2>4. \A q \in Proc : q # p => seen'[q] = seen[q] BY <2>1
  <2> QED BY <2>1, <2>3, <2>4, GoOnStep
<1>7. ASSUME FinishError(p) PROVE QueueInv'
  <2>1. up /\ loop = None /\ pc[p] # "idle" BY <1>7 DEF FinishError, LoopFree
  <2>2. Release(p) /\ UNCHANGED <<tasks, up, queue>> BY <1>7 DEF FinishError
  <2> QED BY <1>1, <2>1, <2>2, ReleaseStep
<1>8. ASSUME MarkEvent(p) PROVE QueueInv'
  <2>1. up /\ loop = p /\ pc[p] # "idle" BY <1>2, <1>8 DEF MarkEvent
  <2>2. Release(p) /\ UNCHANGED <<tasks, up, queue>> BY <1>8 DEF MarkEvent
  <2> QED BY <1>1, <2>1, <2>2, ReleaseStep
<1>9. ASSUME RecordExecution(p) \/ RecordError(p) PROVE QueueInv'
  <2>1. up /\ loop = p /\ pc[p] # "idle" /\ Goto(p, "run")
    BY <1>2, <1>9 DEF RecordExecution, RecordError
  <2>2. UNCHANGED <<tasks, memVars, job, up, seen>>
    BY <1>9 DEF RecordExecution, RecordError, dbVars
  <2>3. \A t \in Queued : tasks'[t].status = "queued" BY <1>1, <2>2
  <2>4. \A q \in Proc : q # p => seen'[q] = seen[q] BY <2>2
  <2> QED BY <2>1, <2>2, <2>3, <2>4, GoOnStep
<1> QED BY <1>3, <1>4, <1>5, <1>6, <1>7, <1>8, <1>9 DEF Execute

----------------------------------------------------------------------------
(* Crash, boot and the theorems *)

LEMMA QueueCrash == TypeOK /\ QueueInv /\ Crash => QueueInv'
<1> SUFFICES ASSUME Crash PROVE QueueInv' OBVIOUS
<1>1. /\ queue' = <<>> /\ enqueued' = {} /\ loop' = None
      /\ pc' = [p \in Proc |-> "idle"] /\ job' = [p \in Proc |-> None]
  BY DEF Crash
<1>2. \A p \in Proc : pc'[p] = "idle" /\ job'[p] = None BY <1>1
<1>3. Queued' = {} BY <1>1 DEF Queued
<1>4. Held' = {} BY <1>2 DEF Held, Proc
<1>5. QueueIntegrity' BY <1>1, <1>3, <1>4 DEF QueueIntegrity
<1>6. WorkersExclusive' BY <1>2 DEF WorkersExclusive, Proc
<1>7. StartsFromQueued' BY <1>2, <1>3 DEF StartsFromQueued
<1>8. JobsQueued' /\ HandlersApart'
  BY <1>2 DEF JobsQueued, HandlersApart, Proc
<1> QED BY <1>1, <1>5, <1>6, <1>7, <1>8 DEF QueueInv

LEMMA QueueBoot == TypeOK /\ QueueInv /\ (Boot \/ BootWithoutSweep) => QueueInv'
<1> SUFFICES ASSUME TypeOK, QueueInv, Boot \/ BootWithoutSweep PROVE QueueInv'
  OBVIOUS
<1>1. loop = None BY DEF QueueInv, Boot, BootWithoutSweep
<1>2. EnqueueAll(QueuedIn(tasks')) /\ UNCHANGED procVars
  BY DEF Boot, BootWithoutSweep
<1>3. KeepsQueued(tasks, tasks')
  <2>1. CASE Boot
    <3>1. PICK new \in Rehydrations(Orphans) :
            tasks' = SweptTable(Recovered, new, TRUE)
      BY <2>1 DEF Boot
    <3> QED BY <3>1, SweepKeepsQueued
  <2>2. CASE BootWithoutSweep
    <3>1. PICK before \in SUBSET (Orphans \ Malformed) :
            \E new \in Rehydrations(before) :
               tasks' = HalfSweptTable(Recovered, new, TRUE)
      BY <2>2 DEF BootWithoutSweep
    <3>2. PICK new \in Rehydrations(before) :
            tasks' = HalfSweptTable(Recovered, new, TRUE)
      BY <3>1
    <3> QED BY <3>2, SweepKeepsQueued
  <2> QED BY <2>1, <2>2
<1> QED BY <1>1, <1>2, <1>3, SweepStep

LEMMA QueueInit == Init => QueueInv
BY DEF Init, QueueInv, QueueIntegrity, WorkersExclusive, StartsFromQueued,
       JobsQueued, HandlersApart, Queued, Held, Proc

LEMMA QueueNext == TypeOK /\ QueueInv /\ [Next]_vars => QueueInv'
<1> SUFFICES ASSUME TypeOK, QueueInv, [Next]_vars PROVE QueueInv' OBVIOUS
<1>1. CASE WriteLog \/ CreateTask \/ UNCHANGED vars
  <2>1. UNCHANGED <<tasks, memVars, procVars, up>>
    BY <1>1 DEF WriteLog, CreateTask, vars, dbVars
  <2>2. KeepsQueued(tasks, tasks') BY <2>1 DEF KeepsQueued
  <2> QED BY <2>1, <2>2, TableStep
<1> QED BY <1>1, QueueIngress, QueueTake, QueueExecute, QueueOperate,
           QueueCrash, QueueBoot DEF Next

THEOREM QueueInvCorrect == Spec => []QueueInv
<1>1. Init => TypeOK /\ QueueInv BY TypeInit, QueueInit
<1>2. TypeOK /\ QueueInv /\ [Next]_vars => TypeOK' /\ QueueInv'
  BY TypeNext, QueueNext
<1> QED BY <1>1, <1>2, PTL DEF Spec

(* _enqueued_task_ids is always exactly the queue and what the workers hold,
   and the queue has no duplicates: enqueue never drops an id nobody has. *)
THEOREM QueueIntegrityCorrect == Spec => []QueueIntegrity
<1>1. QueueInv => QueueIntegrity BY DEF QueueInv
<1> QED BY <1>1, QueueInvCorrect, PTL

(* Two workers never have the same task. *)
THEOREM WorkersExclusiveCorrect == Spec => []WorkersExclusive
<1>1. QueueInv => WorkersExclusive BY DEF QueueInv
<1> QED BY <1>1, QueueInvCorrect, PTL

(* What waits in the queue is 'queued' in the table, and execute_task's
   compare-and-swap always starts from 'queued'. *)
THEOREM StartsFromQueuedCorrect == Spec => []StartsFromQueued
<1>1. QueueInv => StartsFromQueued BY DEF QueueInv
<1> QED BY <1>1, QueueInvCorrect, PTL
=============================================================================

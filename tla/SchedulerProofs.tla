-------------------------- MODULE SchedulerProofs --------------------------
(***************************************************************************)
(* What is proved of Scheduler for every number of schedules, deliveries,  *)
(* commands and faults, every period and every value of max_runs, numbers  *)
(* or not.                                                                 *)
(*                                                                         *)
(* Structure says what a turn and the tool hold. RunsCounted is inductive  *)
(* beside it. The bound of max_runs counts a run as soon as it is sure to  *)
(* be counted (Limited) and needs that no turn read a total older than the *)
(* operators' commands account for (Fresh); a due time counts as spent     *)
(* when a sweep may still make its task (Spent), and one that was spent is *)
(* past (Past), so a cron expression never comes back to it. Only a        *)
(* schedule whose max_runs is no number is left out of that (Numbered).    *)
(***************************************************************************)
EXTENDS Scheduler, FiniteSetTheorems, TLAPS

-----------------------------------------------------------------------------
(* The clock *)

\* The next run is later, by no more than a period.
LEMMA NextCronLater ==
  ASSUME NEW t \in Nat
  PROVE  NextCron(t) \in Nat /\ t < NextCron(t) /\ NextCron(t) <= t + Period
  <1>1. t \div Period \in Nat
    BY PeriodAssumption
  <1>2. t = (t \div Period) * Period + (t % Period) /\ t % Period \in 0..(Period - 1)
    BY PeriodAssumption
  <1>3. NextCron(t) = (t \div Period) * Period + Period
    BY <1>1, PeriodAssumption DEF NextCron
  <1>4. QED
    BY <1>1, <1>2, <1>3, PeriodAssumption

LEMMA NextCronInTime ==
  ASSUME NEW t \in 0..MaxTime
  PROVE  NextCron(t) \in Time
  BY NextCronLater, BoundsAssumption, PeriodAssumption DEF Time

-----------------------------------------------------------------------------
(* The rows that are written *)

LEMMA NewRowTypes ==
  ASSUME NEW m \in MaxRuns \cup {1}, NEW at \in 0..MaxTime, now \in 0..MaxTime
  PROVE  OnceRow(at, m) \in Row /\ RecurringRow(m) \in Row
  <1>1. m \in Int \cup {Text} /\ at \in Time /\ NextCron(now) \in Time /\ 0 \in Time
    BY NextCronInTime, RunsAssumption, PeriodAssumption, BoundsAssumption DEF Time
  <1>2. QED
    BY <1>1 DEF OnceRow, RecurringRow, NoRow, Row, Status

LEMMA RecordedType ==
  ASSUME NEW row \in Row, NEW seen \in Row, NEW at \in 0..MaxTime, NEW status \in Status
  PROVE  /\ Recorded(row, seen, at, status) \in Row
         /\ Recorded(row, seen, at, status).max = row.max
         /\ row.status = "deleted" =>
              Recorded(row, seen, at, status) = row
         /\ row.status # "deleted" =>
              /\ Recorded(row, seen, at, status).total = row.total + 1
              /\ Recorded(row, seen, at, status).status = status
              /\ Recorded(row, seen, at, status).next =
                    IF seen.type = "once" THEN row.next ELSE NextCron(at)
  <1>1. PICK next \in Time : next = IF seen.type = "once" THEN row.next ELSE NextCron(at)
    BY NextCronInTime DEF Row
  <1>2. PICK total \in Nat : total = row.total + 1
    BY DEF Row
  <1>3. row.status # "deleted" =>
          Recorded(row, seen, at, status) =
            [row EXCEPT !.total = total, !.status = status, !.next = next]
    BY <1>1, <1>2 DEF Recorded
  <1>4. QED
    BY <1>1, <1>2, <1>3 DEF Recorded, Row

-----------------------------------------------------------------------------
(* Turns: what a list of triggers is, and how it gets shorter *)

Known(s) == rows[s].status # "absent"

Positions == 1..Len(turn.todo)

TurnTypes ==
    /\ turn \in [step : Steps, by : {"timer", "operator"}, todo : Seq(Items), at : 0..MaxTime]
    /\ turn.step = "idle" <=> turn.todo = <<>>

\* A turn is about schedules there are, each once, of the limit the table has
\* for them; a sweep's are due; an operator's is about one.
TurnInv ==
    /\ turn.step # "idle" => up /\ turn.at <= now
    /\ turn.by = "timer" => turn.step # "delete"
    /\ turn.by = "operator" => Len(turn.todo) = 1
    /\ \A i \in Positions :
          /\ Known(turn.todo[i].id)
          /\ turn.todo[i].row.max = rows[turn.todo[i].id].max
          /\ turn.by = "timer" => turn.todo[i].row.next <= turn.at
    /\ \A i, j \in Positions : turn.todo[i].id = turn.todo[j].id => i = j

RowsKept ==
    \A s \in Schedule : Known(s) => Known(s)' /\ rows'[s].max = rows[s].max

LEMMA ItemAt ==
  ASSUME TurnTypes
  PROVE  /\ turn.todo \in Seq(Items) /\ Len(turn.todo) \in Nat
         /\ \A i \in Positions : /\ turn.todo[i] \in Items
                                 /\ turn.todo[i].id \in Schedule
                                 /\ turn.todo[i].row \in Row
  <1>1. turn.todo \in Seq(Items)
    BY DEF TurnTypes
  <1>2. ASSUME NEW i \in Positions PROVE turn.todo[i] \in Items
    BY <1>1 DEF Positions
  <1>3. ASSUME NEW it \in Items PROVE it.id \in Schedule /\ it.row \in Row
    BY DEF Items
  <1>4. QED
    BY <1>1, <1>2, <1>3

\* The first item of a turn that is not over.
LEMMA CurrentItem ==
  ASSUME TurnTypes, turn.step # "idle"
  PROVE  /\ 1 \in Positions /\ Current = turn.todo[1]
         /\ Current \in Items /\ Current.id \in Schedule /\ Current.row \in Row
         /\ turn.at \in 0..MaxTime /\ Len(turn.todo) \in Nat
  <1>1. turn.todo \in Seq(Items) /\ turn.todo # <<>> /\ turn.at \in 0..MaxTime
    BY DEF TurnTypes
  <1>2. 1 \in Positions /\ Current = turn.todo[1]
    BY <1>1 DEF Positions, Current
  <1>3. QED
    BY <1>1, <1>2, ItemAt

\* NextItem drops the first item; after the last the turn is over.
LEMMA NextItemDrops ==
  ASSUME TurnTypes, turn.step # "idle", NextItem
  PROVE  /\ TurnTypes'
         /\ turn'.step \in {"idle", "event"}
         /\ turn'.step # "idle" => turn'.by = turn.by /\ turn'.at = turn.at
         /\ turn'.step = "idle" => turn'.by = "timer"
         /\ Len(turn'.todo) = Len(turn.todo) - 1
         /\ \A i \in Positions' : i + 1 \in Positions /\ turn'.todo[i] = turn.todo[i + 1]
  <1>1. /\ turn.todo \in Seq(Items) /\ turn.todo # <<>> /\ Len(turn.todo) \in Nat
        /\ Len(turn.todo) # 0
    BY DEF TurnTypes
  <1>2. CASE Len(turn.todo) = 1
    <2>1. turn' = Idle
      BY <1>2 DEF NextItem
    <2>2. turn'.todo = <<>> /\ turn'.step = "idle" /\ turn'.by = "timer" /\ turn'.at = 0
      BY <2>1 DEF Idle
    <2>3. TurnTypes'
      BY <2>1, BoundsAssumption DEF Idle, TurnTypes, Steps
    <2>4. QED
      BY <1>2, <2>2, <2>3 DEF Positions
  <1>3. CASE Len(turn.todo) # 1
    <2>1. turn' = [turn EXCEPT !.step = "event", !.todo = Tail(turn.todo)]
      BY <1>3 DEF NextItem
    <2>2. /\ Tail(turn.todo) \in Seq(Items) /\ Len(Tail(turn.todo)) = Len(turn.todo) - 1
          /\ \A i \in 1..Len(Tail(turn.todo)) :
                i + 1 \in 1..Len(turn.todo) /\ Tail(turn.todo)[i] = turn.todo[i + 1]
      BY <1>1
    <2>3. PICK rest \in Seq(Items) : rest = Tail(turn.todo)
      BY <2>2
    <2>4. turn' = [turn EXCEPT !.step = "event", !.todo = rest]
      BY <2>1, <2>3
    <2>5. rest # <<>>
      <3>1. Len(rest) # 0
        BY <1>1, <1>3, <2>2, <2>3
      <3>2. QED
        BY <3>1
    <2>6. TurnTypes' /\ turn'.step = "event" /\ turn'.by = turn.by /\ turn'.at = turn.at /\ turn'.todo = rest
      BY <2>4, <2>5 DEF TurnTypes, Steps
    <2>7. QED
      BY <2>2, <2>3, <2>6 DEF Positions
  <1>4. QED
    BY <1>2, <1>3

LEMMA TurnKept ==
  ASSUME TurnInv, TurnTypes, RowsKept, turn' = turn, up' = up, now \in Nat, now' \in Nat, now <= now'
  PROVE  TurnInv' /\ TurnTypes'
  <1>1. TurnTypes'
    BY DEF TurnTypes
  <1>2. turn.step # "idle" => up' /\ turn.at <= now'
    <2>1. turn.at \in 0..MaxTime
      BY DEF TurnTypes
    <2>2. QED
      BY <2>1, BoundsAssumption DEF TurnInv
  <1>3. ASSUME NEW i \in Positions
        PROVE  Known(turn.todo[i].id)' /\ turn.todo[i].row.max = rows'[turn.todo[i].id].max
    <2>1. turn.todo[i].id \in Schedule
      BY ItemAt
    <2>2. QED
      BY <2>1 DEF TurnInv, RowsKept, Known
  <1>4. QED
    BY <1>1, <1>2, <1>3 DEF TurnInv, Positions, Known

LEMMA TurnDropped ==
  ASSUME TurnInv, TurnTypes, RowsKept, turn.step # "idle", NextItem, up' = up, now' = now
  PROVE  TurnInv' /\ TurnTypes'
  <1>1. /\ TurnTypes'
        /\ turn'.step \in {"idle", "event"}
        /\ turn'.step # "idle" => turn'.by = turn.by /\ turn'.at = turn.at
        /\ turn'.step = "idle" => turn'.by = "timer"
        /\ Len(turn'.todo) = Len(turn.todo) - 1
        /\ \A i \in Positions' : i + 1 \in Positions /\ turn'.todo[i] = turn.todo[i + 1]
    BY NextItemDrops
  <1>2. turn'.step # "idle" => up' /\ turn'.at <= now' /\ turn'.by = turn.by
    BY <1>1 DEF TurnInv
  <1>3. turn'.by = "timer" => turn'.step # "delete"
    BY <1>1
  <1>4. turn'.step # "idle" => turn'.by # "operator"
    <2>1. turn'.step # "idle" => Len(turn'.todo) # 0
      BY <1>1 DEF TurnTypes
    <2>2. QED
      BY <1>1, <2>1 DEF TurnInv
  <1>5. ASSUME NEW i \in Positions'
        PROVE  /\ Known(turn.todo[i].id)'
               /\ turn'.todo[i].row.max = rows'[turn'.todo[i].id].max
               /\ turn'.by = "timer" => turn'.todo[i].row.next <= turn'.at
    <2>1. i + 1 \in Positions /\ turn'.todo[i] = turn.todo[i + 1] /\ turn.todo[i + 1].id \in Schedule
      BY <1>1, ItemAt
    <2>2. turn'.step # "idle"
      BY <1>1 DEF TurnTypes, Positions
    <2>3. PICK s \in Schedule : s = turn.todo[i + 1].id
      BY <2>1
    <2>4. Known(s) /\ turn.todo[i + 1].row.max = rows[s].max
      BY <2>1, <2>3 DEF TurnInv
    <2>5. rows'[s].status # "absent" /\ rows'[s].max = rows[s].max
      BY <2>4 DEF RowsKept, Known
    <2>6. turn'.by = "timer" => turn.todo[i + 1].row.next <= turn'.at
      BY <1>1, <2>1, <2>2 DEF TurnInv
    <2>7. QED
      BY <2>1, <2>3, <2>4, <2>5, <2>6 DEF Known
  <1>6. ASSUME NEW i \in Positions', NEW j \in Positions', turn'.todo[i].id = turn'.todo[j].id
        PROVE  i = j
    <2>1. i + 1 \in Positions /\ j + 1 \in Positions /\ i + 1 = j + 1
      BY <1>1, <1>6 DEF TurnInv
    <2>2. QED
      BY <2>1 DEF Positions
  <1>7. turn'.by # "operator"
    BY <1>1, <1>4
  <1>8. QED
    BY <1>1, <1>2, <1>3, <1>5, <1>6, <1>7 DEF TurnInv, Known

LEMMA TurnOver ==
  ASSUME turn' = Idle
  PROVE  TurnInv' /\ TurnTypes'
  <1>1. TurnTypes'
    BY BoundsAssumption DEF TurnTypes, Idle, Steps, Items
  <1>2. QED
    BY <1>1 DEF TurnInv, Idle, Positions

LEMMA TurnGoesOn ==
  ASSUME TurnInv, TurnTypes, turn.step # "idle", NEW step \in {"task", "record"},
         turn.step # "delete",
         turn' = [turn EXCEPT !.step = step], rows' = rows, up' = up, now' = now
  PROVE  TurnInv' /\ TurnTypes'
  <1>1. /\ turn'.step = step /\ turn'.by = turn.by /\ turn'.todo = turn.todo
        /\ turn'.at = turn.at /\ TurnTypes'
    BY DEF TurnTypes, Steps
  <1>2. QED
    BY <1>1 DEF TurnInv, Positions, Known

\* The schedules due are finitely many: their snapshots in order are a sequence
\* of items of distinct ids.
LEMMA DueListItems ==
  ASSUME rows \in [Schedule -> Row], NEW q \in DueLists
  PROVE  /\ q \in Seq(Items)
         /\ \A i \in 1..Len(q) : q[i].id \in Schedule /\ Due(q[i].id) /\ q[i] = Item(q[i].id)
         /\ \A i, j \in 1..Len(q) : q[i].id = q[j].id => i = j
  <1> DEFINE D == ToTrigger
             S == {Item(s) : s \in D}
             n == Cardinality(S)
             f == [u \in D |-> Item(u)]
  <1>1. IsFiniteSet(D)
    BY ScheduleAssumption, FS_Subset DEF ToTrigger
  <1>2. f \in Surjection(D, S)
    BY DEF Surjection
  <1>3. IsFiniteSet(S)
    BY <1>1, <1>2, FS_Surjection
  <1>4. n \in Nat
    BY <1>3, FS_CardinalityType
  <1>5. q \in [1..n -> S] /\ \A i, j \in 1..n : i # j => q[i] # q[j]
    BY DEF DueLists, SetToSeqs
  <1>6. S \subseteq Items
    BY DEF Item, Items, ToTrigger
  <1> HIDE DEF n, S
  <1>7. q \in Seq(Items) /\ Len(q) = n
    BY <1>4, <1>5, <1>6
  <1>8. ASSUME NEW i \in 1..n
        PROVE  q[i].id \in Schedule /\ Due(q[i].id) /\ q[i] = Item(q[i].id)
    <2>1. PICK s \in D : q[i] = Item(s)
      BY <1>5 DEF S
    <2>2. q[i].id = s /\ s \in Schedule /\ Due(s)
      BY <2>1 DEF Item, ToTrigger
    <2>3. QED
      BY <2>1, <2>2
  <1>9. QED
    BY <1>5, <1>7, <1>8

LEMMA SweepBegun ==
  ASSUME rows \in [Schedule -> Row], now \in 0..MaxTime, BeginSweep, rows' = rows, up', now' = now
  PROVE  /\ TurnInv' /\ TurnTypes' /\ turn'.by = "timer"
         /\ turn'.step \in {"idle", "event"}
         /\ turn'.step # "idle" => turn'.at = now
         /\ \A i \in Positions' : LET s == turn'.todo[i].id
                                  IN  s \in Schedule /\ Due(s) /\ turn'.todo[i].row = rows[s]
  <1>1. PICK q \in DueLists :
            turn' = IF q = <<>> THEN Idle
                    ELSE [step |-> "event", by |-> "timer", todo |-> q, at |-> now]
    BY DEF BeginSweep
  <1>2. /\ q \in Seq(Items)
        /\ \A i \in 1..Len(q) : q[i].id \in Schedule /\ Due(q[i].id) /\ q[i] = Item(q[i].id)
        /\ \A i, j \in 1..Len(q) : q[i].id = q[j].id => i = j
    BY DueListItems
  <1>3. CASE q = <<>>
    <2>1. turn' = Idle
      BY <1>1, <1>3
    <2>2. QED
      BY <2>1, TurnOver DEF Idle, Positions
  <1>4. CASE q # <<>>
    <2>1. turn' = [step |-> "event", by |-> "timer", todo |-> q, at |-> now]
      BY <1>1, <1>4
    <2>2. TurnTypes'
      BY <1>2, <1>4, <2>1 DEF TurnTypes, Steps
    <2>3. ASSUME NEW i \in Positions'
          PROVE  /\ turn'.todo[i].id \in Schedule /\ Due(turn'.todo[i].id)
                 /\ turn'.todo[i].row = rows[turn'.todo[i].id]
      <3>1. i \in 1..Len(q) /\ turn'.todo[i] = q[i]
        BY <2>1 DEF Positions
      <3>2. q[i].id \in Schedule /\ Due(q[i].id) /\ q[i] = Item(q[i].id)
        BY <1>2, <3>1
      <3>3. QED
        BY <3>1, <3>2 DEF Item
    <2>4. ASSUME NEW i \in Positions'
          PROVE  /\ Known(turn.todo[i].id)'
                 /\ turn'.todo[i].row.max = rows'[turn'.todo[i].id].max
                 /\ turn'.todo[i].row.next <= turn'.at
      <3>1. PICK s \in Schedule : s = turn'.todo[i].id /\ Due(s) /\ turn'.todo[i].row = rows[s]
        BY <2>3
      <3>2. rows'[s].status # "absent" /\ rows[s].next <= now /\ turn'.at = now
        BY <2>1, <3>1 DEF Due
      <3>3. QED
        BY <3>1, <3>2 DEF Known
    <2>5. TurnInv'
      <3>1. /\ turn'.step = "event" /\ turn'.by = "timer" /\ turn'.at <= now' /\ up'
            /\ \A i \in Positions' : i \in 1..Len(q) /\ turn'.todo[i] = q[i]
        BY <2>1 DEF Positions
      <3>2. \A i, j \in Positions' : turn'.todo[i].id = turn'.todo[j].id => i = j
        BY <1>2, <3>1
      <3>3. QED
        BY <2>4, <3>1, <3>2 DEF TurnInv, Known
    <2>6. QED
      BY <2>1, <2>2, <2>3, <2>5
  <1>5. QED
    BY <1>3, <1>4

LEMMA TurnOfOne ==
  ASSUME rows \in [Schedule -> Row], now \in 0..MaxTime, up, up' = up, now' = now, RowsKept,
         NEW s \in Schedule, Known(s), NEW step \in {"event", "delete"},
         turn' = [step |-> step, by |-> "operator", todo |-> <<Item(s)>>, at |-> now]
  PROVE  TurnInv' /\ TurnTypes'
  <1>1. Item(s) \in Items /\ Item(s).id = s /\ Item(s).row = rows[s]
    BY DEF Item, Items
  <1>2. PICK it \in Items : it = Item(s)
    BY <1>1
  <1>3. /\ turn'.todo = <<it>> /\ turn'.step = step /\ turn'.by = "operator" /\ turn'.at = now
        /\ Len(turn'.todo) = 1 /\ turn'.todo[1] = it /\ TurnTypes'
    BY <1>2 DEF TurnTypes, Steps
  <1>4. Known(it.id)' /\ it.row.max = rows'[it.id].max
    BY <1>1, <1>2 DEF RowsKept
  <1>5. QED
    BY <1>3, <1>4 DEF TurnInv, Positions

-----------------------------------------------------------------------------
(* The table and the counts; the command line tool *)

TableTypes == rows \in [Schedule -> Row]

CountTypes ==
    /\ orphans \in [Schedule -> Nat] /\ made \in [Schedule -> Nat]
    /\ fired \in [Schedule -> [Time -> Nat]] /\ ops \in [Schedule -> Nat]
    /\ deliveries \in [Delivery -> SUBSET Schedule]
    /\ now \in 0..MaxTime /\ up \in BOOLEAN /\ faults \in Nat

ToolTypes ==
    /\ tool \in [step : Steps, item : Items \cup {None}, at : 0..MaxTime]
    /\ tool.step = "idle" <=> tool.item = None

\* The tool triggers a schedule there is, because an operator asked it to.
ToolInv ==
    /\ tool.step # "delete"
    /\ tool.step # "idle" => Known(tool.item.id) /\ ops[tool.item.id] > 0

\* A schedule that is not there was never triggered.
AbsentInv ==
    \A s \in Schedule : ~Known(s) =>
        /\ made[s] = 0 /\ orphans[s] = 0
        /\ \A d \in Time : fired[s][d] = 0

Structure ==
    /\ TableTypes /\ CountTypes /\ TurnTypes /\ ToolTypes
    /\ TurnInv /\ ToolInv /\ AbsentInv

LEMMA ToolItem ==
  ASSUME ToolTypes, tool.step # "idle"
  PROVE  /\ tool.item \in Items /\ tool.item.id \in Schedule /\ tool.item.row \in Row
         /\ tool.at \in 0..MaxTime
  BY DEF ToolTypes, Items

\* A write on one row that neither removes it nor changes its limit.
LEMMA RowWritten ==
  ASSUME TableTypes, NEW s \in Schedule, NEW row \in Row,
         rows' = [rows EXCEPT ![s] = row],
         Known(s) => row.status # "absent" /\ row.max = rows[s].max
  PROVE  /\ TableTypes' /\ RowsKept /\ rows'[s] = row
         /\ \A u \in Schedule : u # s => rows'[u] = rows[u]
  BY DEF TableTypes, RowsKept, Known

LEMMA RowsUnchanged ==
  ASSUME rows' = rows
  PROVE  RowsKept
  BY DEF RowsKept, Known

LEMMA ToolKept ==
  ASSUME ToolTypes, ToolInv, RowsKept, tool' = tool,
         ops \in [Schedule -> Nat], ops' \in [Schedule -> Nat],
         \A s \in Schedule : ops[s] <= ops'[s]
  PROVE  ToolTypes' /\ ToolInv'
  <1>1. ToolTypes'
    BY DEF ToolTypes
  <1>2. ASSUME tool.step # "idle"
        PROVE  rows'[tool.item.id].status # "absent" /\ ops'[tool.item.id] > 0
    <2>1. PICK s \in Schedule : s = tool.item.id
      BY <1>2, ToolItem
    <2>2. rows[s].status # "absent" /\ ops[s] > 0
      BY <1>2, <2>1 DEF ToolInv, Known
    <2>3. QED
      BY <2>1, <2>2 DEF RowsKept, Known
  <1>3. QED
    BY <1>1, <1>2 DEF ToolInv, Known

LEMMA AbsentKept ==
  ASSUME AbsentInv, RowsKept,
         \A s \in Schedule : ~Known(s) => made'[s] = made[s] /\ orphans'[s] = orphans[s]
                                                /\ fired'[s] = fired[s]
  PROVE  AbsentInv'
  BY DEF AbsentInv, RowsKept, Known

\* An operator's command is counted.
LEMMA Commanded ==
  ASSUME ops \in [Schedule -> Nat], NEW s \in Schedule, ops' = [ops EXCEPT ![s] = @ + 1]
  PROVE  /\ ops' \in [Schedule -> Nat] /\ ops'[s] = ops[s] + 1
         /\ \A u \in Schedule : u # s => ops'[u] = ops[u]
         /\ \A u \in Schedule : ops[u] <= ops'[u]
  OBVIOUS

LEMMA NotCommanded ==
  ASSUME ops \in [Schedule -> Nat], ops' = ops
  PROVE  ops' \in [Schedule -> Nat] /\ \A s \in Schedule : ops[s] <= ops'[s]
  <1>1. \A s \in Schedule : ops[s] \in Nat
    OBVIOUS
  <1>2. QED
    BY <1>1

\* A trigger that is given up leaves its event behind.
LEMMA AbandonedEvents ==
  ASSUME orphans \in [Schedule -> Nat], TurnTypes, TurnInv
  PROVE  /\ Abandoned \in [Schedule -> Nat]
         /\ \A s \in Schedule : ~Known(s) => Abandoned[s] = orphans[s]
         /\ \A s \in Schedule :
               Abandoned[s] = orphans[s] + (IF turn.step = "task" /\ Current.id = s THEN 1 ELSE 0)
  <1>1. \A s \in Schedule : orphans[s] \in Nat
    OBVIOUS
  <1>2. ASSUME NEW s \in Schedule, ~Known(s) PROVE ~(turn.step = "task" /\ Current.id = s)
    BY <1>2, CurrentItem DEF TurnInv
  <1>3. QED
    BY <1>1, <1>2 DEF Abandoned

\* A schedule that is made: its row was not there, and is due once or from the
\* first match on.
LEMMA Created ==
  ASSUME TableTypes, now \in 0..MaxTime, NEW s \in Schedule, NewSchedule(s) \/ ToolCreate(s)
  PROVE  /\ ~Known(s)
         /\ \E row \in Row : /\ rows' = [rows EXCEPT ![s] = row]
                             /\ row.status = "active" /\ row.total = 0
  <1>1. /\ rows[s].status = "absent"
        /\ \E m \in MaxRuns \cup {1} : \E at \in 0..MaxTime :
              rows' = [rows EXCEPT ![s] = OnceRow(at, m)] \/ rows' = [rows EXCEPT ![s] = RecurringRow(m)]
    <2>1. now..MaxTime \subseteq 0..MaxTime /\ MaxRuns \subseteq MaxRuns \cup {1}
      BY BoundsAssumption
    <2>2. CASE NewSchedule(s)
      BY <2>1, <2>2 DEF NewSchedule
    <2>3. CASE ToolCreate(s)
      BY <2>1, <2>3 DEF ToolCreate
    <2>4. QED
      BY <2>2, <2>3
  <1>2. PICK m \in MaxRuns \cup {1}, at \in 0..MaxTime :
              rows' = [rows EXCEPT ![s] = OnceRow(at, m)] \/ rows' = [rows EXCEPT ![s] = RecurringRow(m)]
    BY <1>1
  <1>3. OnceRow(at, m) \in Row /\ RecurringRow(m) \in Row
    BY NewRowTypes
  <1>4. /\ OnceRow(at, m).status = "active" /\ OnceRow(at, m).total = 0
        /\ RecurringRow(m).status = "active" /\ RecurringRow(m).total = 0
    BY DEF OnceRow, RecurringRow, NoRow
  <1>5. QED
    BY <1>1, <1>2, <1>3, <1>4 DEF Known

-----------------------------------------------------------------------------
(* What the actions write on the table *)

\* A command that sets some fields of a row that is present.
LEMMA StatusWritten ==
  ASSUME TableTypes, NEW s \in Schedule, NEW status \in Status, status # "absent",
         NEW next \in Time,
         rows' = [rows EXCEPT ![s] = [@ EXCEPT !.status = status, !.next = next]]
  PROVE  /\ TableTypes' /\ RowsKept
         /\ \A u \in Schedule : u # s => rows'[u] = rows[u]
         /\ rows'[s].status = status /\ rows'[s].next = next
         /\ rows'[s].total = rows[s].total /\ rows'[s].max = rows[s].max
         /\ rows'[s].type = rows[s].type
  <1>1. rows[s] \in Row
    BY DEF TableTypes
  <1>2. PICK row \in Row : row = [rows[s] EXCEPT !.status = status, !.next = next]
    BY <1>1 DEF Row
  <1>3. rows' = [rows EXCEPT ![s] = row] /\ row.status # "absent" /\ row.max = rows[s].max
    BY <1>1, <1>2 DEF Row
  <1>4. QED
    <2>1. /\ row.status = status /\ row.next = next /\ row.total = rows[s].total
          /\ row.max = rows[s].max /\ row.type = rows[s].type
      BY <1>1, <1>2 DEF Row
    <2>2. /\ TableTypes' /\ RowsKept /\ rows'[s] = row
          /\ \A u \in Schedule : u # s => rows'[u] = rows[u]
      BY <1>3, RowWritten
    <2>3. QED
      BY <2>1, <2>2

LEMMA RestartedRow ==
  ASSUME TableTypes, now \in 0..MaxTime, NEW s \in Schedule, Restarted(s)
  PROVE  /\ TableTypes' /\ RowsKept /\ rows'[s].status = "active"
         /\ \A u \in Schedule : u # s => rows'[u] = rows[u]
         /\ rows'[s].next \in Time
         /\ rows'[s].total = rows[s].total /\ rows'[s].max = rows[s].max
  <1>1. rows[s].next \in Time /\ NextCron(now) \in Time
    BY NextCronInTime DEF TableTypes, Row
  <1>2. PICK next \in Time : next = IF rows[s].type = "once" THEN rows[s].next ELSE NextCron(now)
    BY <1>1
  <1>3. rows' = [rows EXCEPT ![s] = [@ EXCEPT !.status = "active", !.next = next]]
    BY <1>2 DEF Restarted, TableTypes
  <1>4. "active" \in Status
    BY DEF Status
  <1>5. QED
    BY <1>3, <1>4, StatusWritten

LEMMA StatusSet ==
  ASSUME TableTypes, NEW s \in Schedule, NEW status \in {"paused", "cancelled", "deleted"},
         rows' = [rows EXCEPT ![s].status = status]
  PROVE  /\ TableTypes' /\ RowsKept /\ rows'[s].status = status
         /\ \A u \in Schedule : u # s => rows'[u] = rows[u]
         /\ rows'[s].total = rows[s].total /\ rows'[s].max = rows[s].max
         /\ rows'[s].next = rows[s].next
  <1>1. rows[s] \in Row /\ status \in Status
    BY DEF TableTypes, Status
  <1>2. PICK row \in Row : row = [rows[s] EXCEPT !.status = status]
    BY <1>1 DEF Row
  <1>3. /\ rows' = [rows EXCEPT ![s] = row]
        /\ row.status = status /\ row.next = rows[s].next /\ row.total = rows[s].total
        /\ row.max = rows[s].max /\ row.status # "absent"
    BY <1>1, <1>2 DEF Row, TableTypes
  <1>4. /\ TableTypes' /\ RowsKept /\ rows'[s] = row
        /\ \A u \in Schedule : u # s => rows'[u] = rows[u]
    BY <1>3, RowWritten
  <1>5. QED
    BY <1>3, <1>4

\* The third commit of a trigger, the daemon's and the tool's.
LEMMA TriggerRecorded ==
  ASSUME TableTypes, NEW s \in Schedule, Known(s), NEW seen \in Row, NEW at \in 0..MaxTime,
         NEW status \in Status \ {"absent"},
         rows' = [rows EXCEPT ![s] = Recorded(@, seen, at, status)]
  PROVE  /\ TableTypes' /\ RowsKept
         /\ rows'[s] = Recorded(rows[s], seen, at, status)
         /\ \A u \in Schedule : u # s => rows'[u] = rows[u]
  <1>1. rows[s] \in Row
    BY DEF TableTypes
  <1>2. PICK row \in Row : row = Recorded(rows[s], seen, at, status)
    BY <1>1, RecordedType
  <1>3. row.status # "absent" /\ row.max = rows[s].max
    <2>1. PICK old \in Row : old = rows[s] /\ old.status # "absent"
      BY <1>1 DEF Known
    <2>2. row = Recorded(old, seen, at, status)
      BY <1>2, <2>1
    <2>3. status \in Status /\ status # "absent"
      OBVIOUS
    <2>4. /\ Recorded(old, seen, at, status).max = old.max
          /\ old.status = "deleted" => Recorded(old, seen, at, status) = old
          /\ old.status # "deleted" => Recorded(old, seen, at, status).status = status
      BY <2>3, RecordedType
    <2>5. QED
      BY <2>1, <2>2, <2>3, <2>4
  <1>4. rows' = [rows EXCEPT ![s] = row]
    BY <1>2 DEF TableTypes
  <1>5. /\ TableTypes' /\ RowsKept /\ rows'[s] = row
        /\ \A u \in Schedule : u # s => rows'[u] = rows[u]
    BY <1>3, <1>4, RowWritten
  <1>6. QED
    BY <1>2, <1>5

LEMMA StatusTypes ==
  ASSUME NEW seen \in Row, NEW row \in Row, row.status # "absent"
  PROVE  /\ NewStatus(seen) \in {"completed", "active"}
         /\ NewStatus(seen) \in Status \ {"absent"}
         /\ ToolStatus(seen, row) \in Status \ {"absent"}
  BY DEF NewStatus, ToolStatus, Row, Status

LEMMA RecordExecutionWrites ==
  ASSUME Structure, RecordExecution
  PROVE  /\ TableTypes' /\ RowsKept
         /\ rows'[Current.id] =
              Recorded(rows[Current.id], Current.row, turn.at, NewStatus(Current.row))
         /\ \A u \in Schedule : u # Current.id => rows'[u] = rows[u]
         /\ NextItem
         /\ UNCHANGED <<orphans, made, histVars, now, up, tool>>
  <1>1. /\ turn.step # "idle" /\ NextItem
        /\ UNCHANGED <<orphans, made, histVars, now, up, tool>>
        /\ rows' = [rows EXCEPT ![Current.id] =
                       Recorded(@, Current.row, turn.at, NewStatus(Current.row))]
    BY DEF RecordExecution
  <1>2. /\ TableTypes /\ Current.id \in Schedule /\ Current.row \in Row /\ turn.at \in 0..MaxTime
        /\ Known(Current.id)
    BY <1>1, CurrentItem DEF Structure, TurnInv
  <1>3. rows[Current.id] \in Row /\ rows[Current.id].status # "absent"
    BY <1>2 DEF TableTypes, Known
  <1>4. PICK s \in Schedule, seen \in Row, at \in 0..MaxTime, status \in Status \ {"absent"} :
           s = Current.id /\ seen = Current.row /\ at = turn.at /\ status = NewStatus(Current.row)
    BY <1>2, <1>3, StatusTypes
  <1>5. rows' = [rows EXCEPT ![s] = Recorded(@, seen, at, status)] /\ Known(s)
    BY <1>1, <1>2, <1>4
  <1>6. /\ TableTypes' /\ RowsKept
        /\ rows'[s] = Recorded(rows[s], seen, at, status)
        /\ \A u \in Schedule : u # s => rows'[u] = rows[u]
    BY <1>2, <1>5, TriggerRecorded
  <1>7. QED
    BY <1>1, <1>4, <1>6

LEMMA ToolRecordWrites ==
  ASSUME Structure, ToolRecord
  PROVE  /\ TableTypes' /\ RowsKept
         /\ rows'[tool.item.id] =
              Recorded(rows[tool.item.id], tool.item.row, tool.at,
                       ToolStatus(tool.item.row, rows[tool.item.id]))
         /\ \A u \in Schedule : u # tool.item.id => rows'[u] = rows[u]
         /\ tool' = ToolIdle
         /\ UNCHANGED <<orphans, made, histVars, now, up, turn>>
  <1>1. /\ tool.step # "idle" /\ tool' = ToolIdle
        /\ UNCHANGED <<orphans, made, histVars, now, up, turn>>
        /\ rows' = [rows EXCEPT ![tool.item.id] =
                       Recorded(@, tool.item.row, tool.at, ToolStatus(tool.item.row, @))]
    BY DEF ToolRecord
  <1>2. /\ TableTypes /\ tool.item.id \in Schedule /\ tool.item.row \in Row /\ tool.at \in 0..MaxTime
        /\ Known(tool.item.id)
    BY <1>1, ToolItem DEF Structure, ToolInv
  <1>3. rows[tool.item.id] \in Row /\ rows[tool.item.id].status # "absent"
    BY <1>2 DEF TableTypes, Known
  <1>4. PICK s \in Schedule, seen \in Row, at \in 0..MaxTime, status \in Status \ {"absent"} :
           /\ s = tool.item.id /\ seen = tool.item.row /\ at = tool.at
           /\ status = ToolStatus(tool.item.row, rows[tool.item.id])
    BY <1>2, <1>3, StatusTypes
  <1>5. rows' = [rows EXCEPT ![s] = Recorded(@, seen, at, status)] /\ Known(s)
    <2>1. rows' = [rows EXCEPT ![s] = Recorded(rows[s], seen, at, status)]
      BY <1>1, <1>4
    <2>2. QED
      BY <1>2, <1>4, <2>1 DEF TableTypes
  <1>6. /\ TableTypes' /\ RowsKept
        /\ rows'[s] = Recorded(rows[s], seen, at, status)
        /\ \A u \in Schedule : u # s => rows'[u] = rows[u]
    BY <1>2, <1>5, TriggerRecorded
  <1>7. QED
    BY <1>1, <1>4, <1>6

\* The second commit of a trigger by the sweep: a task for the due time.
LEMMA TaskInserted ==
  ASSUME Structure, InsertTask
  PROVE  /\ turn.step = "task" /\ turn' = [turn EXCEPT !.step = "record"]
         /\ UNCHANGED <<rows, orphans, ops, deliveries, faults, now, up, tool>>
         /\ made' \in [Schedule -> Nat] /\ fired' \in [Schedule -> [Time -> Nat]]
         /\ made'[Current.id] = made[Current.id] + 1
         /\ \A s \in Schedule : s # Current.id => made'[s] = made[s] /\ fired'[s] = fired[s]
         /\ \A d \in Time : fired'[Current.id][d] =
                 IF turn.by = "timer" /\ d = Current.row.next
                 THEN fired[Current.id][d] + 1 ELSE fired[Current.id][d]
  <1>1. /\ turn.step = "task" /\ turn' = [turn EXCEPT !.step = "record"]
        /\ UNCHANGED <<rows, orphans, ops, deliveries, faults, now, up, tool>>
        /\ made' = [made EXCEPT ![Current.id] = @ + 1]
        /\ turn.by = "timer" => fired' = [fired EXCEPT ![Current.id][Current.row.next] = @ + 1]
        /\ turn.by # "timer" => fired' = fired
    BY DEF InsertTask
  <1>2. /\ made \in [Schedule -> Nat] /\ fired \in [Schedule -> [Time -> Nat]]
        /\ Current.id \in Schedule /\ Current.row.next \in Time
    BY <1>1, CurrentItem DEF Structure, CountTypes, Row
  <1>3. PICK s \in Schedule, d \in Time : s = Current.id /\ d = Current.row.next
    BY <1>2
  <1>4. /\ made' \in [Schedule -> Nat] /\ made'[s] = made[s] + 1
        /\ \A u \in Schedule : u # s => made'[u] = made[u]
    BY <1>1, <1>2, <1>3
  <1>5. PICK n \in Nat : n = fired[s][d] + 1
    BY <1>2
  <1>6. CASE turn.by = "timer"
    <2>1. fired' = [fired EXCEPT ![s] = [fired[s] EXCEPT ![d] = n]]
      BY <1>1, <1>2, <1>3, <1>5, <1>6
    <2>2. fired[s] \in [Time -> Nat]
      BY <1>2
    <2>3. PICK row \in [Time -> Nat] : row = [fired[s] EXCEPT ![d] = n]
      BY <2>2
    <2>4. /\ fired' \in [Schedule -> [Time -> Nat]] /\ fired'[s] = row
          /\ \A u \in Schedule : u # s => fired'[u] = fired[u]
      BY <1>2, <2>1, <2>3
    <2>5. \A e \in Time : row[e] = IF e = d THEN fired[s][e] + 1 ELSE fired[s][e]
      BY <1>5, <2>2, <2>3
    <2>6. QED
      BY <1>1, <1>3, <1>4, <1>6, <2>4, <2>5
  <1>7. CASE turn.by # "timer"
    BY <1>1, <1>2, <1>3, <1>4, <1>7
  <1>8. QED
    BY <1>6, <1>7

-----------------------------------------------------------------------------
(* The structure is kept by every action *)

\* A step of nobody but the turn's or the tool's, that writes no row and counts
\* no command.
LEMMA TableUntouched ==
  ASSUME Structure, rows' = rows, ops' = ops
  PROVE  /\ TableTypes' /\ RowsKept
         /\ ops' \in [Schedule -> Nat] /\ \A s \in Schedule : ops[s] <= ops'[s]
  <1>1. TableTypes' /\ RowsKept
    BY RowsUnchanged DEF Structure, TableTypes
  <1>2. QED
    BY <1>1, NotCommanded DEF Structure, CountTypes

LEMMA NowTypes ==
  ASSUME CountTypes
  PROVE  now \in Nat /\ now <= now
  BY BoundsAssumption DEF CountTypes

LEMMA SweepStructure ==
  ASSUME Structure, SweepDue \/ Boot
  PROVE  Structure'
  <1>1. /\ BeginSweep /\ rows' = rows /\ ops' = ops /\ now' = now /\ tool' = tool /\ up'
        /\ UNCHANGED <<orphans, made, fired, deliveries, faults>> /\ up' \in BOOLEAN
    <2>1. CASE SweepDue
      <3>1. BeginSweep /\ up /\ UNCHANGED <<dbVars, histVars, now, up, tool>>
        BY <2>1 DEF SweepDue, LoopFree
      <3>2. QED
        BY <3>1 DEF dbVars, histVars, Structure, CountTypes
    <2>2. CASE Boot
      <3>1. BeginSweep /\ up' = TRUE /\ UNCHANGED <<dbVars, histVars, now, tool>>
        BY <2>2 DEF Boot
      <3>2. QED
        BY <3>1 DEF dbVars, histVars
    <2>3. QED
      BY <2>1, <2>2
  <1>2. TableTypes' /\ RowsKept /\ ops' \in [Schedule -> Nat] /\ \A s \in Schedule : ops[s] <= ops'[s]
    BY <1>1, TableUntouched
  <1>3. TurnInv' /\ TurnTypes'
    BY <1>1, SweepBegun DEF Structure, TableTypes, CountTypes
  <1>4. ToolTypes' /\ ToolInv'
    BY <1>1, <1>2, ToolKept DEF Structure, CountTypes
  <1>5. AbsentInv'
    BY <1>1, <1>2, AbsentKept DEF Structure
  <1>6. CountTypes'
    BY <1>1 DEF Structure, CountTypes
  <1>7. QED
    BY <1>2, <1>3, <1>4, <1>5, <1>6 DEF Structure

LEMMA InsertEventStructure ==
  ASSUME Structure, InsertEvent
  PROVE  Structure'
  <1>1. /\ turn.step = "event" /\ turn' = [turn EXCEPT !.step = "task"]
        /\ rows' = rows /\ ops' = ops /\ now' = now /\ tool' = tool /\ up' = up
        /\ UNCHANGED <<orphans, made, fired, deliveries, faults>>
    BY DEF InsertEvent, dbVars, histVars
  <1>2. TableTypes' /\ RowsKept /\ ops' \in [Schedule -> Nat] /\ \A s \in Schedule : ops[s] <= ops'[s]
    BY <1>1, TableUntouched
  <1>3. TurnInv' /\ TurnTypes'
    BY <1>1, TurnGoesOn DEF Structure
  <1>4. ToolTypes' /\ ToolInv'
    BY <1>1, <1>2, ToolKept DEF Structure, CountTypes
  <1>5. AbsentInv'
    BY <1>1, <1>2, AbsentKept DEF Structure
  <1>6. CountTypes'
    BY <1>1 DEF Structure, CountTypes
  <1>7. QED
    BY <1>2, <1>3, <1>4, <1>5, <1>6 DEF Structure

LEMMA InsertTaskStructure ==
  ASSUME Structure, InsertTask
  PROVE  Structure'
  <1>1. /\ turn.step = "task" /\ turn' = [turn EXCEPT !.step = "record"]
        /\ UNCHANGED <<rows, orphans, ops, deliveries, faults, now, up, tool>>
        /\ made' \in [Schedule -> Nat] /\ fired' \in [Schedule -> [Time -> Nat]]
        /\ \A s \in Schedule : s # Current.id => made'[s] = made[s] /\ fired'[s] = fired[s]
    BY TaskInserted
  <1>2. TableTypes' /\ RowsKept /\ ops' \in [Schedule -> Nat] /\ \A s \in Schedule : ops[s] <= ops'[s]
    BY <1>1, TableUntouched
  <1>3. TurnInv' /\ TurnTypes'
    BY <1>1, TurnGoesOn DEF Structure
  <1>4. ToolTypes' /\ ToolInv'
    BY <1>1, <1>2, ToolKept DEF Structure, CountTypes
  <1>5. Known(Current.id)
    BY <1>1, CurrentItem DEF Structure, TurnInv
  <1>6. AbsentInv'
    BY <1>1, <1>2, <1>5, AbsentKept DEF Structure
  <1>7. CountTypes'
    BY <1>1 DEF Structure, CountTypes
  <1>8. QED
    BY <1>2, <1>3, <1>4, <1>6, <1>7 DEF Structure

LEMMA RecordExecutionStructure ==
  ASSUME Structure, RecordExecution
  PROVE  Structure'
  <1>1. /\ TableTypes' /\ RowsKept /\ NextItem /\ turn.step # "idle"
        /\ UNCHANGED <<orphans, made, fired, ops, deliveries, faults, now, up, tool>>
    BY RecordExecutionWrites DEF RecordExecution, histVars
  <1>2. TurnInv' /\ TurnTypes'
    BY <1>1, TurnDropped DEF Structure
  <1>3. ops' \in [Schedule -> Nat] /\ \A s \in Schedule : ops[s] <= ops'[s]
    BY <1>1, NotCommanded DEF Structure, CountTypes
  <1>4. ToolTypes' /\ ToolInv'
    BY <1>1, <1>3, ToolKept DEF Structure, CountTypes
  <1>5. AbsentInv'
    BY <1>1, AbsentKept DEF Structure
  <1>6. CountTypes'
    BY <1>1 DEF Structure, CountTypes
  <1>7. QED
    BY <1>1, <1>2, <1>4, <1>5, <1>6 DEF Structure

\* int() refuses max_runs: the row stays as it is.
LEMMA RecordFailsStructure ==
  ASSUME Structure, RecordFails
  PROVE  Structure'
  <1>1. /\ turn.step # "idle" /\ NextItem
        /\ rows' = rows /\ ops' = ops /\ now' = now /\ tool' = tool /\ up' = up
        /\ UNCHANGED <<orphans, made, fired, deliveries, faults>>
    BY DEF RecordFails, dbVars, histVars
  <1>2. TableTypes' /\ RowsKept /\ ops' \in [Schedule -> Nat] /\ \A s \in Schedule : ops[s] <= ops'[s]
    BY <1>1, TableUntouched
  <1>3. TurnInv' /\ TurnTypes'
    BY <1>1, <1>2, TurnDropped DEF Structure
  <1>4. ToolTypes' /\ ToolInv'
    BY <1>1, <1>2, ToolKept DEF Structure, CountTypes
  <1>5. AbsentInv'
    BY <1>1, <1>2, AbsentKept DEF Structure
  <1>6. CountTypes'
    BY <1>1 DEF Structure, CountTypes
  <1>7. QED
    BY <1>2, <1>3, <1>4, <1>5, <1>6 DEF Structure

\* A trigger is given up by an error, or with all that follow by a crash.
LEMMA GivenUpStructure ==
  ASSUME Structure, TriggerError \/ Crash
  PROVE  Structure'
  <1>1. /\ rows' = rows /\ ops' = ops /\ now' = now /\ tool' = tool
        /\ UNCHANGED <<made, fired, deliveries>> /\ faults' = faults + 1
        /\ orphans' = Abandoned /\ up' \in BOOLEAN
    BY DEF TriggerError, Crash, Structure, CountTypes
  <1>2. TableTypes' /\ RowsKept /\ ops' \in [Schedule -> Nat] /\ \A s \in Schedule : ops[s] <= ops'[s]
    BY <1>1, TableUntouched
  <1>3. TurnInv' /\ TurnTypes'
    <2>1. CASE TriggerError
      BY <1>2, <2>1, TurnDropped DEF Structure, TriggerError
    <2>2. CASE Crash
      BY <2>2, TurnOver DEF Crash
    <2>3. QED
      BY <2>1, <2>2
  <1>4. ToolTypes' /\ ToolInv'
    BY <1>1, <1>2, ToolKept DEF Structure, CountTypes
  <1>5. /\ Abandoned \in [Schedule -> Nat]
        /\ \A s \in Schedule : ~Known(s) => Abandoned[s] = orphans[s]
    BY AbandonedEvents DEF Structure, CountTypes
  <1>6. AbsentInv'
    BY <1>1, <1>2, <1>5, AbsentKept DEF Structure
  <1>7. CountTypes'
    BY <1>1, <1>5 DEF Structure, CountTypes
  <1>8. QED
    BY <1>2, <1>3, <1>4, <1>6, <1>7 DEF Structure

LEMMA DeleteStructure ==
  ASSUME Structure, Delete
  PROVE  Structure'
  <1>1. /\ turn.step # "idle" /\ turn' = Idle
        /\ UNCHANGED <<orphans, made, fired, ops, deliveries, faults, now, up, tool>>
        /\ rows' = [rows EXCEPT ![Current.id].status = "deleted"]
    BY DEF Delete, histVars
  <1>2. PICK s \in Schedule : s = Current.id
    BY <1>1, CurrentItem DEF Structure
  <1>3. TableTypes' /\ RowsKept
    BY <1>1, <1>2, StatusSet DEF Structure
  <1>4. TurnInv' /\ TurnTypes'
    BY <1>1, TurnOver
  <1>5. ops' \in [Schedule -> Nat] /\ \A u \in Schedule : ops[u] <= ops'[u]
    BY <1>1, NotCommanded DEF Structure, CountTypes
  <1>6. ToolTypes' /\ ToolInv'
    BY <1>1, <1>3, <1>5, ToolKept DEF Structure, CountTypes
  <1>7. AbsentInv'
    BY <1>1, <1>3, AbsentKept DEF Structure
  <1>8. CountTypes'
    BY <1>1 DEF Structure, CountTypes
  <1>9. QED
    BY <1>3, <1>4, <1>6, <1>7, <1>8 DEF Structure

LEMMA CreateStructure ==
  ASSUME Structure, NEW s \in Schedule,
         CreateSchedule(s) \/ (\E d \in Delivery : ReceiveScheduled(d, s)) \/ ToolCreate(s)
  PROVE  Structure'
  <1>1. /\ NewSchedule(s) \/ ToolCreate(s)
        /\ UNCHANGED <<orphans, made, fired, ops, faults, now, up, turn, tool>>
        /\ deliveries' \in [Delivery -> SUBSET Schedule]
    BY DEF CreateSchedule, ReceiveScheduled, ToolCreate, histVars, Structure, CountTypes
  <1>2. /\ ~Known(s)
        /\ \E row \in Row : /\ rows' = [rows EXCEPT ![s] = row]
                            /\ row.status = "active" /\ row.total = 0
    BY <1>1, Created DEF Structure, CountTypes
  <1>3. TableTypes' /\ RowsKept
    BY <1>2, RowWritten DEF Structure
  <1>4. ops' \in [Schedule -> Nat] /\ \A u \in Schedule : ops[u] <= ops'[u]
    BY <1>1, NotCommanded DEF Structure, CountTypes
  <1>5. TurnInv' /\ TurnTypes'
    BY <1>1, <1>3, NowTypes, TurnKept DEF Structure
  <1>6. ToolTypes' /\ ToolInv'
    BY <1>1, <1>3, <1>4, ToolKept DEF Structure, CountTypes
  <1>7. AbsentInv'
    BY <1>1, <1>3, AbsentKept DEF Structure
  <1>8. CountTypes'
    BY <1>1 DEF Structure, CountTypes
  <1>9. QED
    BY <1>3, <1>5, <1>6, <1>7, <1>8 DEF Structure

LEMMA CommandStructure ==
  ASSUME Structure, NEW s \in Schedule,
         Pause(s) \/ ToolPause(s) \/ Resume(s) \/ ToolResume(s) \/ ToolDelete(s)
  PROVE  Structure'
  <1>1. /\ UNCHANGED <<orphans, made, fired, deliveries, faults, now, up, turn, tool>>
        /\ ops' = [ops EXCEPT ![s] = @ + 1]
    BY DEF Pause, ToolPause, Resume, ToolResume, ToolDelete, Stopped, Restarted
  <1>2. TableTypes' /\ RowsKept
    <2>1. CASE Pause(s) \/ ToolPause(s)
      <3>1. rows' = [rows EXCEPT ![s].status = "paused"]
        BY <2>1 DEF Pause, ToolPause, Stopped
      <3>2. QED
        BY <3>1, StatusSet DEF Structure
    <2>2. CASE Resume(s) \/ ToolResume(s)
      BY <2>2, RestartedRow DEF Structure, CountTypes, Resume, ToolResume
    <2>3. CASE ToolDelete(s)
      <3>1. rows' = [rows EXCEPT ![s].status = "deleted"]
        BY <2>3 DEF ToolDelete
      <3>2. QED
        BY <3>1, StatusSet DEF Structure
    <2>4. QED
      BY <2>1, <2>2, <2>3
  <1>3. ops' \in [Schedule -> Nat] /\ \A u \in Schedule : ops[u] <= ops'[u]
    BY <1>1, Commanded DEF Structure, CountTypes
  <1>4. TurnInv' /\ TurnTypes'
    BY <1>1, <1>2, NowTypes, TurnKept DEF Structure
  <1>5. ToolTypes' /\ ToolInv'
    BY <1>1, <1>2, <1>3, ToolKept DEF Structure, CountTypes
  <1>6. AbsentInv'
    BY <1>1, <1>2, AbsentKept DEF Structure
  <1>7. CountTypes'
    BY <1>1, <1>3 DEF Structure, CountTypes
  <1>8. QED
    BY <1>2, <1>4, <1>5, <1>6, <1>7 DEF Structure

LEMMA OperatorTurnStructure ==
  ASSUME Structure, NEW s \in Schedule, TriggerNow(s) \/ Cancel(s)
  PROVE  Structure'
  <1>1. /\ UNCHANGED <<orphans, made, fired, deliveries, faults, now, up, tool>>
        /\ ops' = [ops EXCEPT ![s] = @ + 1]
        /\ up /\ Known(s)
        /\ \E step \in {"event", "delete"} :
              turn' = [step |-> step, by |-> "operator", todo |-> <<Item(s)>>, at |-> now]
        /\ rows' = rows \/ rows' = [rows EXCEPT ![s].status = "cancelled"]
    BY DEF TriggerNow, Cancel, LoopFree, dbVars, Present, Known
  <1>2. TableTypes' /\ RowsKept
    <2>1. CASE rows' = rows
      BY <2>1, RowsUnchanged DEF Structure, TableTypes
    <2>2. CASE rows' = [rows EXCEPT ![s].status = "cancelled"]
      BY <2>2, StatusSet DEF Structure
    <2>3. QED
      BY <1>1, <2>1, <2>2
  <1>3. ops' \in [Schedule -> Nat] /\ \A u \in Schedule : ops[u] <= ops'[u]
    BY <1>1, Commanded DEF Structure, CountTypes
  <1>4. TurnInv' /\ TurnTypes'
    <2>1. PICK step \in {"event", "delete"} :
              turn' = [step |-> step, by |-> "operator", todo |-> <<Item(s)>>, at |-> now]
      BY <1>1
    <2>2. QED
      BY <1>1, <1>2, <2>1, TurnOfOne DEF Structure, TableTypes, CountTypes
  <1>5. ToolTypes' /\ ToolInv'
    BY <1>1, <1>2, <1>3, ToolKept DEF Structure, CountTypes
  <1>6. AbsentInv'
    BY <1>1, <1>2, AbsentKept DEF Structure
  <1>7. CountTypes'
    BY <1>1, <1>3 DEF Structure, CountTypes
  <1>8. QED
    BY <1>2, <1>4, <1>5, <1>6, <1>7 DEF Structure

LEMMA ToolTriggerStructure ==
  ASSUME Structure, NEW s \in Schedule, ToolTrigger(s)
  PROVE  Structure'
  <1>1. /\ UNCHANGED <<rows, orphans, made, fired, deliveries, faults, now, up, turn>>
        /\ ops' = [ops EXCEPT ![s] = @ + 1] /\ Known(s)
        /\ tool' = [step |-> "event", item |-> Item(s), at |-> now]
    BY DEF ToolTrigger, dbVars, Present, Known
  <1>2. TableTypes' /\ RowsKept
    BY <1>1, RowsUnchanged DEF Structure, TableTypes
  <1>3. /\ ops' \in [Schedule -> Nat] /\ ops'[s] = ops[s] + 1
        /\ ops[s] \in Nat
    BY <1>1, Commanded DEF Structure, CountTypes
  <1>4. TurnInv' /\ TurnTypes'
    BY <1>1, <1>2, NowTypes, TurnKept DEF Structure
  <1>5. Item(s) \in Items /\ Item(s).id = s
    BY DEF Item, Items, Structure, TableTypes
  <1>6. PICK it \in Items : it = Item(s)
    BY <1>5
  <1>7. ToolTypes'
    BY <1>1, <1>6, NoneAssumption DEF ToolTypes, Steps, Structure, CountTypes
  <1>8. tool'.step # "delete" /\ rows'[tool'.item.id].status # "absent" /\ ops'[tool'.item.id] > 0
    BY <1>1, <1>3, <1>5, <1>6 DEF Known
  <1>9. ToolInv'
    BY <1>8 DEF ToolInv, Known
  <1>10. AbsentInv'
    BY <1>1, <1>2, AbsentKept DEF Structure
  <1>11. CountTypes'
    BY <1>1, <1>3 DEF Structure, CountTypes
  <1>12. QED
    BY <1>2, <1>4, <1>7, <1>9, <1>10, <1>11 DEF Structure

\* The tool goes on, or ends.
LEMMA ToolStep ==
  ASSUME ToolTypes, ToolInv, RowsKept, tool.step # "idle", ops' = ops,
         tool' = ToolIdle \/ \E step \in {"task", "record"} : tool' = [tool EXCEPT !.step = step]
  PROVE  ToolTypes' /\ ToolInv'
  <1>1. CASE tool' = ToolIdle
    <2>1. tool'.step = "idle" /\ ToolTypes'
      BY <1>1, BoundsAssumption DEF ToolIdle, ToolTypes, Steps
    <2>2. QED
      BY <2>1 DEF ToolInv
  <1>2. CASE \E step \in {"task", "record"} : tool' = [tool EXCEPT !.step = step]
    <2>1. PICK step \in {"task", "record"} : tool' = [tool EXCEPT !.step = step]
      BY <1>2
    <2>2. ToolTypes' /\ tool'.step = step /\ tool'.item = tool.item
      BY <2>1 DEF ToolTypes, Steps
    <2>3. PICK s \in Schedule : s = tool.item.id
      BY ToolItem
    <2>4. rows'[s].status # "absent" /\ ops[s] > 0
      BY <2>3 DEF ToolInv, Known, RowsKept
    <2>5. QED
      BY <2>2, <2>3, <2>4 DEF ToolInv, Known
  <1>3. QED
    BY <1>1, <1>2

\* The event or the task of a trigger of the tool, or of one given up.
LEMMA ToolCounted ==
  ASSUME NEW f \in [Schedule -> Nat], NEW s \in Schedule, NEW g, g = [f EXCEPT ![s] = @ + 1]
  PROVE  /\ g \in [Schedule -> Nat] /\ g[s] = f[s] + 1
         /\ \A u \in Schedule : u # s => g[u] = f[u]
  OBVIOUS

LEMMA ToolStructure ==
  ASSUME Structure, Tool
  PROVE  Structure'
  <1>1. /\ tool.step # "idle"
        /\ tool' = ToolIdle \/ \E step \in {"task", "record"} : tool' = [tool EXCEPT !.step = step]
        /\ UNCHANGED <<fired, ops, deliveries, now, up, turn>>
        /\ faults' = faults \/ faults' = faults + 1
        /\ orphans' = orphans \/ orphans' = [orphans EXCEPT ![tool.item.id] = @ + 1]
        /\ made' = made \/ made' = [made EXCEPT ![tool.item.id] = @ + 1]
        /\ rows' = rows \/ ToolRecord
    BY DEF Tool, ToolInsertEvent, ToolInsertTask, ToolError, ToolRecord, dbVars, histVars
  <1>2. TableTypes' /\ RowsKept
    <2>1. CASE rows' = rows
      BY <2>1, RowsUnchanged DEF Structure, TableTypes
    <2>2. CASE ToolRecord
      BY <2>2, ToolRecordWrites
    <2>3. QED
      BY <1>1, <2>1, <2>2
  <1>3. TurnInv' /\ TurnTypes'
    BY <1>1, <1>2, NowTypes, TurnKept DEF Structure
  <1>4. ToolTypes' /\ ToolInv'
    BY <1>1, <1>2, ToolStep DEF Structure
  <1>5. PICK s \in Schedule : s = tool.item.id /\ Known(s)
    BY <1>1, ToolItem DEF Structure, ToolInv
  <1>6. orphans' \in [Schedule -> Nat] /\ \A u \in Schedule : u # s => orphans'[u] = orphans[u]
    <2>1. CASE orphans' = orphans
      BY <2>1 DEF Structure, CountTypes
    <2>2. CASE orphans' = [orphans EXCEPT ![s] = @ + 1]
      BY <2>2, ToolCounted DEF Structure, CountTypes
    <2>3. QED
      BY <1>1, <1>5, <2>1, <2>2
  <1>7. made' \in [Schedule -> Nat] /\ \A u \in Schedule : u # s => made'[u] = made[u]
    <2>1. CASE made' = made
      BY <2>1 DEF Structure, CountTypes
    <2>2. CASE made' = [made EXCEPT ![s] = @ + 1]
      BY <2>2, ToolCounted DEF Structure, CountTypes
    <2>3. QED
      BY <1>1, <1>5, <2>1, <2>2
  <1>8. AbsentInv'
    BY <1>1, <1>2, <1>5, <1>6, <1>7, AbsentKept DEF Structure
  <1>9. CountTypes'
    BY <1>1, <1>6, <1>7 DEF Structure, CountTypes
  <1>10. QED
    BY <1>2, <1>3, <1>4, <1>8, <1>9 DEF Structure

LEMMA RehydrateStructure ==
  ASSUME Structure, NEW s \in Schedule, Rehydrate(s)
  PROVE  Structure'
  <1>1. /\ orphans[s] > 0
        /\ orphans' = [orphans EXCEPT ![s] = @ - 1]
        /\ made' = [made EXCEPT ![s] = @ + 1]
        /\ UNCHANGED <<rows, fired, ops, deliveries, faults, now, up, turn, tool>>
    BY DEF Rehydrate, histVars
  <1>2. orphans[s] \in Nat /\ made[s] \in Nat
    BY DEF Structure, CountTypes
  <1>3. TableTypes' /\ RowsKept /\ ops' \in [Schedule -> Nat] /\ \A u \in Schedule : ops[u] <= ops'[u]
    BY <1>1, TableUntouched
  <1>4. TurnInv' /\ TurnTypes'
    BY <1>1, <1>3, NowTypes, TurnKept DEF Structure
  <1>5. ToolTypes' /\ ToolInv'
    BY <1>1, <1>3, ToolKept DEF Structure, CountTypes
  <1>6. /\ orphans' \in [Schedule -> Nat] /\ made' \in [Schedule -> Nat]
        /\ \A u \in Schedule : u # s => orphans'[u] = orphans[u] /\ made'[u] = made[u]
    BY <1>1, <1>2 DEF Structure, CountTypes
  <1>7. Known(s)
    BY <1>1, <1>2 DEF Structure, AbsentInv
  <1>8. AbsentInv'
    BY <1>1, <1>3, <1>6, <1>7, AbsentKept DEF Structure
  <1>9. CountTypes'
    BY <1>1, <1>6 DEF Structure, CountTypes
  <1>10. QED
    BY <1>3, <1>4, <1>5, <1>8, <1>9 DEF Structure

LEMMA TickStructure ==
  ASSUME Structure, Tick
  PROVE  Structure'
  <1>1. /\ now < MaxTime /\ now' = now + 1
        /\ UNCHANGED <<rows, orphans, made, fired, ops, deliveries, faults, up, turn, tool>>
    BY DEF Tick, dbVars, histVars
  <1>2. TableTypes' /\ RowsKept /\ ops' \in [Schedule -> Nat] /\ \A u \in Schedule : ops[u] <= ops'[u]
    BY <1>1, TableUntouched
  <1>3. now \in Nat /\ now' \in 0..MaxTime /\ now' \in Nat /\ now <= now'
    BY <1>1, BoundsAssumption DEF Structure, CountTypes
  <1>4. TurnInv' /\ TurnTypes'
    BY <1>1, <1>2, <1>3, TurnKept DEF Structure
  <1>5. ToolTypes' /\ ToolInv'
    BY <1>1, <1>2, ToolKept DEF Structure, CountTypes
  <1>6. AbsentInv'
    BY <1>1, <1>2, AbsentKept DEF Structure
  <1>7. CountTypes'
    BY <1>1, <1>3 DEF Structure, CountTypes
  <1>8. QED
    BY <1>2, <1>4, <1>5, <1>6, <1>7 DEF Structure

LEMMA StutterStructure ==
  ASSUME Structure, UNCHANGED vars
  PROVE  Structure'
  <1>1. UNCHANGED <<rows, orphans, made, fired, ops, deliveries, faults, now, up, turn, tool>>
    BY DEF vars, dbVars, histVars
  <1>2. TableTypes' /\ CountTypes' /\ TurnTypes' /\ ToolTypes'
    BY <1>1 DEF Structure, TableTypes, CountTypes, TurnTypes, ToolTypes
  <1>3. TurnInv' /\ ToolInv' /\ AbsentInv'
    BY <1>1 DEF Structure, TurnInv, ToolInv, AbsentInv, Known, Positions
  <1>4. QED
    BY <1>2, <1>3 DEF Structure

LEMMA InitStructure ==
  ASSUME Init
  PROVE  Structure
  <1>1. 0 \in Time /\ 0 \in 0..MaxTime
    BY BoundsAssumption, PeriodAssumption DEF Time
  <1>2. NoRow \in Row /\ NoRow.status = "absent"
    BY <1>1 DEF NoRow, Row, Status
  <1>3. TableTypes /\ CountTypes
    BY <1>1, <1>2 DEF Init, TableTypes, CountTypes
  <1>4. TurnTypes /\ TurnInv
    BY <1>1 DEF Init, Idle, TurnTypes, TurnInv, Steps, Positions
  <1>5. ToolTypes /\ ToolInv
    BY <1>1 DEF Init, ToolIdle, ToolTypes, ToolInv, Steps
  <1>6. AbsentInv
    BY DEF Init, AbsentInv
  <1>7. QED
    BY <1>3, <1>4, <1>5, <1>6 DEF Structure

LEMMA NextStructure ==
  ASSUME Structure, [Next]_vars
  PROVE  Structure'
  <1>1. CASE SweepDue \/ Boot
    BY <1>1, SweepStructure
  <1>2. CASE Trigger
    BY <1>2, InsertEventStructure, InsertTaskStructure, RecordExecutionStructure,
       RecordFailsStructure, GivenUpStructure, DeleteStructure DEF Trigger
  <1>3. CASE Tool
    BY <1>3, ToolStructure
  <1>4. ASSUME NEW s \in Schedule, Operate(s) \/ Rehydrate(s)
        PROVE  Structure'
    BY <1>4, CreateStructure, OperatorTurnStructure, CommandStructure, ToolTriggerStructure,
       RehydrateStructure DEF Operate
  <1>5. CASE Tick
    BY <1>5, TickStructure
  <1>6. CASE Crash
    BY <1>6, GivenUpStructure
  <1>7. CASE UNCHANGED vars
    BY <1>7, StutterStructure
  <1>8. QED
    BY <1>1, <1>2, <1>3, <1>4, <1>5, <1>6, <1>7 DEF Next

\* A list of triggers names schedules there are, each once, and none that is not
\* due is in a sweep's; what the tool triggers is there too; a schedule that is
\* not was never triggered.
THEOREM StructureCorrect == Spec => []Structure
  BY InitStructure, NextStructure, PTL DEF Spec

LEMMA StructureTypes ==
  ASSUME Structure
  PROVE  TypeOK
  BY DEF Structure, TableTypes, CountTypes, TurnTypes, ToolTypes, TypeOK

\* The variables of the scheduler keep their types, a turn that is not idle has
\* a trigger at hand, and so has the tool.
THEOREM TypeCorrect == Spec => []TypeOK
  BY StructureCorrect, StructureTypes, PTL

-----------------------------------------------------------------------------
(* total_runs: RunsCounted is inductive, given the structure *)

TurnFlight(s) == IF turn.step = "record" /\ Current.id = s THEN 1 ELSE 0

ToolFlight(s) == IF tool.step = "record" /\ tool.item.id = s THEN 1 ELSE 0

Counted(s) ==
    /\ rows[s].total + InFlight(s) <= Triggers(s)
    /\ rows[s].max # Text => Triggers(s) <= rows[s].total + InFlight(s) + faults

LEMMA CountNumbers ==
  ASSUME Structure, NEW s \in Schedule
  PROVE  /\ rows[s].total \in Nat /\ made[s] \in Nat /\ orphans[s] \in Nat /\ ops[s] \in Nat
         /\ rows[s].max \in Int \cup {Text} /\ rows[s] \in Row
         /\ Triggers(s) = made[s] + orphans[s]
         /\ faults \in Nat /\ TurnFlight(s) \in 0..1 /\ ToolFlight(s) \in 0..1
         /\ InFlight(s) = TurnFlight(s) + ToolFlight(s)
  BY DEF Structure, TableTypes, CountTypes, Row, Triggers, TurnFlight, ToolFlight, InFlight

LEMMA CountedSame ==
  ASSUME Structure, NEW s \in Schedule, Counted(s),
         rows'[s].total = rows[s].total, rows'[s].max = rows[s].max,
         made'[s] = made[s], orphans'[s] = orphans[s], faults' = faults, TurnFlight(s)' = TurnFlight(s), ToolFlight(s)' = ToolFlight(s)
  PROVE  Counted(s)'
  <1>1. InFlight(s)' = InFlight(s)
    BY DEF InFlight, TurnFlight, ToolFlight
  <1>2. Triggers(s)' = Triggers(s)
    BY DEF Triggers
  <1>3. QED
    BY <1>1, <1>2 DEF Counted

\* Steps that neither write a row nor make or give up an event or a task.
LEMMA QuietCounted ==
  ASSUME Structure, NEW s \in Schedule, Counted(s),
         \/ SweepDue \/ Boot \/ InsertEvent \/ (\E u \in Schedule : TriggerNow(u) \/ ToolTrigger(u))
         \/ ToolInsertEvent \/ Tick \/ UNCHANGED vars
  PROVE  Counted(s)' /\ rows' = rows
  <1>1. rows' = rows /\ made' = made /\ orphans' = orphans /\ faults' = faults
    BY DEF SweepDue, Boot, InsertEvent, TriggerNow, ToolTrigger, ToolInsertEvent, Tick,
           vars, dbVars, histVars
  <1>2. turn' = turn \/ (turn.step # "record" /\ turn'.step # "record")
    <2>1. CASE SweepDue \/ Boot
      <3>1. turn.step = "idle" /\ BeginSweep
        BY <2>1 DEF SweepDue, Boot, LoopFree, Structure, TurnInv
      <3>2. turn'.step # "record"
        BY <3>1 DEF BeginSweep, Idle
      <3>3. QED
        BY <3>1, <3>2
    <2>2. CASE InsertEvent
      BY <2>2 DEF InsertEvent, Structure, TurnTypes
    <2>3. CASE \E u \in Schedule : TriggerNow(u)
      BY <2>3 DEF TriggerNow, LoopFree
    <2>4. CASE (\E u \in Schedule : ToolTrigger(u)) \/ ToolInsertEvent \/ Tick \/ UNCHANGED vars
      BY <2>4 DEF ToolTrigger, ToolInsertEvent, Tick, vars
    <2>5. QED
      BY <2>1, <2>2, <2>3, <2>4
  <1>3. tool' = tool \/ (tool.step # "record" /\ tool'.step # "record")
    <2>1. CASE \E u \in Schedule : ToolTrigger(u)
      BY <2>1 DEF ToolTrigger
    <2>2. CASE ToolInsertEvent
      BY <2>2 DEF ToolInsertEvent, Structure, ToolTypes
    <2>3. CASE \/ SweepDue \/ Boot \/ InsertEvent \/ (\E u \in Schedule : TriggerNow(u))
               \/ Tick \/ UNCHANGED vars
      BY <2>3 DEF SweepDue, Boot, InsertEvent, TriggerNow, Tick, vars
    <2>4. QED
      BY <2>1, <2>2, <2>3
  <1>4. TurnFlight(s)' = TurnFlight(s)
    BY <1>2 DEF TurnFlight, Current
  <1>5. ToolFlight(s)' = ToolFlight(s)
    BY <1>3 DEF ToolFlight
  <1>6. QED
    BY <1>1, <1>4, <1>5, CountedSame

LEMMA InsertTaskCounted ==
  ASSUME Structure, NEW s \in Schedule, Counted(s), InsertTask
  PROVE  Counted(s)' /\ rows' = rows
  <1>1. /\ turn.step = "task" /\ turn' = [turn EXCEPT !.step = "record"]
        /\ UNCHANGED <<rows, orphans, faults, tool>>
        /\ made'[Current.id] = made[Current.id] + 1
        /\ \A u \in Schedule : u # Current.id => made'[u] = made[u]
    BY TaskInserted
  <1>2. turn'.step = "record" /\ turn'.todo = turn.todo
    BY <1>1 DEF Structure, TurnTypes
  <1>3. Current' = Current
    BY <1>2 DEF Current
  <1>4. TurnFlight(s) = 0 /\ TurnFlight(s)' = (IF Current.id = s THEN 1 ELSE 0)
        /\ ToolFlight(s)' = ToolFlight(s)
    BY <1>1, <1>2, <1>3 DEF TurnFlight, ToolFlight
  <1>5. InFlight(s)' = TurnFlight(s)' + ToolFlight(s)'
    BY DEF InFlight, TurnFlight, ToolFlight
  <1>6. QED
    BY <1>1, <1>4, <1>5, CountNumbers DEF Counted, Triggers

LEMMA RecordExecutionCounted ==
  ASSUME Structure, NEW s \in Schedule, Present(s) => Counted(s), RecordExecution, Present(s)'
  PROVE  Counted(s)'
  <1>1. /\ rows'[Current.id] =
              Recorded(rows[Current.id], Current.row, turn.at, NewStatus(Current.row))
        /\ \A u \in Schedule : u # Current.id => rows'[u] = rows[u]
        /\ NextItem /\ turn.step = "record"
        /\ UNCHANGED <<orphans, made, faults, tool>>
    BY RecordExecutionWrites DEF RecordExecution, histVars
  <1>2. turn'.step # "record"
    BY <1>1, NextItemDrops DEF Structure
  <1>3. /\ TurnFlight(s)' = 0 /\ TurnFlight(s) = (IF Current.id = s THEN 1 ELSE 0)
        /\ ToolFlight(s)' = ToolFlight(s)
    BY <1>1, <1>2 DEF TurnFlight, ToolFlight
  <1>4. InFlight(s)' = TurnFlight(s)' + ToolFlight(s)'
    BY DEF InFlight, TurnFlight, ToolFlight
  <1>5. CASE Current.id = s
    <2>1. /\ rows[s] \in Row /\ Current.row \in Row /\ turn.at \in 0..MaxTime /\ Known(s)
          /\ NewStatus(Current.row) \in Status
      BY <1>1, <1>5, CurrentItem, CountNumbers, StatusTypes DEF Structure, TurnInv, Known
    <2>2. rows[s].status # "deleted" /\ rows'[s].total = rows[s].total + 1
          /\ rows'[s].max = rows[s].max
      BY <1>1, <1>5, <2>1, RecordedType DEF Present
    <2>3. Counted(s)
      BY <2>1, <2>2 DEF Present, Known
    <2>4. QED
      BY <1>1, <1>3, <1>4, <1>5, <2>2, <2>3, CountNumbers DEF Counted, Triggers
  <1>6. CASE Current.id # s
    BY <1>1, <1>3, <1>4, <1>6, CountNumbers DEF Counted, Triggers, Present
  <1>7. QED
    BY <1>5, <1>6

LEMMA GivenUpCounted ==
  ASSUME Structure, NEW s \in Schedule, Counted(s), TriggerError \/ Crash
  PROVE  Counted(s)' /\ rows' = rows
  <1>1. /\ UNCHANGED <<rows, made, tool>> /\ orphans' = Abandoned /\ faults' = faults + 1
        /\ turn'.step # "record"
    <2>1. CASE TriggerError
      BY <2>1, NextItemDrops DEF TriggerError, Structure
    <2>2. CASE Crash
      BY <2>2 DEF Crash, Idle
    <2>3. QED
      BY <2>1, <2>2
  <1>2. orphans'[s] = orphans[s] + (IF turn.step = "task" /\ Current.id = s THEN 1 ELSE 0)
    BY <1>1, AbandonedEvents DEF Structure, CountTypes
  <1>3. TurnFlight(s)' = 0 /\ ToolFlight(s)' = ToolFlight(s)
    BY <1>1 DEF TurnFlight, ToolFlight
  <1>4. InFlight(s)' = TurnFlight(s)' + ToolFlight(s)'
    BY DEF InFlight, TurnFlight, ToolFlight
  <1>5. turn.step = "task" => TurnFlight(s) = 0
    BY DEF TurnFlight
  <1>6. QED
    BY <1>1, <1>2, <1>3, <1>4, <1>5, CountNumbers DEF Counted, Triggers

\* A trigger that is never recorded: only its own schedule misses it.
LEMMA RecordFailsCounted ==
  ASSUME Structure, NEW s \in Schedule, Counted(s), RecordFails
  PROVE  Counted(s)' /\ rows' = rows
  <1>1. /\ UNCHANGED <<rows, made, orphans, faults, tool>> /\ NextItem
        /\ turn.step = "record" /\ Current.row.max = Text
    BY DEF RecordFails, dbVars, histVars
  <1>2. turn'.step # "record"
    BY <1>1, NextItemDrops DEF Structure
  <1>3. /\ TurnFlight(s)' = 0 /\ TurnFlight(s) = (IF Current.id = s THEN 1 ELSE 0)
        /\ ToolFlight(s)' = ToolFlight(s)
    BY <1>1, <1>2 DEF TurnFlight, ToolFlight
  <1>4. InFlight(s)' = TurnFlight(s)' + ToolFlight(s)'
    BY DEF InFlight, TurnFlight, ToolFlight
  <1>5. Current.id = s => rows[s].max = Text
    BY <1>1, CurrentItem DEF Structure, TurnInv
  <1>6. Triggers(s)' = Triggers(s)
    BY <1>1 DEF Triggers
  <1>7. QED
    BY <1>1, <1>3, <1>4, <1>5, <1>6, CountNumbers DEF Counted

\* Operators' commands leave the runs of a schedule alone.
LEMMA CommandCounted ==
  ASSUME Structure, NEW s \in Schedule, Present(s) => Counted(s), Present(s)',
         \/ Delete
         \/ \E u \in Schedule : Pause(u) \/ ToolPause(u) \/ Resume(u) \/ ToolResume(u)
                                  \/ ToolDelete(u) \/ Cancel(u)
  PROVE  Counted(s)'
  <1>1. /\ UNCHANGED <<made, orphans, faults, tool>>
        /\ turn' = turn \/ (turn.step # "record" /\ turn'.step # "record")
    <2>1. CASE Delete
      BY <2>1 DEF Delete, Idle, histVars
    <2>2. ASSUME NEW u \in Schedule,
                 Pause(u) \/ ToolPause(u) \/ Resume(u) \/ ToolResume(u) \/ ToolDelete(u)
          PROVE  UNCHANGED <<made, orphans, faults, tool, turn>>
      BY <2>2 DEF Pause, ToolPause, Resume, ToolResume, ToolDelete, Stopped, Restarted
    <2>3. ASSUME NEW u \in Schedule, Cancel(u)
          PROVE  /\ UNCHANGED <<made, orphans, faults, tool>>
                 /\ turn.step # "record" /\ turn'.step # "record"
      BY <2>3 DEF Cancel, LoopFree
    <2>4. QED
      BY <2>1, <2>2, <2>3
  <1>2. TurnFlight(s)' = TurnFlight(s) /\ ToolFlight(s)' = ToolFlight(s)
    BY <1>1 DEF TurnFlight, ToolFlight, Current
  <1>3. rows'[s].total = rows[s].total /\ rows'[s].max = rows[s].max /\ Present(s)
    <2>1. CASE Delete
      <3>1. PICK u \in Schedule : u = Current.id
        BY <2>1, CurrentItem DEF Delete, Structure
      <3>2. rows' = [rows EXCEPT ![u].status = "deleted"]
        BY <2>1, <3>1 DEF Delete
      <3>3. QED
        BY <3>2, StatusSet DEF Structure, Present
    <2>2. ASSUME NEW u \in Schedule, Pause(u) \/ ToolPause(u)
          PROVE  rows'[s].total = rows[s].total /\ rows'[s].max = rows[s].max /\ Present(s)
      <3>1. rows' = [rows EXCEPT ![u].status = "paused"] /\ Present(u)
        BY <2>2 DEF Pause, ToolPause, Stopped
      <3>2. QED
        BY <3>1, StatusSet DEF Structure, Present
    <2>3. ASSUME NEW u \in Schedule, Resume(u) \/ ToolResume(u)
          PROVE  rows'[s].total = rows[s].total /\ rows'[s].max = rows[s].max /\ Present(s)
      <3>1. Restarted(u) /\ Present(u)
        BY <2>3 DEF Resume, ToolResume, Restarted
      <3>2. QED
        BY <3>1, RestartedRow DEF Structure, CountTypes, Present
    <2>4. ASSUME NEW u \in Schedule, ToolDelete(u)
          PROVE  rows'[s].total = rows[s].total /\ rows'[s].max = rows[s].max /\ Present(s)
      <3>1. rows' = [rows EXCEPT ![u].status = "deleted"] /\ Present(u)
        BY <2>4 DEF ToolDelete
      <3>2. QED
        BY <3>1, StatusSet DEF Structure, Present
    <2>5. ASSUME NEW u \in Schedule, Cancel(u)
          PROVE  rows'[s].total = rows[s].total /\ rows'[s].max = rows[s].max /\ Present(s)
      <3>1. rows' = [rows EXCEPT ![u].status = "cancelled"] /\ Present(u)
        BY <2>5 DEF Cancel
      <3>2. QED
        BY <3>1, StatusSet DEF Structure, Present
    <2>6. QED
      BY <2>1, <2>2, <2>3, <2>4, <2>5
  <1>4. QED
    BY <1>1, <1>2, <1>3, CountedSame

LEMMA CreateCounted ==
  ASSUME Structure, NEW s \in Schedule, Present(s) => Counted(s), Present(s)',
         NEW u \in Schedule,
         CreateSchedule(u) \/ (\E d \in Delivery : ReceiveScheduled(d, u)) \/ ToolCreate(u)
  PROVE  Counted(s)'
  <1>1. /\ NewSchedule(u) \/ ToolCreate(u)
        /\ UNCHANGED <<orphans, made, faults, turn, tool>>
    BY DEF CreateSchedule, ReceiveScheduled, ToolCreate, histVars
  <1>2. ~Known(u)
    BY <1>1, Created DEF Structure, CountTypes
  <1>3. PICK row \in Row : rows' = [rows EXCEPT ![u] = row] /\ row.status = "active" /\ row.total = 0
    BY <1>1, Created DEF Structure, CountTypes
  <1>4. rows'[u] = row /\ \A v \in Schedule : v # u => rows'[v] = rows[v]
    BY <1>2, <1>3, RowWritten DEF Structure
  <1>5. TurnFlight(s)' = TurnFlight(s) /\ ToolFlight(s)' = ToolFlight(s)
    BY <1>1 DEF TurnFlight, ToolFlight, Current
  <1>6. CASE s = u
    <2>1. made[s] = 0 /\ orphans[s] = 0
      BY <1>2, <1>6 DEF Structure, AbsentInv
    <2>2. TurnFlight(s) = 0
      BY <1>2, <1>6, CurrentItem DEF TurnFlight, Structure, TurnInv
    <2>3. ToolFlight(s) = 0
      BY <1>2, <1>6 DEF ToolFlight, Structure, ToolInv
    <2>4. InFlight(s)' = TurnFlight(s)' + ToolFlight(s)'
      BY DEF InFlight, TurnFlight, ToolFlight
    <2>5. QED
      BY <1>1, <1>3, <1>4, <1>5, <1>6, <2>1, <2>2, <2>3, <2>4, CountNumbers DEF Counted, Triggers
  <1>7. CASE s # u
    <2>1. rows'[s] = rows[s]
      BY <1>4, <1>7
    <2>2. QED
      BY <1>1, <1>5, <2>1, CountedSame DEF Present
  <1>8. QED
    BY <1>6, <1>7

LEMMA ToolCommitCounted ==
  ASSUME Structure, NEW s \in Schedule, Counted(s), ToolInsertTask \/ ToolError
  PROVE  Counted(s)' /\ rows' = rows
  <1>1. tool.item.id \in Schedule
    BY ToolItem DEF Structure, ToolInsertTask, ToolError
  <1>2. rows' = rows /\ TurnFlight(s)' = TurnFlight(s)
    BY DEF ToolInsertTask, ToolError, TurnFlight, Current
  <1>3. InFlight(s)' = TurnFlight(s)' + ToolFlight(s)'
    BY DEF InFlight, TurnFlight, ToolFlight
  <1>4. made \in [Schedule -> Nat] /\ orphans \in [Schedule -> Nat]
    BY DEF Structure, CountTypes
  <1>5. CASE ToolInsertTask
    <2>1. /\ tool.step = "task" /\ tool'.step = "record" /\ tool'.item = tool.item
          /\ made' = [made EXCEPT ![tool.item.id] = @ + 1]
          /\ orphans' = orphans /\ faults' = faults
      BY <1>5 DEF ToolInsertTask, histVars, Structure, ToolTypes
    <2>2. made'[s] = made[s] + (IF tool.item.id = s THEN 1 ELSE 0)
      BY <1>1, <1>4, <2>1, CountNumbers
    <2>3. ToolFlight(s) = 0 /\ ToolFlight(s)' = (IF tool.item.id = s THEN 1 ELSE 0)
      BY <2>1 DEF ToolFlight
    <2>4. QED
      BY <1>2, <1>3, <2>1, <2>2, <2>3, CountNumbers DEF Counted, Triggers
  <1>6. CASE ToolError
    <2>1. /\ tool'.step = "idle" /\ made' = made /\ faults' = faults + 1
          /\ orphans' = IF tool.step = "task"
                        THEN [orphans EXCEPT ![tool.item.id] = @ + 1] ELSE orphans
      BY <1>6 DEF ToolError, ToolIdle
    <2>2. orphans'[s] = orphans[s] + (IF tool.step = "task" /\ tool.item.id = s THEN 1 ELSE 0)
      BY <1>1, <1>4, <2>1, CountNumbers
    <2>3. ToolFlight(s)' = 0 /\ (tool.step = "task" => ToolFlight(s) = 0)
      BY <2>1 DEF ToolFlight
    <2>4. QED
      BY <1>2, <1>3, <2>1, <2>2, <2>3, CountNumbers DEF Counted, Triggers
  <1>7. QED
    BY <1>2, <1>5, <1>6

LEMMA ToolRecordCounted ==
  ASSUME Structure, NEW s \in Schedule, Present(s) => Counted(s), ToolRecord, Present(s)'
  PROVE  Counted(s)'
  <1>1. /\ rows'[tool.item.id] =
              Recorded(rows[tool.item.id], tool.item.row, tool.at,
                       ToolStatus(tool.item.row, rows[tool.item.id]))
        /\ \A u \in Schedule : u # tool.item.id => rows'[u] = rows[u]
        /\ tool.step = "record" /\ tool'.step = "idle"
        /\ UNCHANGED <<orphans, made, faults, turn>>
    BY ToolRecordWrites DEF ToolRecord, histVars, ToolIdle
  <1>2. /\ ToolFlight(s)' = 0 /\ ToolFlight(s) = (IF tool.item.id = s THEN 1 ELSE 0)
        /\ TurnFlight(s)' = TurnFlight(s)
    BY <1>1 DEF TurnFlight, ToolFlight, Current
  <1>3. InFlight(s)' = TurnFlight(s)' + ToolFlight(s)'
    BY DEF InFlight, TurnFlight, ToolFlight
  <1>4. CASE tool.item.id = s
    <2>1. /\ rows[s] \in Row /\ tool.item.row \in Row /\ tool.at \in 0..MaxTime /\ Known(s)
      BY <1>1, <1>4, ToolItem, CountNumbers DEF Structure, ToolInv
    <2>2. ToolStatus(tool.item.row, rows[s]) \in Status
      BY <2>1, StatusTypes DEF Known
    <2>3. rows[s].status # "deleted" /\ rows'[s].total = rows[s].total + 1
          /\ rows'[s].max = rows[s].max
      BY <1>1, <1>4, <2>1, <2>2, RecordedType DEF Present
    <2>4. Counted(s)
      BY <2>1, <2>3 DEF Present, Known
    <2>5. QED
      BY <1>1, <1>2, <1>3, <1>4, <2>3, <2>4, CountNumbers DEF Counted, Triggers
  <1>5. CASE tool.item.id # s
    BY <1>1, <1>2, <1>3, <1>5, CountNumbers DEF Counted, Triggers, Present
  <1>6. QED
    BY <1>4, <1>5

\* The task sweeper turns an event without a task into one with a task.
LEMMA RehydrateCounted ==
  ASSUME Structure, NEW s \in Schedule, Counted(s), NEW u \in Schedule, Rehydrate(u)
  PROVE  Counted(s)' /\ rows' = rows
  <1>1. /\ rows' = rows /\ faults' = faults /\ turn' = turn /\ tool' = tool
        /\ orphans' = [orphans EXCEPT ![u] = @ - 1]
        /\ made' = [made EXCEPT ![u] = @ + 1]
    BY DEF Rehydrate, histVars
  <1>2. orphans \in [Schedule -> Nat] /\ made \in [Schedule -> Nat]
    BY DEF Structure, CountTypes
  <1>3. made'[s] + orphans'[s] = made[s] + orphans[s]
    BY <1>1, <1>2, CountNumbers
  <1>4. InFlight(s)' = InFlight(s)
    BY <1>1 DEF InFlight, Current
  <1>5. QED
    BY <1>1, <1>3, <1>4 DEF Counted, Triggers

LEMMA NextCounted ==
  ASSUME Structure, RunsCounted, [Next]_vars
  PROVE  RunsCounted'
  <1> SUFFICES ASSUME NEW s \in Schedule, Present(s)'
               PROVE  Counted(s)'
    BY DEF RunsCounted, Counted
  <1>1. Present(s) => Counted(s)
    BY DEF RunsCounted, Counted
  <1>2. CASE \E u \in Schedule : CreateSchedule(u) \/ (\E d \in Delivery : ReceiveScheduled(d, u))
                                   \/ ToolCreate(u)
    BY <1>1, <1>2, CreateCounted
  <1>3. CASE \/ SweepDue \/ Boot \/ InsertEvent \/ (\E u \in Schedule : TriggerNow(u) \/ ToolTrigger(u))
             \/ ToolInsertEvent \/ Tick \/ UNCHANGED vars
    <2>1. rows' = rows
      BY <1>3 DEF SweepDue, Boot, InsertEvent, TriggerNow, ToolTrigger, ToolInsertEvent, Tick,
                  vars, dbVars
    <2>2. QED
      BY <1>1, <1>3, <2>1, QuietCounted DEF Present
  <1>4. CASE InsertTask \/ RecordFails \/ TriggerError \/ Crash \/ ToolInsertTask \/ ToolError
             \/ (\E u \in Schedule : Rehydrate(u))
    <2>1. rows' = rows
      BY <1>4 DEF InsertTask, RecordFails, TriggerError, Crash, ToolInsertTask, ToolError,
                  Rehydrate, dbVars
    <2>2. QED
      BY <1>1, <1>4, <2>1, InsertTaskCounted, RecordFailsCounted, GivenUpCounted, ToolCommitCounted, RehydrateCounted
         DEF Present
  <1>5. CASE RecordExecution
    BY <1>1, <1>5, RecordExecutionCounted
  <1>6. CASE ToolRecord
    BY <1>1, <1>6, ToolRecordCounted
  <1>7. CASE \/ Delete
             \/ \E u \in Schedule : Pause(u) \/ ToolPause(u) \/ Resume(u) \/ ToolResume(u)
                                      \/ ToolDelete(u) \/ Cancel(u)
    BY <1>1, <1>7, CommandCounted
  <1>8. QED
    BY <1>2, <1>3, <1>4, <1>5, <1>6, <1>7 DEF Next, Trigger, Tool, Operate

\* total_runs of a schedule is the number of its triggers, but for those between
\* two of their commits and one for every crash and error: no update of it is
\* lost, however the daemon and the tool interleave. It is never more than that
\* even if max_runs is no number.
THEOREM RunsCountedCorrect == Spec => []RunsCounted
  <1>1. Init => RunsCounted
    <2>1. ASSUME Init, NEW s \in Schedule PROVE ~Present(s)
      BY <2>1 DEF Init, NoRow, Present
    <2>2. QED
      BY <2>1 DEF RunsCounted
  <1>2. Structure /\ RunsCounted /\ [Next]_vars => RunsCounted'
    BY NextCounted
  <1>3. QED
    BY <1>1, <1>2, StructureCorrect, PTL DEF Spec

-----------------------------------------------------------------------------
(* max_runs: a run that is sure to be counted is counted before it is *)

Held(s) == tool.step # "idle" /\ tool.item.id = s

InTurn(s, by) == turn.by = by /\ \E i \in Positions : turn.todo[i].id = s

\* A run the tool holds; one the sweep will give the schedule or holds; one an
\* operator asked the daemon for.
HeldRun(s) == IF Held(s) THEN 1 ELSE 0

DueRun(s) == IF rows[s].status = "active" \/ InTurn(s, "timer") THEN 1 ELSE 0

AskedRun(s) == IF InTurn(s, "operator") /\ turn.step # "delete" THEN 1 ELSE 0

Limited(s) ==
    rows[s].max \notin {0, Text} =>
        rows[s].total + HeldRun(s) + DueRun(s) + AskedRun(s)
            <= Larger(1, rows[s].max) + ops[s]

\* What a turn read of total_runs is behind by no more than the commands since.
Fresh(s) ==
    \A i \in Positions : turn.todo[i].id = s =>
        rows[s].total + HeldRun(s) <= turn.todo[i].row.total + ops[s]

MaxInv == \A s \in Schedule : Limited(s) /\ Fresh(s)

LEMMA RunNumbers ==
  ASSUME Structure, NEW s \in Schedule
  PROVE  /\ HeldRun(s) \in 0..1 /\ DueRun(s) \in 0..1 /\ AskedRun(s) \in 0..1
         /\ rows[s].total \in Nat /\ ops[s] \in Nat
         /\ rows[s].max # Text => rows[s].max \in Int
         /\ HeldRun(s) <= ops[s]
         /\ \A i \in Positions : turn.todo[i].row.total \in Nat
  <1>1. rows[s].total \in Nat /\ (rows[s].max # Text => rows[s].max \in Int) /\ ops[s] \in Nat
    BY CountNumbers
  <1>2. HeldRun(s) <= ops[s]
    BY <1>1 DEF HeldRun, Held, Structure, ToolInv
  <1>3. \A i \in Positions : turn.todo[i].row.total \in Nat
    BY ItemAt DEF Structure, Row
  <1>4. QED
    BY <1>1, <1>2, <1>3 DEF HeldRun, DueRun, AskedRun

\* A step that writes no total, whose new runs are all commanded.
LEMMA LimitedKept ==
  ASSUME Structure, Structure', NEW s \in Schedule, Limited(s), Fresh(s),
         rows'[s].max = rows[s].max, rows'[s].total = rows[s].total,
         HeldRun(s)' + DueRun(s)' + AskedRun(s)' - ops'[s]
             <= HeldRun(s) + DueRun(s) + AskedRun(s) - ops[s],
         HeldRun(s)' - ops'[s] <= HeldRun(s) - ops[s],
         \A i \in Positions' : turn'.todo[i].id = s =>
             \/ \E j \in Positions : turn'.todo[i] = turn.todo[j]
             \/ turn'.todo[i].row.total = rows'[s].total
  PROVE  Limited(s)' /\ Fresh(s)'
  <1>1. /\ HeldRun(s)' \in 0..1 /\ DueRun(s)' \in 0..1 /\ AskedRun(s)' \in 0..1
        /\ rows'[s].total \in Nat /\ ops'[s] \in Nat
        /\ HeldRun(s)' <= ops'[s]
    BY RunNumbers, CountNumbers DEF HeldRun, DueRun, AskedRun, Held, Structure, CountTypes, ToolInv
  <1>2. Limited(s)'
    BY <1>1, RunNumbers DEF Limited, Larger
  <1>3. ASSUME NEW i \in Positions', turn'.todo[i].id = s
        PROVE  rows'[s].total + HeldRun(s)' <= turn'.todo[i].row.total + ops'[s]
    <2>1. CASE \E j \in Positions : turn'.todo[i] = turn.todo[j]
      <3>1. PICK j \in Positions : turn'.todo[i] = turn.todo[j]
        BY <2>1
      <3>2. /\ rows[s].total + HeldRun(s) <= turn.todo[j].row.total + ops[s]
            /\ turn.todo[j].row.total \in Nat
        BY <1>3, <3>1, RunNumbers DEF Fresh
      <3>3. QED
        BY <1>1, <3>1, <3>2, RunNumbers
    <2>2. CASE turn'.todo[i].row.total = rows'[s].total
      BY <1>1, <2>2
    <2>3. QED
      BY <1>3, <2>1, <2>2
  <1>4. QED
    BY <1>2, <1>3 DEF Fresh

\* The items left when the first is dropped are not about its schedule.
LEMMA ItemsLeft ==
  ASSUME Structure, turn.step # "idle", NextItem \/ turn' = Idle
  PROVE  /\ \A i \in Positions' : \E j \in Positions :
               turn'.todo[i] = turn.todo[j] /\ turn.todo[j].id # Current.id
         /\ turn'.step \in {"idle", "event"}
         /\ \A s, by : InTurn(s, by)' => InTurn(s, by) /\ s # Current.id
         /\ turn'.step = "idle" => Positions' = {}
         /\ turn'.step # "idle" => turn'.by = turn.by /\ turn'.at = turn.at
  <1>1. CASE turn' = Idle
    <2>1. turn'.todo = <<>> /\ turn'.step = "idle"
      BY <1>1 DEF Idle
    <2>2. Positions' = {}
      BY <2>1 DEF Positions
    <2>3. QED
      BY <2>1, <2>2 DEF InTurn
  <1>2. CASE NextItem
    <2>1. /\ turn'.step \in {"idle", "event"}
          /\ turn'.step # "idle" => turn'.by = turn.by /\ turn'.at = turn.at
          /\ Len(turn'.todo) = Len(turn.todo) - 1 /\ TurnTypes'
          /\ \A i \in Positions' : i + 1 \in Positions /\ turn'.todo[i] = turn.todo[i + 1]
      BY <1>2, NextItemDrops DEF Structure
    <2>2. turn'.step = "idle" => Positions' = {}
      BY <2>1 DEF TurnTypes, Positions
    <2>3. ASSUME NEW i \in Positions'
          PROVE  /\ i + 1 \in Positions /\ turn'.todo[i] = turn.todo[i + 1]
                 /\ turn.todo[i + 1].id # Current.id
      <3>1. i + 1 \in Positions /\ turn'.todo[i] = turn.todo[i + 1] /\ i + 1 # 1
        BY <2>1 DEF Positions
      <3>2. 1 \in Positions /\ Current = turn.todo[1]
        BY CurrentItem DEF Structure
      <3>3. QED
        BY <3>1, <3>2 DEF Structure, TurnInv
    <2>4. ASSUME NEW s, NEW by, InTurn(s, by)'
          PROVE  InTurn(s, by) /\ s # Current.id
      <3>1. PICK i \in Positions' : turn'.todo[i].id = s
        BY <2>4 DEF InTurn
      <3>2. i + 1 \in Positions /\ turn.todo[i + 1].id = s /\ s # Current.id
        BY <2>3, <3>1
      <3>3. turn'.by = by /\ turn'.by = turn.by
        BY <2>1, <2>2, <2>4, <3>1 DEF InTurn
      <3>4. QED
        BY <3>2, <3>3 DEF InTurn
    <2>5. QED
      BY <2>1, <2>2, <2>3, <2>4
  <1>3. QED
    BY <1>1, <1>2

\* Steps that leave the triggers of a schedule as they are.
LEMMA QuietLimited ==
  ASSUME Structure, Structure', NEW s \in Schedule, Limited(s), Fresh(s),
         rows'[s] = rows[s], ops'[s] = ops[s],
         turn'.todo = turn.todo, turn'.by = turn.by,
         turn'.step = "delete" <=> turn.step = "delete",
         Held(s)' <=> Held(s)
  PROVE  Limited(s)' /\ Fresh(s)'
  <1>1. Positions' = Positions
    BY DEF Positions
  <1>2. HeldRun(s)' = HeldRun(s) /\ DueRun(s)' = DueRun(s) /\ AskedRun(s)' = AskedRun(s)
    BY <1>1 DEF HeldRun, DueRun, AskedRun, InTurn
  <1>3. QED
    BY <1>1, <1>2, LimitedKept, RunNumbers

LEMMA StillLimited ==
  ASSUME Structure, Structure', NEW s \in Schedule, Limited(s), Fresh(s),
         \/ InsertEvent \/ InsertTask \/ ToolInsertEvent \/ ToolInsertTask \/ Tick
         \/ (\E u \in Schedule : Rehydrate(u)) \/ UNCHANGED vars
  PROVE  Limited(s)' /\ Fresh(s)'
  <1>1. rows' = rows /\ ops' = ops
    BY DEF InsertEvent, InsertTask, ToolInsertEvent, ToolInsertTask, Tick, Rehydrate, vars,
           dbVars, histVars
  <1>2. /\ turn'.todo = turn.todo /\ turn'.by = turn.by
        /\ turn'.step = "delete" <=> turn.step = "delete"
    <2>1. CASE InsertEvent \/ InsertTask
      BY <2>1 DEF InsertEvent, InsertTask, Structure, TurnTypes
    <2>2. CASE \/ ToolInsertEvent \/ ToolInsertTask \/ Tick
               \/ (\E u \in Schedule : Rehydrate(u)) \/ UNCHANGED vars
      BY <2>2 DEF ToolInsertEvent, ToolInsertTask, Tick, Rehydrate, vars
    <2>3. QED
      BY <2>1, <2>2
  <1>3. Held(s)' <=> Held(s)
    <2>1. CASE ToolInsertEvent \/ ToolInsertTask
      BY <2>1 DEF ToolInsertEvent, ToolInsertTask, Structure, ToolTypes, Held
    <2>2. CASE InsertEvent \/ InsertTask \/ Tick
               \/ (\E u \in Schedule : Rehydrate(u)) \/ UNCHANGED vars
      BY <2>2 DEF InsertEvent, InsertTask, Tick, Rehydrate, vars, Held
    <2>3. QED
      BY <2>1, <2>2
  <1>4. QED
    BY <1>1, <1>2, <1>3, QuietLimited

LEMMA SweepLimited ==
  ASSUME Structure, Structure', NEW s \in Schedule, Limited(s), Fresh(s), SweepDue \/ Boot
  PROVE  Limited(s)' /\ Fresh(s)'
  <1>1. rows' = rows /\ ops' = ops /\ tool' = tool /\ now' = now /\ BeginSweep /\ up'
    <2>1. CASE SweepDue
      BY <2>1 DEF SweepDue, LoopFree, dbVars, histVars
    <2>2. CASE Boot
      BY <2>2 DEF Boot, dbVars, histVars
    <2>3. QED
      BY <2>1, <2>2
  <1>2. /\ turn'.by = "timer"
        /\ \A i \in Positions' : LET u == turn'.todo[i].id
                                 IN  u \in Schedule /\ Due(u) /\ turn'.todo[i].row = rows[u]
    BY <1>1, SweepBegun DEF Structure, TableTypes, CountTypes
  <1>3. InTurn(s, "timer")' => rows[s].status = "active"
    BY <1>2 DEF InTurn, Due
  <1>4. DueRun(s)' <= DueRun(s) /\ AskedRun(s)' = 0 /\ HeldRun(s)' = HeldRun(s)
    BY <1>1, <1>2, <1>3 DEF DueRun, AskedRun, HeldRun, Held, InTurn
  <1>5. \A i \in Positions' : turn'.todo[i].id = s => turn'.todo[i].row.total = rows'[s].total
    BY <1>1, <1>2
  <1>6. DueRun(s)' \in 0..1
    BY DEF DueRun
  <1>7. QED
    BY <1>1, <1>4, <1>5, <1>6, LimitedKept, RunNumbers

LEMMA GivenUpLimited ==
  ASSUME Structure, Structure', NEW s \in Schedule, Limited(s), Fresh(s),
         TriggerError \/ RecordFails \/ Crash
  PROVE  Limited(s)' /\ Fresh(s)'
  <1>1. rows' = rows /\ ops' = ops /\ tool' = tool
    BY DEF TriggerError, RecordFails, Crash, dbVars, histVars
  <1>2. HeldRun(s)' = HeldRun(s) /\ DueRun(s)' \in 0..1 /\ AskedRun(s)' \in 0..1
    BY <1>1 DEF HeldRun, Held, DueRun, AskedRun
  <1>3. CASE turn.step # "idle"
    <2>1. /\ \A i \in Positions' : \E j \in Positions : turn'.todo[i] = turn.todo[j]
          /\ turn'.step # "delete"
          /\ \A by : InTurn(s, by)' => InTurn(s, by)
      BY <1>3, ItemsLeft DEF TriggerError, RecordFails, Crash
    <2>2. DueRun(s)' <= DueRun(s)
      BY <1>1, <2>1 DEF DueRun
    <2>3. AskedRun(s)' <= AskedRun(s) \/ turn.step = "delete"
      BY <2>1 DEF AskedRun
    <2>4. turn.step = "delete" => AskedRun(s)' = 0
      <3>1. ASSUME turn.step = "delete", InTurn(s, "operator")' PROVE FALSE
        <4>1. turn.by = "operator" /\ Len(turn.todo) = 1 /\ 1 \in Positions /\ Current = turn.todo[1]
          BY <1>3, <3>1, <2>1, CurrentItem DEF Structure, TurnInv, InTurn
        <4>2. PICK i \in Positions' : turn'.todo[i].id = s
          BY <3>1 DEF InTurn
        <4>3. PICK j \in Positions : turn.todo[j].id # Current.id
          BY <1>3, <4>2, ItemsLeft DEF TriggerError, RecordFails, Crash
        <4>4. j = 1
          BY <4>1, <4>3 DEF Positions
        <4>5. QED
          BY <4>1, <4>3, <4>4
      <3>2. QED
        BY <3>1 DEF AskedRun
    <2>5. HeldRun(s)' + DueRun(s)' + AskedRun(s)' <= HeldRun(s) + DueRun(s) + AskedRun(s)
      BY <1>2, <2>2, <2>3, <2>4, RunNumbers
    <2>6. QED
      BY <1>1, <1>2, <2>1, <2>5, LimitedKept, RunNumbers
  <1>4. CASE turn.step = "idle"
    <2>1. turn' = Idle /\ turn.todo = <<>>
      BY <1>4 DEF TriggerError, RecordFails, Crash, Structure, TurnTypes
    <2>2. Positions' = {} /\ Positions = {}
      BY <2>1 DEF Positions, Idle
    <2>3. DueRun(s)' = DueRun(s) /\ AskedRun(s)' = AskedRun(s)
      BY <1>1, <2>2 DEF DueRun, AskedRun, InTurn
    <2>4. QED
      BY <1>1, <1>2, <2>2, <2>3, LimitedKept, RunNumbers
  <1>5. QED
    BY <1>3, <1>4

LEMMA RecordExecutionLimited ==
  ASSUME Structure, Structure', NEW s \in Schedule, Limited(s), Fresh(s), RecordExecution
  PROVE  Limited(s)' /\ Fresh(s)'
  <1>1. /\ rows'[Current.id] =
              Recorded(rows[Current.id], Current.row, turn.at, NewStatus(Current.row))
        /\ \A u \in Schedule : u # Current.id => rows'[u] = rows[u]
        /\ NextItem /\ turn.step = "record" /\ ops' = ops /\ tool' = tool
    BY RecordExecutionWrites DEF RecordExecution, histVars
  <1>2. /\ \A i \in Positions' : \E j \in Positions :
               turn'.todo[i] = turn.todo[j] /\ turn.todo[j].id # Current.id
        /\ \A by : InTurn(s, by)' => InTurn(s, by) /\ s # Current.id
    BY <1>1, ItemsLeft
  <1>3. HeldRun(s)' = HeldRun(s) /\ DueRun(s)' \in 0..1 /\ AskedRun(s)' \in 0..1
    BY <1>1 DEF HeldRun, Held, DueRun, AskedRun
  <1>4. CASE s # Current.id \/ rows[s].status = "deleted"
    <2>1. rows'[s] = rows[s]
      BY <1>1, <1>4 DEF Recorded
    <2>2. DueRun(s)' <= DueRun(s) /\ AskedRun(s)' <= AskedRun(s)
      BY <1>1, <1>2, <2>1 DEF DueRun, AskedRun
    <2>3. QED
      BY <1>1, <1>2, <1>3, <2>1, <2>2, LimitedKept, RunNumbers
  <1>5. CASE s = Current.id /\ rows[s].status # "deleted"
    <2>1. /\ rows[s] \in Row /\ Current.row \in Row /\ turn.at \in 0..MaxTime
          /\ NewStatus(Current.row) \in {"completed", "active"}
          /\ NewStatus(Current.row) \in Status
          /\ 1 \in Positions /\ Current = turn.todo[1]
          /\ Current.row.max = rows[s].max /\ Known(s)
      BY <1>1, <1>5, CurrentItem, CountNumbers, StatusTypes DEF Structure, TurnInv, Known
    <2>2. /\ rows'[s].total = rows[s].total + 1 /\ rows'[s].max = rows[s].max
          /\ rows'[s].status = NewStatus(Current.row)
      <3>1. PICK row \in Row, seen \in Row, at \in 0..MaxTime, status \in Status :
               /\ row = rows[s] /\ seen = Current.row /\ at = turn.at
               /\ status = NewStatus(Current.row) /\ row.status # "deleted"
        BY <1>5, <2>1
      <3>2. rows'[s] = Recorded(row, seen, at, status)
        BY <1>1, <1>5, <3>1
      <3>3. /\ Recorded(row, seen, at, status).total = row.total + 1
            /\ Recorded(row, seen, at, status).max = row.max
            /\ Recorded(row, seen, at, status).status = status
        BY <3>1, RecordedType
      <3>4. QED
        BY <3>1, <3>2, <3>3
    <2>3. ~InTurn(s, "timer")' /\ ~InTurn(s, "operator")'
      BY <1>2, <1>5
    <2>4. AskedRun(s)' = 0 /\ DueRun(s)' = (IF NewStatus(Current.row) = "active" THEN 1 ELSE 0)
      BY <2>2, <2>3 DEF AskedRun, DueRun
    <2>5. DueRun(s) + AskedRun(s) >= 1
      <3>1. InTurn(s, turn.by) /\ turn.by \in {"timer", "operator"}
        BY <1>5, <2>1 DEF InTurn, Structure, TurnTypes
      <3>2. DueRun(s) = 1 \/ AskedRun(s) = 1
        BY <1>1, <3>1 DEF DueRun, AskedRun
      <3>3. QED
        BY <3>2, RunNumbers
    <2>6. Limited(s)'
      <3>1. CASE NewStatus(Current.row) # "active"
        BY <1>1, <1>3, <2>2, <2>4, <2>5, <3>1, RunNumbers DEF Limited, Larger
      <3>2. CASE NewStatus(Current.row) = "active"
        <4>1. rows[s].max \notin {0, Text} => Current.row.total + 2 <= rows[s].max
          <5>1. Current.row.total \in Nat
                /\ (Current.row.max # Text => Current.row.max \in Int)
            BY <2>1 DEF Row
          <5>2. Current.row.max # 0 => ~(Current.row.total + 1 >= Current.row.max)
            BY <3>2 DEF NewStatus
          <5>3. QED
            BY <2>1, <5>1, <5>2
        <4>2. /\ rows[s].total + HeldRun(s) <= Current.row.total + ops[s]
              /\ Current.row.total \in Nat
          BY <1>5, <2>1 DEF Fresh, Row
        <4>3. QED
          BY <1>1, <1>3, <2>2, <2>4, <3>2, <4>1, <4>2, RunNumbers DEF Limited, Larger
      <3>3. QED
        BY <3>1, <3>2
    <2>7. Fresh(s)'
      BY <1>2, <1>5 DEF Fresh
    <2>8. QED
      BY <2>6, <2>7
  <1>6. QED
    BY <1>4, <1>5

LEMMA CreateLimited ==
  ASSUME Structure, Structure', NEW s \in Schedule, Limited(s), Fresh(s), NEW u \in Schedule,
         CreateSchedule(u) \/ (\E d \in Delivery : ReceiveScheduled(d, u)) \/ ToolCreate(u)
  PROVE  Limited(s)' /\ Fresh(s)'
  <1>1. /\ NewSchedule(u) \/ ToolCreate(u)
        /\ ops' = ops /\ turn' = turn /\ tool' = tool
    BY DEF CreateSchedule, ReceiveScheduled, ToolCreate, histVars
  <1>2. ~Known(u)
    BY <1>1, Created DEF Structure, CountTypes
  <1>3. PICK row \in Row : rows' = [rows EXCEPT ![u] = row] /\ row.status = "active" /\ row.total = 0
    BY <1>1, Created DEF Structure, CountTypes
  <1>4. rows'[u] = row /\ \A v \in Schedule : v # u => rows'[v] = rows[v]
    BY <1>2, <1>3, RowWritten DEF Structure
  <1>5. CASE s # u
    <2>1. Held(s)' <=> Held(s)
      BY <1>1 DEF Held
    <2>2. QED
      BY <1>1, <1>4, <1>5, <2>1, QuietLimited
  <1>6. CASE s = u
    <2>1. Positions' = Positions /\ \A i \in Positions : turn.todo[i].id # s
      BY <1>1, <1>2, <1>6 DEF Positions, Structure, TurnInv
    <2>2. ~Held(s)
      BY <1>2, <1>6 DEF Structure, ToolInv, Held
    <2>3. HeldRun(s)' = 0 /\ AskedRun(s)' = 0 /\ DueRun(s)' = 1 /\ rows'[s].total = 0
      BY <1>1, <1>3, <1>4, <1>6, <2>1, <2>2 DEF HeldRun, AskedRun, DueRun, InTurn, Held
    <2>4. (rows'[s].max # Text => rows'[s].max \in Int) /\ ops'[s] \in Nat
      BY <1>1, <1>4, <1>6, RunNumbers DEF Row
    <2>5. Limited(s)'
      BY <2>3, <2>4 DEF Limited, Larger
    <2>6. Fresh(s)'
      BY <1>1, <2>1 DEF Fresh
    <2>7. QED
      BY <2>5, <2>6
  <1>7. QED
    BY <1>5, <1>6

LEMMA CommandLimited ==
  ASSUME Structure, Structure', NEW s \in Schedule, Limited(s), Fresh(s), NEW u \in Schedule,
         Pause(u) \/ ToolPause(u) \/ Resume(u) \/ ToolResume(u) \/ ToolDelete(u)
  PROVE  Limited(s)' /\ Fresh(s)'
  <1>1. /\ turn' = turn /\ tool' = tool /\ ops' = [ops EXCEPT ![u] = @ + 1]
        /\ \/ Restarted(u)
           \/ \E status \in {"paused", "deleted"} : rows' = [rows EXCEPT ![u].status = status]
    BY DEF Pause, ToolPause, Resume, ToolResume, ToolDelete, Stopped, Restarted
  <1>2. /\ \A v \in Schedule : v # u => rows'[v] = rows[v] /\ ops'[v] = ops[v]
        /\ rows'[u].total = rows[u].total /\ rows'[u].max = rows[u].max
        /\ ops'[u] = ops[u] + 1
    <2>1. ops'[u] = ops[u] + 1 /\ \A v \in Schedule : v # u => ops'[v] = ops[v]
      BY <1>1, Commanded DEF Structure, CountTypes
    <2>2. CASE Restarted(u)
      BY <2>1, <2>2, RestartedRow DEF Structure, CountTypes
    <2>3. CASE \E status \in {"paused", "deleted"} : rows' = [rows EXCEPT ![u].status = status]
      BY <2>1, <2>3, StatusSet DEF Structure
    <2>4. QED
      BY <1>1, <2>2, <2>3
  <1>3. Positions' = Positions
    BY <1>1 DEF Positions
  <1>4. HeldRun(s)' = HeldRun(s) /\ AskedRun(s)' = AskedRun(s) /\ DueRun(s)' \in 0..1
    BY <1>1, <1>3 DEF HeldRun, Held, AskedRun, InTurn, DueRun
  <1>5. CASE s # u
    <2>1. Held(s)' <=> Held(s)
      BY <1>1 DEF Held
    <2>2. QED
      BY <1>1, <1>2, <1>5, <2>1, QuietLimited
  <1>6. CASE s = u
    BY <1>1, <1>2, <1>3, <1>4, <1>6, LimitedKept, RunNumbers
  <1>7. QED
    BY <1>5, <1>6

\* A command that starts a turn of its own: a trigger, or the delete.
LEMMA OperatorTurnLimited ==
  ASSUME Structure, Structure', NEW s \in Schedule, Limited(s), Fresh(s), NEW u \in Schedule,
         TriggerNow(u) \/ Cancel(u)
  PROVE  Limited(s)' /\ Fresh(s)'
  <1>1. /\ turn.step = "idle" /\ tool' = tool /\ ops' = [ops EXCEPT ![u] = @ + 1]
        /\ turn'.by = "operator" /\ turn'.todo = <<Item(u)>>
        /\ \/ rows' = rows
           \/ rows' = [rows EXCEPT ![u].status = "cancelled"]
    BY DEF TriggerNow, Cancel, LoopFree, dbVars
  <1>2. /\ \A v \in Schedule : v # u => rows'[v] = rows[v] /\ ops'[v] = ops[v]
        /\ rows'[u].total = rows[u].total /\ rows'[u].max = rows[u].max
        /\ rows'[u].status \in {rows[u].status, "cancelled"}
        /\ ops'[u] = ops[u] + 1
    <2>1. ops'[u] = ops[u] + 1 /\ \A v \in Schedule : v # u => ops'[v] = ops[v]
      BY <1>1, Commanded DEF Structure, CountTypes
    <2>2. CASE rows' = rows
      BY <2>1, <2>2
    <2>3. CASE rows' = [rows EXCEPT ![u].status = "cancelled"]
      BY <2>1, <2>3, StatusSet DEF Structure
    <2>4. QED
      BY <1>1, <2>2, <2>3
  <1>3. Positions = {}
    BY <1>1 DEF Positions, Structure, TurnTypes
  <1>4. /\ Positions' = 1..1 /\ turn'.todo[1].id = u /\ turn'.todo[1].row = rows[u]
    BY <1>1 DEF Positions, Item
  <1>5. \A i \in Positions' : i = 1
    BY <1>4
  <1>6. HeldRun(s)' = HeldRun(s) /\ DueRun(s)' <= DueRun(s) /\ AskedRun(s) = 0
    <2>1. ~InTurn(s, "timer")'
      BY <1>1 DEF InTurn
    <2>2. rows'[s].status = "active" => rows[s].status = "active"
      BY <1>2
    <2>3. DueRun(s)' <= DueRun(s)
      BY <2>1, <2>2 DEF DueRun
    <2>4. QED
      BY <1>1, <1>3, <2>3 DEF HeldRun, Held, AskedRun, InTurn
  <1>7. AskedRun(s)' \in 0..1 /\ DueRun(s)' \in 0..1 /\ (s # u => AskedRun(s)' = 0)
    BY <1>4, <1>5 DEF AskedRun, DueRun, InTurn
  <1>8. \A i \in Positions' : turn'.todo[i].id = s => turn'.todo[i].row.total = rows'[s].total
    BY <1>2, <1>4, <1>5
  <1>9. QED
    BY <1>2, <1>6, <1>7, <1>8, LimitedKept, RunNumbers

LEMMA DeleteLimited ==
  ASSUME Structure, Structure', NEW s \in Schedule, Limited(s), Fresh(s), Delete
  PROVE  Limited(s)' /\ Fresh(s)'
  <1>1. /\ turn.step = "delete" /\ turn' = Idle /\ ops' = ops /\ tool' = tool
    BY DEF Delete, histVars
  <1>2. PICK u \in Schedule : u = Current.id
    BY <1>1, CurrentItem DEF Structure
  <1>3. rows' = [rows EXCEPT ![u].status = "deleted"]
    BY <1>2 DEF Delete
  <1>4. /\ rows'[s].total = rows[s].total /\ rows'[s].max = rows[s].max
        /\ rows'[s].status \in {rows[s].status, "deleted"}
    BY <1>3, StatusSet DEF Structure
  <1>5. Positions' = {}
    BY <1>1 DEF Positions, Idle
  <1>6. HeldRun(s)' = HeldRun(s) /\ AskedRun(s)' = 0 /\ DueRun(s)' <= DueRun(s) /\ DueRun(s)' \in 0..1
    BY <1>1, <1>4, <1>5 DEF HeldRun, Held, AskedRun, DueRun, InTurn
  <1>7. QED
    BY <1>1, <1>4, <1>5, <1>6, LimitedKept, RunNumbers

LEMMA ToolTriggerLimited ==
  ASSUME Structure, Structure', NEW s \in Schedule, Limited(s), Fresh(s), NEW u \in Schedule,
         ToolTrigger(u)
  PROVE  Limited(s)' /\ Fresh(s)'
  <1>1. /\ rows' = rows /\ turn' = turn /\ tool.step = "idle"
        /\ tool'.step = "event" /\ tool'.item.id = u
        /\ ops' = [ops EXCEPT ![u] = @ + 1]
    BY DEF ToolTrigger, dbVars, Item
  <1>2. ops'[u] = ops[u] + 1 /\ \A v \in Schedule : v # u => ops'[v] = ops[v]
    BY <1>1, Commanded DEF Structure, CountTypes
  <1>3. /\ Positions' = Positions /\ DueRun(s)' = DueRun(s) /\ AskedRun(s)' = AskedRun(s)
    BY <1>1 DEF Positions, DueRun, AskedRun, InTurn
  <1>4. HeldRun(s) = 0 /\ HeldRun(s)' = (IF s = u THEN 1 ELSE 0)
    BY <1>1 DEF HeldRun, Held
  <1>5. CASE s # u
    BY <1>1, <1>2, <1>3, <1>4, <1>5, LimitedKept, RunNumbers
  <1>6. CASE s = u
    BY <1>1, <1>2, <1>3, <1>4, <1>6, LimitedKept, RunNumbers
  <1>7. QED
    BY <1>5, <1>6

LEMMA ToolErrorLimited ==
  ASSUME Structure, Structure', NEW s \in Schedule, Limited(s), Fresh(s), ToolError
  PROVE  Limited(s)' /\ Fresh(s)'
  <1>1. rows' = rows /\ turn' = turn /\ ops' = ops /\ tool'.step = "idle"
    BY DEF ToolError, ToolIdle
  <1>2. /\ Positions' = Positions /\ DueRun(s)' = DueRun(s) /\ AskedRun(s)' = AskedRun(s)
        /\ HeldRun(s)' = 0
    BY <1>1 DEF Positions, DueRun, AskedRun, InTurn, HeldRun, Held
  <1>3. QED
    BY <1>1, <1>2, LimitedKept, RunNumbers

LEMMA ToolRecordLimited ==
  ASSUME Structure, Structure', NEW s \in Schedule, Limited(s), Fresh(s), ToolRecord
  PROVE  Limited(s)' /\ Fresh(s)'
  <1>1. /\ rows'[tool.item.id] =
              Recorded(rows[tool.item.id], tool.item.row, tool.at,
                       ToolStatus(tool.item.row, rows[tool.item.id]))
        /\ \A u \in Schedule : u # tool.item.id => rows'[u] = rows[u]
        /\ tool.step = "record" /\ tool'.step = "idle"
        /\ ops' = ops /\ turn' = turn
    BY ToolRecordWrites DEF ToolRecord, histVars, ToolIdle
  <1>2. HeldRun(s)' = 0 /\ AskedRun(s)' = AskedRun(s) /\ Positions' = Positions
    BY <1>1 DEF HeldRun, Held, AskedRun, InTurn, Positions
  <1>3. CASE s # tool.item.id
    <2>1. rows'[s] = rows[s]
      BY <1>1, <1>3
    <2>2. DueRun(s)' = DueRun(s)
      BY <1>1, <1>2, <2>1 DEF DueRun, InTurn
    <2>3. QED
      BY <1>1, <1>2, <2>1, <2>2, LimitedKept, RunNumbers
  <1>4. CASE s = tool.item.id
    <2>1. /\ rows[s] \in Row /\ tool.item.row \in Row /\ tool.at \in 0..MaxTime /\ Known(s)
      BY <1>1, <1>4, ToolItem, CountNumbers DEF Structure, ToolInv
    <2>2. ToolStatus(tool.item.row, rows[s]) \in Status
      BY <2>1, StatusTypes DEF Known
    <2>3. /\ rows'[s].max = rows[s].max
          /\ rows'[s].total = rows[s].total \/ rows'[s].total = rows[s].total + 1
          /\ rows'[s].status = "active" => rows[s].status = "active"
      BY <1>1, <1>4, <2>1, <2>2, RecordedType DEF ToolStatus
    <2>4. DueRun(s)' <= DueRun(s) /\ DueRun(s)' \in 0..1
      BY <1>1, <1>2, <2>3 DEF DueRun, InTurn
    <2>5. HeldRun(s) = 1
      BY <1>1, <1>4 DEF HeldRun, Held
    <2>6. rows'[s].total \in Nat /\ AskedRun(s)' \in 0..1
      BY <2>3, RunNumbers DEF AskedRun
    <2>7. Limited(s)'
      BY <1>1, <1>2, <2>3, <2>4, <2>5, <2>6, RunNumbers DEF Limited, Larger
    <2>8. ASSUME NEW i \in Positions', turn'.todo[i].id = s
          PROVE  rows'[s].total + HeldRun(s)' <= turn'.todo[i].row.total + ops'[s]
      <3>1. i \in Positions /\ turn'.todo[i] = turn.todo[i] /\ turn.todo[i].id = s
        BY <1>1, <1>2, <2>8
      <3>2. rows[s].total + 1 <= turn.todo[i].row.total + ops[s]
        BY <2>5, <3>1 DEF Fresh
      <3>3. QED
        BY <1>1, <1>2, <2>3, <3>1, <3>2, RunNumbers
    <2>9. QED
      BY <2>7, <2>8 DEF Fresh
  <1>5. QED
    BY <1>3, <1>4

LEMMA NextLimited ==
  ASSUME Structure, Structure', MaxInv, [Next]_vars
  PROVE  MaxInv'
  <1> SUFFICES ASSUME NEW s \in Schedule PROVE Limited(s)' /\ Fresh(s)'
    BY DEF MaxInv
  <1>1. Limited(s) /\ Fresh(s)
    BY DEF MaxInv
  <1>2. CASE \/ InsertEvent \/ InsertTask \/ ToolInsertEvent \/ ToolInsertTask \/ Tick
             \/ (\E u \in Schedule : Rehydrate(u)) \/ UNCHANGED vars
    BY <1>1, <1>2, StillLimited
  <1>3. CASE \/ SweepDue \/ Boot \/ RecordFails \/ TriggerError \/ Crash
             \/ RecordExecution \/ Delete
    BY <1>1, <1>3, SweepLimited, GivenUpLimited, RecordExecutionLimited, DeleteLimited
  <1>4. CASE ToolError \/ ToolRecord
    BY <1>1, <1>4, ToolErrorLimited, ToolRecordLimited
  <1>5. ASSUME NEW u \in Schedule, Operate(u)
        PROVE  Limited(s)' /\ Fresh(s)'
    BY <1>1, <1>5, CreateLimited, CommandLimited, OperatorTurnLimited, ToolTriggerLimited DEF Operate
  <1>6. QED
    BY <1>2, <1>3, <1>4, <1>5 DEF Next, Trigger, Tool

\* What is between two commits was counted as held, due or asked for.
LEMMA FlightsAreRuns ==
  ASSUME Structure, NEW s \in Schedule
  PROVE  InFlight(s) <= HeldRun(s) + DueRun(s) + AskedRun(s)
  <1>1. ToolFlight(s) <= HeldRun(s)
    BY DEF ToolFlight, HeldRun, Held
  <1>2. TurnFlight(s) <= DueRun(s) + AskedRun(s)
    <2>1. ASSUME turn.step = "record", Current.id = s
          PROVE  DueRun(s) = 1 \/ AskedRun(s) = 1
      <3>1. 1 \in Positions /\ Current = turn.todo[1]
        BY <2>1, CurrentItem DEF Structure
      <3>2. InTurn(s, turn.by) /\ turn.by \in {"timer", "operator"}
        BY <2>1, <3>1 DEF InTurn, Structure, TurnTypes
      <3>3. QED
        BY <2>1, <3>2 DEF DueRun, AskedRun
    <2>2. QED
      BY <2>1, RunNumbers DEF TurnFlight
  <1>3. QED
    BY <1>1, <1>2, CountNumbers, RunNumbers

\* The tasks made for a schedule are max_runs and no more, but for those an
\* operator asks for and one for every crash and error: what is due, held by the
\* tool or asked for is counted before it runs, the total a turn read is behind
\* by no more than the commands since, and the total counts the triggers.
THEOREM MaxRunsCorrect == Spec => []MaxRunsKept
  <1>1. Init => MaxInv
    <2>1. ASSUME Init, NEW s \in Schedule PROVE Limited(s) /\ Fresh(s)
      BY <2>1 DEF Init, NoRow, Idle, Limited, Fresh, Positions
    <2>2. QED
      BY <2>1 DEF MaxInv
  <1>2. Structure /\ Structure' /\ MaxInv /\ [Next]_vars => MaxInv'
    BY NextLimited
  <1>3. Structure /\ MaxInv /\ RunsCounted => MaxRunsKept
    <2>1. ASSUME Structure, MaxInv, RunsCounted, NEW s \in Schedule, Present(s),
                 rows[s].max \notin {0, Text}
          PROVE  Triggers(s) <= Larger(1, rows[s].max) + ops[s] + faults
      <3>1. /\ rows[s].total + HeldRun(s) + DueRun(s) + AskedRun(s)
                  <= Larger(1, rows[s].max) + ops[s]
            /\ Triggers(s) <= rows[s].total + InFlight(s) + faults
        BY <2>1 DEF MaxInv, Limited, RunsCounted
      <3>2. InFlight(s) <= HeldRun(s) + DueRun(s) + AskedRun(s)
        BY <2>1, FlightsAreRuns
      <3>3. /\ Triggers(s) \in Nat /\ InFlight(s) \in Nat /\ faults \in Nat
            /\ Larger(1, rows[s].max) \in Int
        BY <2>1, CountNumbers, RunNumbers DEF Larger
      <3>4. QED
        BY <2>1, <3>1, <3>2, <3>3, RunNumbers
    <2>2. QED
      BY <2>1 DEF MaxRunsKept
  <1>4. QED
    BY <1>1, <1>2, <1>3, StructureCorrect, RunsCountedCorrect, PTL DEF Spec

-----------------------------------------------------------------------------
(* Due times: a time is spent by the task it gets, and never due again *)

Recording(s) == turn.step = "record" /\ Current.id = s

\* The sweep may still make a task for the due time: the row says so, or an item.
Open(s, d) ==
    /\ ~Recording(s)
    /\ \/ rows[s].status = "active" /\ rows[s].next = d
       \/ turn.by = "timer" /\ \E i \in Positions : turn.todo[i].id = s /\ turn.todo[i].row.next = d

OpenRun(s, d) == IF Open(s, d) THEN 1 ELSE 0

Spent(s, d) == fired[s][d] + OpenRun(s, d) + HeldRun(s) <= 1 + ops[s] + faults

\* A time that got a task has come, for the turn that goes on too.
Past(s, d) == fired[s][d] > 0 => d <= now /\ (turn.step # "idle" => d <= turn.at)

\* Every trigger of the schedule by the daemon is recorded.
Numbered(s) == Known(s) => rows[s].max # Text

DueInv == \A s \in Schedule : Numbered(s) => \A d \in Time : Spent(s, d) /\ Past(s, d)

LEMMA DueNumbers ==
  ASSUME Structure, NEW s \in Schedule, NEW d \in Time
  PROVE  /\ fired[s][d] \in Nat /\ OpenRun(s, d) \in 0..1 /\ HeldRun(s) \in 0..1
         /\ ops[s] \in Nat /\ faults \in Nat /\ HeldRun(s) <= ops[s]
         /\ d \in Nat /\ now \in Nat /\ turn.at \in Nat
  <1>1. fired[s][d] \in Nat
    BY DEF Structure, CountTypes
  <1>2. d \in Nat /\ now \in Nat /\ turn.at \in Nat
    BY BoundsAssumption, PeriodAssumption DEF Time, Structure, CountTypes, TurnTypes
  <1>3. QED
    BY <1>1, <1>2, RunNumbers, CountNumbers DEF OpenRun

LEMMA SpentKept ==
  ASSUME Structure, Structure', NEW s \in Schedule, NEW d \in Time, Spent(s, d), Past(s, d),
         fired' = fired,
         OpenRun(s, d)' + HeldRun(s)' - ops'[s] - faults'
             <= OpenRun(s, d) + HeldRun(s) - ops[s] - faults,
         now <= now',
         turn'.step # "idle" => \/ turn.step # "idle" /\ turn'.at = turn.at
                                \/ turn'.at = now
  PROVE  Spent(s, d)' /\ Past(s, d)'
  <1>1. /\ OpenRun(s, d)' \in 0..1 /\ HeldRun(s)' \in 0..1
        /\ ops'[s] \in Nat /\ faults' \in Nat /\ now' \in Nat
    BY BoundsAssumption DEF OpenRun, HeldRun, Structure, CountTypes
  <1>2. Spent(s, d)'
    BY <1>1, DueNumbers DEF Spent
  <1>3. Past(s, d)'
    BY <1>1, DueNumbers DEF Past
  <1>4. QED
    BY <1>2, <1>3

\* Steps that leave the row, the turn's items and the tool's trigger as they are.
LEMMA SameOpen ==
  ASSUME NEW s \in Schedule, NEW d \in Time, rows'[s] = rows[s],
         turn'.todo = turn.todo, turn'.by = turn.by,
         turn'.step = "record" <=> turn.step = "record"
  PROVE  OpenRun(s, d)' = OpenRun(s, d)
  <1>1. Positions' = Positions /\ Current' = Current
    BY DEF Positions, Current
  <1>2. QED
    BY <1>1 DEF OpenRun, Open, Recording

LEMMA StillSpent ==
  ASSUME Structure, Structure', NEW s \in Schedule, NEW d \in Time, Spent(s, d), Past(s, d),
         \/ InsertEvent \/ ToolInsertEvent \/ ToolInsertTask \/ Tick
         \/ (\E u \in Schedule : Rehydrate(u)) \/ UNCHANGED vars
  PROVE  Spent(s, d)' /\ Past(s, d)'
  <1>1. rows' = rows /\ ops' = ops /\ fired' = fired /\ faults' = faults
    BY DEF InsertEvent, ToolInsertEvent, ToolInsertTask, Tick, Rehydrate, vars, dbVars, histVars
  <1>2. /\ turn'.todo = turn.todo /\ turn'.by = turn.by /\ turn'.at = turn.at
        /\ turn'.step = "record" <=> turn.step = "record"
        /\ turn'.step = "idle" <=> turn.step = "idle"
    <2>1. CASE InsertEvent
      BY <2>1 DEF InsertEvent, Structure, TurnTypes
    <2>2. CASE \/ ToolInsertEvent \/ ToolInsertTask \/ Tick
               \/ (\E u \in Schedule : Rehydrate(u)) \/ UNCHANGED vars
      BY <2>2 DEF ToolInsertEvent, ToolInsertTask, Tick, Rehydrate, vars
    <2>3. QED
      BY <2>1, <2>2
  <1>3. HeldRun(s)' = HeldRun(s)
    <2>1. CASE ToolInsertEvent \/ ToolInsertTask
      BY <2>1 DEF ToolInsertEvent, ToolInsertTask, Structure, ToolTypes, HeldRun, Held
    <2>2. CASE InsertEvent \/ Tick \/ (\E u \in Schedule : Rehydrate(u)) \/ UNCHANGED vars
      BY <2>2 DEF InsertEvent, Tick, Rehydrate, vars, HeldRun, Held
    <2>3. QED
      BY <2>1, <2>2
  <1>4. now <= now'
    <2>1. now' = now \/ now' = now + 1
      BY DEF InsertEvent, ToolInsertEvent, ToolInsertTask, Tick, Rehydrate, vars
    <2>2. QED
      BY <2>1, DueNumbers
  <1>5. OpenRun(s, d)' = OpenRun(s, d)
    BY <1>1, <1>2, SameOpen
  <1>6. QED
    BY <1>1, <1>2, <1>3, <1>4, <1>5, SpentKept, DueNumbers

LEMMA SweepSpent ==
  ASSUME Structure, Structure', NEW s \in Schedule, NEW d \in Time, Spent(s, d), Past(s, d),
         SweepDue \/ Boot
  PROVE  Spent(s, d)' /\ Past(s, d)'
  <1>1. /\ rows' = rows /\ ops' = ops /\ tool' = tool /\ now' = now /\ BeginSweep /\ up'
        /\ fired' = fired /\ faults' = faults /\ turn.step = "idle"
    <2>1. CASE SweepDue
      BY <2>1 DEF SweepDue, LoopFree, dbVars, histVars
    <2>2. CASE Boot
      BY <2>2 DEF Boot, dbVars, histVars, Structure, TurnInv
    <2>3. QED
      BY <2>1, <2>2
  <1>2. /\ turn'.step # "idle" => turn'.at = now
        /\ \A i \in Positions' : LET u == turn'.todo[i].id
                                 IN  u \in Schedule /\ Due(u) /\ turn'.todo[i].row = rows[u]
    BY <1>1, SweepBegun DEF Structure, TableTypes, CountTypes
  <1>3. Open(s, d)' => Open(s, d)
    BY <1>1, <1>2 DEF Open, Recording, Due
  <1>4. OpenRun(s, d)' <= OpenRun(s, d) /\ OpenRun(s, d)' \in 0..1 /\ HeldRun(s)' = HeldRun(s)
    BY <1>1, <1>3 DEF OpenRun, HeldRun, Held
  <1>5. QED
    BY <1>1, <1>2, <1>4, SpentKept, DueNumbers

LEMMA InsertTaskSpent ==
  ASSUME Structure, Structure', NEW s \in Schedule, NEW d \in Time, Spent(s, d), Past(s, d),
         InsertTask
  PROVE  Spent(s, d)' /\ Past(s, d)'
  <1>1. /\ turn.step = "task" /\ turn' = [turn EXCEPT !.step = "record"]
        /\ UNCHANGED <<rows, ops, faults, now, tool>>
        /\ \A u \in Schedule : u # Current.id => fired'[u] = fired[u]
        /\ \A e \in Time : fired'[Current.id][e] =
                 IF turn.by = "timer" /\ e = Current.row.next
                 THEN fired[Current.id][e] + 1 ELSE fired[Current.id][e]
    BY TaskInserted
  <1>2. /\ turn'.step = "record" /\ turn'.todo = turn.todo /\ turn'.by = turn.by /\ turn'.at = turn.at
    BY <1>1 DEF Structure, TurnTypes
  <1>3. HeldRun(s)' = HeldRun(s) /\ Current' = Current /\ Positions' = Positions
    BY <1>1, <1>2 DEF HeldRun, Held, Current, Positions
  <1>4. CASE s # Current.id
    <2>1. fired'[s][d] = fired[s][d]
      BY <1>1, <1>4
    <2>2. OpenRun(s, d)' = OpenRun(s, d)
      BY <1>1, <1>2, <1>3, <1>4 DEF OpenRun, Open, Recording
    <2>3. QED
      BY <1>1, <1>2, <1>3, <2>1, <2>2 DEF Spent, Past
  <1>5. CASE s = Current.id
    <2>1. OpenRun(s, d)' = 0
      BY <1>2, <1>3, <1>5 DEF OpenRun, Open, Recording
    <2>2. CASE turn.by = "timer" /\ d = Current.row.next
      <3>1. fired'[s][d] = fired[s][d] + 1
        BY <1>1, <1>5, <2>2
      <3>2. 1 \in Positions /\ Current = turn.todo[1]
        BY <1>1, CurrentItem DEF Structure
      <3>3. OpenRun(s, d) = 1
        BY <1>1, <1>5, <2>2, <3>2 DEF OpenRun, Open, Recording
      <3>4. d <= turn.at /\ turn.at <= now
        BY <1>1, <2>2, <3>2 DEF Structure, TurnInv
      <3>5. QED
        BY <1>1, <1>2, <1>3, <2>1, <3>1, <3>3, <3>4, DueNumbers DEF Spent, Past
    <2>3. CASE ~(turn.by = "timer" /\ d = Current.row.next)
      <3>1. fired'[s][d] = fired[s][d]
        BY <1>1, <1>5, <2>3
      <3>2. QED
        BY <1>1, <1>2, <1>3, <2>1, <3>1, DueNumbers DEF Spent, Past
    <2>4. QED
      BY <2>2, <2>3
  <1>6. QED
    BY <1>4, <1>5

LEMMA RecordExecutionSpent ==
  ASSUME Structure, Structure', NEW s \in Schedule, NEW d \in Time, Spent(s, d), Past(s, d),
         RecordExecution
  PROVE  Spent(s, d)' /\ Past(s, d)'
  <1>1. /\ rows'[Current.id] =
              Recorded(rows[Current.id], Current.row, turn.at, NewStatus(Current.row))
        /\ \A u \in Schedule : u # Current.id => rows'[u] = rows[u]
        /\ NextItem /\ turn.step = "record" /\ ops' = ops /\ tool' = tool
        /\ fired' = fired /\ faults' = faults /\ now' = now
    BY RecordExecutionWrites DEF RecordExecution, histVars
  <1>2. /\ \A i \in Positions' : \E j \in Positions :
               turn'.todo[i] = turn.todo[j] /\ turn.todo[j].id # Current.id
        /\ turn'.step \in {"idle", "event"}
        /\ turn'.step = "idle" => Positions' = {}
        /\ turn'.step # "idle" => turn'.by = turn.by /\ turn'.at = turn.at
    BY <1>1, ItemsLeft
  <1>3. HeldRun(s)' = HeldRun(s)
    BY <1>1 DEF HeldRun, Held
  <1>4. CASE s # Current.id
    <2>1. Open(s, d)' => Open(s, d)
      <3>1. rows'[s] = rows[s] /\ ~Recording(s)
        BY <1>1, <1>4 DEF Recording
      <3>2. ASSUME turn'.by = "timer",
                   NEW i \in Positions', turn'.todo[i].id = s, turn'.todo[i].row.next = d
            PROVE  turn.by = "timer" /\ \E j \in Positions : turn.todo[j].id = s /\ turn.todo[j].row.next = d
        BY <1>2, <3>2
      <3>3. QED
        BY <3>1, <3>2 DEF Open
    <2>2. OpenRun(s, d)' <= OpenRun(s, d) /\ OpenRun(s, d)' \in 0..1
      BY <2>1 DEF OpenRun
    <2>3. QED
      BY <1>1, <1>2, <1>3, <2>2, SpentKept, DueNumbers
  <1>5. CASE s = Current.id
    <2>1. /\ rows[s] \in Row /\ Current.row \in Row /\ turn.at \in 0..MaxTime
          /\ NewStatus(Current.row) \in Status
      BY <1>1, <1>5, CurrentItem, CountNumbers, StatusTypes DEF Structure, TurnInv, Known
    <2>2. Past(s, d)'
      BY <1>1, <1>2 DEF Past
    <2>3. \A i \in Positions' : turn'.todo[i].id # s
      BY <1>2, <1>5
    <2>4. CASE Open(s, d)'
      <3>1. rows'[s].status = "active" /\ rows'[s].next = d
        BY <2>3, <2>4 DEF Open
      <3>2. rows[s].status # "deleted"
        BY <1>1, <1>5, <2>1, <3>1, RecordedType
      <3>3. NewStatus(Current.row) = "active"
            /\ d = IF Current.row.type = "once" THEN rows[s].next ELSE NextCron(turn.at)
        <4>1. PICK row \in Row, seen \in Row, at \in 0..MaxTime, status \in Status :
                /\ row = rows[s] /\ seen = Current.row /\ at = turn.at
                /\ status = NewStatus(Current.row)
          BY <2>1
        <4>2. /\ Recorded(row, seen, at, status).status = status
              /\ Recorded(row, seen, at, status).next =
                    IF seen.type = "once" THEN row.next ELSE NextCron(at)
          <5>1. row.status # "deleted"
            BY <3>2, <4>1
          <5>2. QED
            BY <5>1, RecordedType
        <4>3. QED
          BY <1>1, <1>5, <3>1, <4>1, <4>2
      <3>4. d = NextCron(turn.at) /\ d > turn.at
        <4>1. Current.row.type # "once"
          BY <3>3 DEF NewStatus
        <4>2. turn.at \in Nat
          BY DueNumbers
        <4>3. QED
          BY <3>3, <4>1, <4>2, NextCronLater
      <3>5. fired[s][d] = 0
        <4>1. ~(d <= turn.at)
          BY <3>4, DueNumbers
        <4>2. ~(fired[s][d] > 0)
          BY <1>1, <4>1 DEF Past
        <4>3. QED
          BY <4>2, DueNumbers
      <3>6. OpenRun(s, d)' = 1
        BY <2>4 DEF OpenRun
      <3>7. Spent(s, d)'
        BY <1>1, <1>3, <3>5, <3>6, DueNumbers DEF Spent
      <3>8. QED
        BY <2>2, <3>7
    <2>5. CASE ~Open(s, d)'
      <3>1. OpenRun(s, d)' = 0
        BY <2>5 DEF OpenRun
      <3>2. Spent(s, d)'
        BY <1>1, <1>3, <3>1, DueNumbers DEF Spent
      <3>3. QED
        BY <2>2, <3>2
    <2>6. QED
      BY <2>4, <2>5
  <1>6. QED
    BY <1>4, <1>5

\* One fault, and what was still to be done at the due time may be done again.
LEMMA GivenUpSpent ==
  ASSUME Structure, Structure', NEW s \in Schedule, NEW d \in Time, Spent(s, d), Past(s, d),
         TriggerError \/ Crash
  PROVE  Spent(s, d)' /\ Past(s, d)'
  <1>1. /\ ops' = ops /\ tool' = tool /\ fired' = fired /\ faults' = faults + 1 /\ now' = now
        /\ turn'.step # "idle" => turn.step # "idle" /\ turn'.at = turn.at
    <2>1. CASE TriggerError
      BY <2>1, ItemsLeft DEF TriggerError
    <2>2. CASE Crash
      BY <2>2 DEF Crash, Idle
    <2>3. QED
      BY <2>1, <2>2
  <1>2. HeldRun(s)' = HeldRun(s) /\ OpenRun(s, d)' \in 0..1
    BY <1>1 DEF HeldRun, Held, OpenRun
  <1>3. QED
    BY <1>1, <1>2, SpentKept, DueNumbers

LEMMA CommandSpent ==
  ASSUME Structure, Structure', NEW s \in Schedule, NEW d \in Time, Spent(s, d), Past(s, d),
         NEW u \in Schedule,
         Pause(u) \/ ToolPause(u) \/ Resume(u) \/ ToolResume(u) \/ ToolDelete(u)
  PROVE  Spent(s, d)' /\ Past(s, d)'
  <1>1. /\ turn' = turn /\ tool' = tool /\ ops' = [ops EXCEPT ![u] = @ + 1]
        /\ fired' = fired /\ faults' = faults /\ now' = now
        /\ \/ Restarted(u)
           \/ \E status \in {"paused", "deleted"} : rows' = [rows EXCEPT ![u].status = status]
    BY DEF Pause, ToolPause, Resume, ToolResume, ToolDelete, Stopped, Restarted
  <1>2. /\ ops'[u] = ops[u] + 1
        /\ \A v \in Schedule : v # u => rows'[v] = rows[v] /\ ops'[v] = ops[v]
    <2>1. ops'[u] = ops[u] + 1 /\ \A v \in Schedule : v # u => ops'[v] = ops[v]
      BY <1>1, Commanded DEF Structure, CountTypes
    <2>2. CASE Restarted(u)
      BY <2>1, <2>2, RestartedRow DEF Structure, CountTypes
    <2>3. CASE \E status \in {"paused", "deleted"} : rows' = [rows EXCEPT ![u].status = status]
      BY <2>1, <2>3, StatusSet DEF Structure
    <2>4. QED
      BY <1>1, <2>2, <2>3
  <1>3. HeldRun(s)' = HeldRun(s) /\ OpenRun(s, d)' \in 0..1
    BY <1>1 DEF HeldRun, Held, OpenRun
  <1>4. CASE s # u
    <2>1. OpenRun(s, d)' = OpenRun(s, d)
      BY <1>1, <1>2, <1>4, SameOpen
    <2>2. QED
      BY <1>1, <1>2, <1>3, <1>4, <2>1, SpentKept, DueNumbers
  <1>5. CASE s = u
    BY <1>1, <1>2, <1>3, <1>5, SpentKept, DueNumbers
  <1>6. QED
    BY <1>4, <1>5

LEMMA OperatorTurnSpent ==
  ASSUME Structure, Structure', NEW s \in Schedule, NEW d \in Time, Spent(s, d), Past(s, d),
         NEW u \in Schedule, TriggerNow(u) \/ Cancel(u)
  PROVE  Spent(s, d)' /\ Past(s, d)'
  <1>1. /\ turn.step = "idle" /\ tool' = tool /\ ops' = [ops EXCEPT ![u] = @ + 1]
        /\ fired' = fired /\ faults' = faults /\ now' = now
        /\ turn'.by = "operator" /\ turn'.at = now
        /\ \/ rows' = rows
           \/ rows' = [rows EXCEPT ![u].status = "cancelled"]
    BY DEF TriggerNow, Cancel, LoopFree, dbVars
  <1>2. /\ ops'[u] = ops[u] + 1
        /\ \A v \in Schedule : v # u => rows'[v] = rows[v] /\ ops'[v] = ops[v]
    <2>1. ops'[u] = ops[u] + 1 /\ \A v \in Schedule : v # u => ops'[v] = ops[v]
      BY <1>1, Commanded DEF Structure, CountTypes
    <2>2. CASE rows' = [rows EXCEPT ![u].status = "cancelled"]
      BY <2>1, <2>2, StatusSet DEF Structure
    <2>3. QED
      BY <1>1, <2>1, <2>2
  <1>3. HeldRun(s)' = HeldRun(s) /\ OpenRun(s, d)' \in 0..1
    BY <1>1 DEF HeldRun, Held, OpenRun
  <1>4. CASE s # u
    <2>1. Open(s, d)' => Open(s, d)
      BY <1>1, <1>2, <1>4 DEF Open, Recording
    <2>2. OpenRun(s, d)' <= OpenRun(s, d)
      BY <2>1 DEF OpenRun
    <2>3. QED
      BY <1>1, <1>2, <1>3, <1>4, <2>2, SpentKept, DueNumbers
  <1>5. CASE s = u
    BY <1>1, <1>2, <1>3, <1>5, SpentKept, DueNumbers
  <1>6. QED
    BY <1>4, <1>5

LEMMA DeleteSpent ==
  ASSUME Structure, Structure', NEW s \in Schedule, NEW d \in Time, Spent(s, d), Past(s, d), Delete
  PROVE  Spent(s, d)' /\ Past(s, d)'
  <1>1. /\ turn.step = "delete" /\ turn' = Idle /\ ops' = ops /\ tool' = tool
        /\ fired' = fired /\ faults' = faults /\ now' = now
    BY DEF Delete, histVars
  <1>2. PICK u \in Schedule : u = Current.id
    BY <1>1, CurrentItem DEF Structure
  <1>3. rows' = [rows EXCEPT ![u].status = "deleted"]
    BY <1>2 DEF Delete
  <1>4. rows'[s] = rows[s] \/ rows'[s].status = "deleted"
    BY <1>3, StatusSet DEF Structure
  <1>5. Positions' = {} /\ turn'.step = "idle"
    BY <1>1 DEF Positions, Idle
  <1>6. Open(s, d)' => Open(s, d)
    BY <1>1, <1>4, <1>5 DEF Open, Recording
  <1>7. HeldRun(s)' = HeldRun(s) /\ OpenRun(s, d)' <= OpenRun(s, d) /\ OpenRun(s, d)' \in 0..1
    BY <1>1, <1>6 DEF HeldRun, Held, OpenRun
  <1>8. QED
    BY <1>1, <1>5, <1>7, SpentKept, DueNumbers

LEMMA CreateSpent ==
  ASSUME Structure, Structure', NEW s \in Schedule, NEW d \in Time, Spent(s, d), Past(s, d),
         NEW u \in Schedule,
         CreateSchedule(u) \/ (\E e \in Delivery : ReceiveScheduled(e, u)) \/ ToolCreate(u)
  PROVE  Spent(s, d)' /\ Past(s, d)'
  <1>1. /\ NewSchedule(u) \/ ToolCreate(u)
        /\ ops' = ops /\ turn' = turn /\ tool' = tool
        /\ fired' = fired /\ faults' = faults /\ now' = now
    BY DEF CreateSchedule, ReceiveScheduled, ToolCreate, histVars
  <1>2. ~Known(u)
    BY <1>1, Created DEF Structure, CountTypes
  <1>3. PICK row \in Row : rows' = [rows EXCEPT ![u] = row] /\ row.status = "active" /\ row.total = 0
    BY <1>1, Created DEF Structure, CountTypes
  <1>4. \A v \in Schedule : v # u => rows'[v] = rows[v]
    BY <1>2, <1>3, RowWritten DEF Structure
  <1>5. HeldRun(s)' = HeldRun(s) /\ OpenRun(s, d)' \in 0..1
    BY <1>1 DEF HeldRun, Held, OpenRun
  <1>6. CASE s # u
    <2>1. OpenRun(s, d)' = OpenRun(s, d)
      BY <1>1, <1>4, <1>6, SameOpen
    <2>2. QED
      BY <1>1, <1>5, <2>1, SpentKept, DueNumbers
  <1>7. CASE s = u
    <2>1. fired[s][d] = 0
      BY <1>2, <1>7 DEF Structure, AbsentInv
    <2>2. HeldRun(s) = 0
      BY <1>2, <1>7 DEF HeldRun, Held, Structure, ToolInv
    <2>3. Spent(s, d)'
      BY <1>1, <1>5, <2>1, <2>2, DueNumbers DEF Spent
    <2>4. Past(s, d)'
      BY <1>1 DEF Past
    <2>5. QED
      BY <2>3, <2>4
  <1>8. QED
    BY <1>6, <1>7

LEMMA ToolTriggerSpent ==
  ASSUME Structure, Structure', NEW s \in Schedule, NEW d \in Time, Spent(s, d), Past(s, d),
         NEW u \in Schedule, ToolTrigger(u)
  PROVE  Spent(s, d)' /\ Past(s, d)'
  <1>1. /\ rows' = rows /\ turn' = turn /\ tool.step = "idle"
        /\ tool'.step = "event" /\ tool'.item.id = u
        /\ fired' = fired /\ faults' = faults /\ now' = now
        /\ ops' = [ops EXCEPT ![u] = @ + 1]
    BY DEF ToolTrigger, dbVars, Item
  <1>2. ops'[u] = ops[u] + 1 /\ \A v \in Schedule : v # u => ops'[v] = ops[v]
    BY <1>1, Commanded DEF Structure, CountTypes
  <1>3. OpenRun(s, d)' = OpenRun(s, d)
    BY <1>1, SameOpen
  <1>4. HeldRun(s) = 0 /\ HeldRun(s)' = (IF s = u THEN 1 ELSE 0)
    BY <1>1 DEF HeldRun, Held
  <1>5. CASE s # u
    BY <1>1, <1>2, <1>3, <1>4, <1>5, SpentKept, DueNumbers
  <1>6. CASE s = u
    BY <1>1, <1>2, <1>3, <1>4, <1>6, SpentKept, DueNumbers
  <1>7. QED
    BY <1>5, <1>6

LEMMA ToolErrorSpent ==
  ASSUME Structure, Structure', NEW s \in Schedule, NEW d \in Time, Spent(s, d), Past(s, d),
         ToolError
  PROVE  Spent(s, d)' /\ Past(s, d)'
  <1>1. /\ rows' = rows /\ turn' = turn /\ ops' = ops /\ tool'.step = "idle"
        /\ fired' = fired /\ faults' = faults + 1 /\ now' = now
    BY DEF ToolError, ToolIdle
  <1>2. HeldRun(s)' = 0 /\ OpenRun(s, d)' = OpenRun(s, d)
    BY <1>1, SameOpen DEF HeldRun, Held
  <1>3. QED
    BY <1>1, <1>2, SpentKept, DueNumbers

LEMMA ToolRecordSpent ==
  ASSUME Structure, Structure', NEW s \in Schedule, NEW d \in Time, Spent(s, d), Past(s, d),
         ToolRecord
  PROVE  Spent(s, d)' /\ Past(s, d)'
  <1>1. /\ \A u \in Schedule : u # tool.item.id => rows'[u] = rows[u]
        /\ tool.step = "record" /\ tool'.step = "idle"
        /\ ops' = ops /\ turn' = turn /\ fired' = fired /\ faults' = faults /\ now' = now
    BY ToolRecordWrites DEF ToolRecord, histVars, ToolIdle
  <1>2. HeldRun(s)' = 0 /\ OpenRun(s, d)' \in 0..1
    BY <1>1 DEF HeldRun, Held, OpenRun
  <1>3. CASE s # tool.item.id
    <2>1. rows'[s] = rows[s]
      BY <1>1, <1>3
    <2>2. OpenRun(s, d)' = OpenRun(s, d)
      BY <1>1, <2>1, SameOpen
    <2>3. QED
      BY <1>1, <1>2, <2>2, SpentKept, DueNumbers
  <1>4. CASE s = tool.item.id
    <2>1. HeldRun(s) = 1
      BY <1>1, <1>4 DEF HeldRun, Held
    <2>2. QED
      BY <1>1, <1>2, <2>1, SpentKept, DueNumbers
  <1>5. QED
    BY <1>3, <1>4

\* No step removes a row or changes the limit of one.
LEMMA RowsKeptNext ==
  ASSUME Structure, [Next]_vars
  PROVE  RowsKept
  <1>1. CASE RecordExecution \/ ToolRecord
    BY <1>1, RecordExecutionWrites, ToolRecordWrites
  <1>2. CASE Delete
    <2>1. PICK u \in Schedule : u = Current.id
      BY <1>2, CurrentItem DEF Delete, Structure
    <2>2. rows' = [rows EXCEPT ![u].status = "deleted"]
      BY <1>2, <2>1 DEF Delete
    <2>3. QED
      BY <2>2, StatusSet DEF Structure
  <1>3. ASSUME NEW s \in Schedule,
               Pause(s) \/ ToolPause(s) \/ Cancel(s) \/ ToolDelete(s)
        PROVE  RowsKept
    <2>1. PICK status \in {"paused", "cancelled", "deleted"} :
             rows' = [rows EXCEPT ![s].status = status]
      BY <1>3 DEF Pause, ToolPause, Cancel, ToolDelete, Stopped
    <2>2. QED
      BY <2>1, StatusSet DEF Structure
  <1>4. ASSUME NEW s \in Schedule, Resume(s) \/ ToolResume(s)
        PROVE  RowsKept
    BY <1>4, RestartedRow DEF Structure, CountTypes, Resume, ToolResume
  <1>5. ASSUME NEW s \in Schedule,
               CreateSchedule(s) \/ (\E d \in Delivery : ReceiveScheduled(d, s)) \/ ToolCreate(s)
        PROVE  RowsKept
    <2>1. NewSchedule(s) \/ ToolCreate(s)
      BY <1>5 DEF CreateSchedule, ReceiveScheduled
    <2>2. ~Known(s) /\ \E row \in Row : rows' = [rows EXCEPT ![s] = row]
      BY <2>1, Created DEF Structure, CountTypes
    <2>3. QED
      BY <2>2, RowWritten DEF Structure
  <1>6. CASE \/ SweepDue \/ InsertEvent \/ InsertTask \/ RecordFails \/ TriggerError
             \/ ToolInsertEvent \/ ToolInsertTask \/ ToolError \/ Tick \/ Crash \/ Boot
             \/ UNCHANGED vars
             \/ \E s \in Schedule : TriggerNow(s) \/ ToolTrigger(s) \/ Rehydrate(s)
    <2>1. rows' = rows
      BY <1>6 DEF SweepDue, InsertEvent, InsertTask, RecordFails, TriggerError, ToolInsertEvent,
                  ToolInsertTask, ToolError, Tick, Crash, Boot, TriggerNow, ToolTrigger, Rehydrate,
                  vars, dbVars
    <2>2. QED
      BY <2>1, RowsUnchanged
  <1>7. QED
    BY <1>1, <1>2, <1>3, <1>4, <1>5, <1>6 DEF Next, Trigger, Tool, Operate

\* The schedule at hand has no number for its limit: it is not this one.
LEMMA RecordFailsSpent ==
  ASSUME Structure, Structure', NEW s \in Schedule, NEW d \in Time, Spent(s, d), Past(s, d),
         Numbered(s), RecordFails
  PROVE  Spent(s, d)' /\ Past(s, d)'
  <1>1. /\ rows' = rows /\ NextItem /\ turn.step = "record" /\ Current.row.max = Text
        /\ ops' = ops /\ tool' = tool /\ fired' = fired /\ faults' = faults /\ now' = now
    BY DEF RecordFails, dbVars, histVars
  <1>2. s # Current.id
    <2>1. Known(Current.id) /\ rows[Current.id].max = Text
      BY <1>1, CurrentItem DEF Structure, TurnInv
    <2>2. QED
      BY <2>1 DEF Numbered
  <1>3. /\ \A i \in Positions' : \E j \in Positions :
               turn'.todo[i] = turn.todo[j] /\ turn.todo[j].id # Current.id
        /\ turn'.step # "idle" => turn'.by = turn.by /\ turn'.at = turn.at
        /\ turn'.step = "idle" => Positions' = {}
    BY <1>1, ItemsLeft
  <1>4. Open(s, d)' => Open(s, d)
    <2>1. ASSUME turn'.by = "timer",
                 NEW i \in Positions', turn'.todo[i].id = s, turn'.todo[i].row.next = d
          PROVE  turn.by = "timer" /\ \E j \in Positions : turn.todo[j].id = s /\ turn.todo[j].row.next = d
      BY <1>3, <2>1
    <2>2. QED
      BY <1>1, <1>2, <2>1 DEF Open, Recording
  <1>5. OpenRun(s, d)' <= OpenRun(s, d) /\ OpenRun(s, d)' \in 0..1 /\ HeldRun(s)' = HeldRun(s)
    BY <1>1, <1>4 DEF OpenRun, HeldRun, Held
  <1>6. QED
    BY <1>1, <1>3, <1>5, SpentKept, DueNumbers

LEMMA NextSpent ==
  ASSUME Structure, Structure', DueInv, [Next]_vars
  PROVE  DueInv'
  <1> SUFFICES ASSUME NEW s \in Schedule, NEW d \in Time, Numbered(s)'
               PROVE  Spent(s, d)' /\ Past(s, d)'
    BY DEF DueInv
  <1>1. Numbered(s)
    BY RowsKeptNext DEF RowsKept, Numbered, Known
  <1>2. Spent(s, d) /\ Past(s, d)
    BY <1>1 DEF DueInv
  <1>3. CASE \/ InsertEvent \/ ToolInsertEvent \/ ToolInsertTask \/ Tick
             \/ (\E u \in Schedule : Rehydrate(u)) \/ UNCHANGED vars
    BY <1>2, <1>3, StillSpent
  <1>4. CASE SweepDue \/ Boot \/ InsertTask \/ TriggerError \/ Crash \/ RecordExecution \/ Delete
    BY <1>2, <1>4, SweepSpent, InsertTaskSpent, GivenUpSpent, RecordExecutionSpent, DeleteSpent
  <1>5. CASE RecordFails
    BY <1>2, <1>1, <1>5, RecordFailsSpent
  <1>6. CASE ToolError \/ ToolRecord
    BY <1>2, <1>6, ToolErrorSpent, ToolRecordSpent
  <1>7. ASSUME NEW u \in Schedule, Operate(u)
        PROVE  Spent(s, d)' /\ Past(s, d)'
    BY <1>2, <1>7, CreateSpent, CommandSpent, OperatorTurnSpent, ToolTriggerSpent DEF Operate
  <1>8. QED
    BY <1>3, <1>4, <1>6, <1>7, <1>5 DEF Next, Trigger, Tool

\* A due time is triggered once, however often the sweep ticks; a crash or an
\* error before the record, or an operator's command, costs one more each. What
\* is still to be triggered is counted with what was, and a time that was is past
\* for the next run the cron expression gives. It is about schedules whose
\* max_runs is a number: of the others no trigger is recorded, and nothing spends
\* the due time.
THEOREM TriggeredOnceCorrect == Spec => []TriggeredOncePerDue
  <1>1. Init => DueInv
    <2>1. ASSUME Init, NEW s \in Schedule, NEW d \in Time PROVE Spent(s, d) /\ Past(s, d)
      <3>1. /\ fired[s][d] = 0 /\ ops[s] = 0 /\ faults = 0
            /\ rows[s].status = "absent" /\ tool.step = "idle"
            /\ turn.todo = <<>>
        BY <2>1 DEF Init, NoRow, Idle, ToolIdle
      <3>2. OpenRun(s, d) = 0 /\ HeldRun(s) = 0
        BY <3>1 DEF OpenRun, Open, HeldRun, Held, Positions
      <3>3. QED
        BY <3>1, <3>2 DEF Spent, Past
    <2>2. QED
      BY <2>1 DEF DueInv
  <1>2. Structure /\ Structure' /\ DueInv /\ [Next]_vars => DueInv'
    BY NextSpent
  <1>3. Structure /\ DueInv => TriggeredOncePerDue
    <2>1. ASSUME Structure, DueInv, NEW s \in Schedule, NEW d \in Time, rows[s].max # Text
          PROVE  fired[s][d] <= 1 + ops[s] + faults
      <3>1. Spent(s, d)
        BY <2>1 DEF DueInv, Numbered
      <3>2. QED
        BY <2>1, <3>1, DueNumbers DEF Spent
    <2>2. QED
      BY <2>1 DEF TriggeredOncePerDue
  <1>4. QED
    BY <1>1, <1>2, <1>3, StructureCorrect, PTL DEF Spec
=============================================================================

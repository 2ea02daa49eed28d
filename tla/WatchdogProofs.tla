--------------------------- MODULE WatchdogProofs ---------------------------
(***************************************************************************)
(* What is proved of Watchdog for every family of sessions and every       *)
(* bound: types; the two callers never send into one conversation at a     *)
(* time; a pull-up because of a restart follows no other prompt that was   *)
(* sent to the session since; the sweeper's attempts at one step stay      *)
(* within their budget.                                                    *)
(*                                                                         *)
(* The first two rest on HoldInv: _in_flight_resuscitations is exactly     *)
(* what the rows of the sends that are out name, and these rows have no    *)
(* session in common. The other two rest on RowsInv, which adds what the   *)
(* table tells of the past: rows are in the order of the server's starts   *)
(* and of a session's steps, and what a tick still has to try was counted  *)
(* at a step no older than the sweeper's last attempt (ItemsCurrent).      *)
(***************************************************************************)
EXTENDS Watchdog, FiniteSetTheorems, TLAPS

RowType == [conv : Session, target : Session, kind : {"restart", "other"},
            by : Caller \cup {"scan"}, step : 0..MaxStep, server : 0..MaxServers,
            status : {"attempting", "resuscitated", "failed", "quota_cooldown", "resolved"}]

ItemType == [conv : Session, kind : {"restart", "other"}, step : 0..MaxStep]

TickType == [phase : {"idle", "tick", "send"}, todo : SUBSET Session,
             items : SUBSET ItemType, awake : SUBSET Session,
             name : SUBSET Session, row : Nat]

Pair(c) == {RowOf(c).conv, RowOf(c).target}

SessionTypes ==
    /\ state \in [Session -> {"working", "stalled", "quota", "finished"}]
    /\ step \in [Session -> 0..MaxStep]
    /\ written \in [Session -> 0..server] /\ known \in 0..server /\ server \in 0..MaxServers

MemoryTypes ==
    /\ rows \in Seq(RowType)
    /\ tick \in [Caller -> TickType]
    /\ age \in [Session -> 0..2] /\ recent \subseteq Session
    /\ requests \in 0..MaxRequests /\ crashes \in 0..MaxCrashes

Held ==
    /\ \A c \in Sending : tick[c].row \in 1..Len(rows)
    /\ inflight = UNION {Pair(c) : c \in Sending}
    /\ OneAtATime

HoldInv == SessionTypes /\ MemoryTypes /\ Held

LEMMA HoldInvTypes == HoldInv => TypeOK /\ OneAtATime
  BY DEF HoldInv, SessionTypes, MemoryTypes, Held, TypeOK, RowType, TickType, ItemType, Pair

LEMMA TargetType == \A s \in Session : Target(s) \in Session
  BY ParentAssumption DEF Target, Subagent

LEMMA InitHold == Init => HoldInv
  <1> SUFFICES ASSUME Init PROVE HoldInv
    OBVIOUS
  <1>1. SessionTypes
    BY BoundAssumption DEF Init, SessionTypes
  <1>2. MemoryTypes
    BY BoundAssumption DEF Init, MemoryTypes, Idle, TickType
  <1>3. Sending = {}
    BY DEF Init, Idle, Sending
  <1>4. Held
    BY <1>3 DEF Init, Held, OneAtATime
  <1>5. QED
    BY <1>1, <1>2, <1>4 DEF HoldInv

\* A step that leaves the sends alone: rows are added or get another status.
LEMMA SendsUntouched ==
  ASSUME Held, tick \in [Caller -> TickType], tick' \in [Caller -> TickType],
         rows \in Seq(RowType), rows' \in Seq(RowType),
         Len(rows') >= Len(rows),
         \A i \in 1..Len(rows) : rows'[i].conv = rows[i].conv /\ rows'[i].target = rows[i].target,
         \A c \in Caller : tick'[c].phase = "send" <=> tick[c].phase = "send",
         \A c \in Sending : tick'[c].row = tick[c].row,
         inflight' = inflight
  PROVE  Held'
  <1>1. Sending' = Sending
    BY DEF Sending
  <1>2. ASSUME NEW c \in Sending
        PROVE  /\ RowOf(c)'.conv = RowOf(c).conv /\ RowOf(c)'.target = RowOf(c).target
               /\ Pair(c)' = Pair(c) /\ tick'[c].row \in 1..Len(rows')
    <2>1. tick[c].row \in 1..Len(rows) /\ tick'[c].row = tick[c].row
      BY DEF Held
    <2>2. RowOf(c)'.conv = RowOf(c).conv /\ RowOf(c)'.target = RowOf(c).target
      BY <2>1 DEF RowOf
    <2>3. tick'[c].row \in 1..Len(rows')
      <3>1. Len(rows) \in Nat /\ Len(rows') \in Nat
        OBVIOUS
      <3>2. QED
        BY <2>1, <3>1
    <2>4. QED
      BY <2>2, <2>3 DEF Pair
  <1>3. inflight' = UNION {Pair(c)' : c \in Sending'}
    BY <1>1, <1>2 DEF Held
  <1>4. OneAtATime'
    BY <1>1, <1>2 DEF Held, OneAtATime
  <1>5. QED
    BY <1>1, <1>2, <1>3, <1>4 DEF Held

\* The same when the table does not change.
LEMMA TableUntouched ==
  ASSUME Held, tick \in [Caller -> TickType], tick' \in [Caller -> TickType],
         rows \in Seq(RowType), rows' = rows,
         \A c \in Caller : tick'[c].phase = "send" <=> tick[c].phase = "send",
         \A c \in Sending : tick'[c].row = tick[c].row,
         inflight' = inflight
  PROVE  Held'
  <1>1. rows' \in Seq(RowType) /\ Len(rows') >= Len(rows)
    OBVIOUS
  <1>2. QED
    BY <1>1, SendsUntouched

\* What is appended to the table, and that it disturbs no row.
LEMMA RowAppended ==
  ASSUME rows \in Seq(RowType), server \in 0..MaxServers,
         NEW s \in Session, NEW target \in Session, NEW kind \in {"restart", "other"},
         NEW by \in Caller \cup {"scan"}, NEW at \in 0..MaxStep,
         NEW status \in {"attempting", "quota_cooldown"},
         rows' = Append(rows, Row(s, target, kind, by, status, at))
  PROVE  /\ rows' \in Seq(RowType) /\ Len(rows') = Len(rows) + 1
         /\ \A i \in 1..Len(rows) : rows'[i] = rows[i]
         /\ rows'[Len(rows) + 1] = Row(s, target, kind, by, status, at)
         /\ rows'[Len(rows) + 1].conv = s /\ rows'[Len(rows) + 1].target = target
  <1>1. Row(s, target, kind, by, status, at) \in RowType
    BY DEF Row, RowType
  <1>2. QED
    BY <1>1 DEF Row

\* The gates of an attempt keep the two sends apart.
LEMMA AttemptHold ==
  ASSUME HoldInv, NEW c \in Caller, NEW s \in Session, NEW target \in Session,
         NEW kind \in {"restart", "other"}, NEW at \in 0..MaxStep,
         Attempt(c, s, target, kind, at)
  PROVE  HoldInv'
  <1>1. /\ UNCHANGED <<sessions, server, known, recent, requests, crashes>>
        /\ tick[c].phase = "tick" /\ {s, target} \cap inflight = {}
        /\ age' = [age EXCEPT ![s] = 0] /\ inflight' = inflight \cup {s, target}
        /\ rows' = Append(rows, Row(s, target, kind, c, "attempting", at))
        /\ tick' = [tick EXCEPT ![c].phase = "send", ![c].row = Len(rows) + 1,
                                ![c].items = @ \ {[conv |-> s, kind |-> kind, step |-> at]}]
    BY DEF Attempt, Scanned, Gates, Hold
  <1>2. SessionTypes'
    BY <1>1 DEF HoldInv, SessionTypes, sessions
  <1>3. /\ rows \in Seq(RowType) /\ server \in 0..MaxServers
        /\ tick \in [Caller -> TickType] /\ Len(rows) \in Nat
    BY DEF HoldInv, SessionTypes, MemoryTypes
  <1>4. /\ rows' \in Seq(RowType) /\ Len(rows') = Len(rows) + 1
        /\ \A i \in 1..Len(rows) : rows'[i] = rows[i]
        /\ rows'[Len(rows) + 1].conv = s /\ rows'[Len(rows) + 1].target = target
    BY <1>1, <1>3, RowAppended
  <1>5. tick' \in [Caller -> TickType]
    <2>1. tick[c] \in TickType
      BY <1>3
    <2>2. [tick[c] EXCEPT !.phase = "send", !.row = Len(rows) + 1,
                          !.items = @ \ {[conv |-> s, kind |-> kind, step |-> at]}] \in TickType
      <3>1. PICK n \in Nat, left \in SUBSET ItemType :
                n = Len(rows) + 1 /\ left = tick[c].items \ {[conv |-> s, kind |-> kind, step |-> at]}
        <4>1. Len(rows) + 1 \in Nat
          BY <1>3
        <4>2. tick[c].items \in SUBSET ItemType
          BY <2>1 DEF TickType
        <4>3. tick[c].items \ {[conv |-> s, kind |-> kind, step |-> at]} \in SUBSET ItemType
          BY <4>2
        <4>4. QED
          BY <4>1, <4>3
      <3>2. [tick[c] EXCEPT !.phase = "send", !.row = n, !.items = left] \in TickType
        BY <2>1 DEF TickType
      <3>3. QED
        BY <3>1, <3>2
    <2>3. tick' = [tick EXCEPT ![c] = [tick[c] EXCEPT !.phase = "send", !.row = Len(rows) + 1,
                                               !.items = @ \ {[conv |-> s, kind |-> kind, step |-> at]}]]
      BY <1>1, <1>3, <2>1 DEF TickType
    <2>4. QED
      BY <1>3, <2>2, <2>3
  <1>6. MemoryTypes'
    BY <1>1, <1>4, <1>5 DEF HoldInv, MemoryTypes
  <1>7. /\ tick'[c].phase = "send" /\ tick'[c].row = Len(rows) + 1
        /\ \A d \in Caller \ {c} : tick'[d] = tick[d]
    BY <1>1, <1>3 DEF TickType
  <1>8. Sending' = Sending \cup {c} /\ c \notin Sending
    BY <1>1, <1>7 DEF Sending
  <1>9. RowOf(c)'.conv = s /\ RowOf(c)'.target = target
    BY <1>4, <1>7 DEF RowOf
  <1>10. ASSUME NEW d \in Sending
         PROVE  /\ RowOf(d)' = RowOf(d) /\ Pair(d)' = Pair(d)
                /\ tick'[d].row \in 1..Len(rows')
    <2>1. d \in Caller \ {c} /\ tick[d].row \in 1..Len(rows)
      BY <1>8 DEF Sending, HoldInv, Held
    <2>2. RowOf(d)' = RowOf(d)
      BY <1>4, <1>7, <2>1 DEF RowOf
    <2>3. QED
      BY <1>3, <1>4, <1>7, <2>1, <2>2 DEF Pair
  <1>11. Pair(c)' = {s, target}
    BY <1>9 DEF Pair
  <1>12. inflight' = UNION {Pair(d)' : d \in Sending'}
    <2>1. inflight = UNION {Pair(d) : d \in Sending}
      BY DEF HoldInv, Held
    <2>2. QED
      BY <1>1, <1>8, <1>10, <1>11, <2>1
  <1>13. OneAtATime'
    <2> SUFFICES ASSUME NEW a \in Sending', NEW b \in Sending', a # b
                 PROVE  Pair(a)' \cap Pair(b)' = {}
      BY DEF OneAtATime, Pair
    <2>1. \A d \in Sending : Pair(d) \cap {s, target} = {}
      BY <1>1 DEF HoldInv, Held
    <2>2. CASE a \in Sending /\ b \in Sending
      BY <1>10, <2>2 DEF HoldInv, Held, OneAtATime, Pair
    <2>3. CASE a = c \/ b = c
      BY <1>8, <1>10, <1>11, <2>1, <2>3
    <2>4. QED
      BY <1>8, <2>2, <2>3
  <1>14. Held'
    BY <1>3, <1>4, <1>7, <1>8, <1>10, <1>12, <1>13 DEF Held
  <1>15. QED
    BY <1>2, <1>6, <1>14 DEF HoldInv

\* A send that returns frees its own pair and nothing of the other's.
LEMMA ReturnedHold ==
  ASSUME HoldInv, NEW c \in Caller,
         NEW status \in {"resuscitated", "failed", "quota_cooldown"},
         NEW awake \in SUBSET Session, Returned(c, status, awake)
  PROVE  MemoryTypes' /\ Held'
  <1>1. /\ tick[c].phase = "send" /\ UNCHANGED <<server, known, age, requests, crashes>>
        /\ rows' = [rows EXCEPT ![tick[c].row].status = status]
        /\ inflight' = inflight \ Pair(c)
        /\ recent' = recent \cup Pair(c)
        /\ tick' = [tick EXCEPT ![c] = Resumed(c, awake)]
    BY DEF Returned, Free, Pair
  <1>2. /\ rows \in Seq(RowType) /\ tick \in [Caller -> TickType]
        /\ c \in Sending /\ tick[c].row \in 1..Len(rows)
    BY <1>1 DEF HoldInv, MemoryTypes, Held, Sending
  <1>3. PICK k \in 1..Len(rows) : k = tick[c].row
    BY <1>2
  <1>4. rows[k] \in RowType /\ [rows[k] EXCEPT !.status = status] \in RowType
    <2>1. rows[k] \in RowType
      BY <1>2, <1>3
    <2>2. QED
      BY <2>1 DEF RowType
  <1>5. /\ rows' \in Seq(RowType) /\ Len(rows') = Len(rows)
        /\ \A i \in 1..Len(rows) : rows'[i].conv = rows[i].conv /\ rows'[i].target = rows[i].target
    <2>1. rows' = [rows EXCEPT ![k] = [rows[k] EXCEPT !.status = status]]
      BY <1>1, <1>2, <1>3
    <2>2. rows' \in Seq(RowType) /\ Len(rows') = Len(rows)
      BY <1>2, <1>3, <1>4, <2>1
    <2>3. ASSUME NEW i \in 1..Len(rows)
          PROVE  rows'[i].conv = rows[i].conv /\ rows'[i].target = rows[i].target
      <3>1. rows'[i] = IF i = k THEN [rows[k] EXCEPT !.status = status] ELSE rows[i]
        BY <1>2, <1>3, <2>1
      <3>2. QED
        BY <1>4, <3>1 DEF RowType
    <2>4. QED
      BY <2>2, <2>3
  <1>6. tick' \in [Caller -> TickType] /\ tick'[c].phase # "send"
    <2>1. Idle \in TickType
      BY DEF Idle, TickType
    <2>2. [tick[c] EXCEPT !.phase = "tick", !.row = 0, !.awake = @ \cup awake] \in TickType
      BY <1>2 DEF TickType
    <2>3. Idle.phase # "send"
      BY DEF Idle
    <2>4. [tick[c] EXCEPT !.phase = "tick", !.row = 0, !.awake = @ \cup awake].phase = "tick"
      BY <1>2 DEF TickType
    <2>5. Resumed(c, awake) \in TickType /\ Resumed(c, awake).phase # "send"
      <3>1. CASE tick[c].name # {}
        <4>1. Resumed(c, awake) = Idle
          BY <3>1 DEF Resumed
        <4>2. QED
          BY <2>1, <2>3, <4>1
      <3>2. CASE tick[c].name = {}
        <4>1. Resumed(c, awake) =
                  [tick[c] EXCEPT !.phase = "tick", !.row = 0, !.awake = @ \cup awake]
          BY <3>2 DEF Resumed
        <4>2. "tick" # "send"
          OBVIOUS
        <4>3. QED
          BY <2>2, <2>4, <4>1, <4>2
      <3>3. QED
        BY <3>1, <3>2
    <2>6. QED
      BY <1>1, <1>2, <2>5
  <1>7. \A d \in Caller \ {c} : tick'[d] = tick[d]
    BY <1>1, <1>2
  <1>8. Sending' = Sending \ {c}
    BY <1>6, <1>7 DEF Sending
  <1>9. ASSUME NEW d \in Sending \ {c}
        PROVE  /\ RowOf(d)'.conv = RowOf(d).conv /\ RowOf(d)'.target = RowOf(d).target
               /\ Pair(d)' = Pair(d) /\ tick'[d].row \in 1..Len(rows')
    <2>1. tick'[d] = tick[d] /\ tick[d].row \in 1..Len(rows)
      BY <1>7 DEF Sending, HoldInv, Held
    <2>2. RowOf(d)'.conv = RowOf(d).conv /\ RowOf(d)'.target = RowOf(d).target
      BY <1>5, <2>1 DEF RowOf
    <2>3. QED
      BY <1>5, <2>1, <2>2 DEF Pair
  <1>10. \A d \in Sending \ {c} : Pair(d) \cap Pair(c) = {}
    BY <1>2 DEF HoldInv, Held, OneAtATime, Pair
  <1>11. inflight' = UNION {Pair(d)' : d \in Sending'}
    <2>1. inflight = UNION {Pair(d) : d \in Sending}
      BY DEF HoldInv, Held
    <2>2. inflight \ Pair(c) = UNION {Pair(d) : d \in Sending \ {c}}
      BY <1>2, <1>10, <2>1
    <2>3. QED
      BY <1>1, <1>8, <1>9, <2>2
  <1>12. OneAtATime'
    BY <1>8, <1>9 DEF HoldInv, Held, OneAtATime
  <1>13. Held'
    BY <1>8, <1>9, <1>11, <1>12 DEF Held
  <1>14. Pair(c) \subseteq Session
    BY <1>3, <1>4 DEF Pair, RowOf, RowType
  <1>15. MemoryTypes'
    BY <1>1, <1>5, <1>6, <1>14 DEF HoldInv, MemoryTypes
  <1>16. QED
    BY <1>13, <1>15

\* The prompt that arrives touches the sessions only.
LEMMA ArrivesTypes ==
  ASSUME SessionTypes, NEW t \in Session, Arrives(t), UNCHANGED <<server, known>>
  PROVE  SessionTypes'
  BY BoundAssumption DEF SessionTypes, Arrives

\* The steps of a tick before its sends.
LEMMA TickHold ==
  ASSUME HoldInv, NEW c \in Caller, TickStep(c)
  PROVE  HoldInv'
  <1> USE BoundAssumption
  <1>1. /\ rows \in Seq(RowType) /\ tick \in [Caller -> TickType] /\ server \in 0..MaxServers
        /\ step \in [Session -> 0..MaxStep] /\ Held
    BY DEF HoldInv, SessionTypes, MemoryTypes
  <1>2. CASE BeginTick(c)
    <2>1. /\ tick[c].phase = "idle" /\ known' = server
          /\ UNCHANGED <<sessions, server, age, inflight, recent, crashes>>
      BY <1>2 DEF BeginTick
    <2>2. requests' \in 0..MaxRequests
      BY <1>2 DEF BeginTick, HoldInv, MemoryTypes
    <2>3. PICK name \in SUBSET Session :
              tick' = [tick EXCEPT ![c] =
                         [Idle EXCEPT !.phase = "tick", !.todo = Session, !.name = name]]
      BY <1>2 DEF BeginTick
    <2>4. [Idle EXCEPT !.phase = "tick", !.todo = Session, !.name = name] \in TickType
      BY DEF Idle, TickType
    <2>5. /\ tick' \in [Caller -> TickType] /\ tick'[c].phase # "send"
          /\ \A d \in Caller \ {c} : tick'[d] = tick[d]
      BY <1>1, <2>3, <2>4 DEF Idle
    <2>6. /\ rows' \in Seq(RowType) /\ Len(rows') >= Len(rows)
          /\ \A i \in 1..Len(rows) : rows'[i].conv = rows[i].conv /\ rows'[i].target = rows[i].target
      <3>1. CASE rows' = rows
        BY <1>1, <3>1
      <3>2. CASE rows' = [i \in DOMAIN rows |->
                     IF rows[i].status = "quota_cooldown"
                     THEN [rows[i] EXCEPT !.status = "resolved"] ELSE rows[i]]
        <4>1. \A i \in 1..Len(rows) : rows[i] \in RowType
          BY <1>1
        <4>2. ASSUME NEW i \in 1..Len(rows)
              PROVE  /\ rows'[i] \in RowType
                     /\ rows'[i].conv = rows[i].conv /\ rows'[i].target = rows[i].target
          <5>1. rows[i] \in RowType /\ i \in DOMAIN rows
            BY <1>1, <4>1
          <5>2. QED
            BY <3>2, <5>1 DEF RowType
        <4>3. rows' \in Seq(RowType) /\ Len(rows') = Len(rows)
          <5>1. Len(rows) \in Nat /\ DOMAIN rows = 1..Len(rows)
            BY <1>1
          <5>2. DOMAIN rows' = 1..Len(rows)
            BY <3>2, <5>1
          <5>3. rows' = [i \in 1..Len(rows) |-> rows'[i]]
            BY <3>2, <5>1
          <5>4. rows' \in [1..Len(rows) -> RowType]
            BY <4>2, <5>3
          <5>5. QED
            BY <5>1, <5>4
        <4>4. QED
          BY <1>1, <4>2, <4>3
      <3>3. QED
        BY <1>2, <3>1, <3>2 DEF BeginTick
    <2>7. /\ \A d \in Caller : tick'[d].phase = "send" <=> tick[d].phase = "send"
          /\ \A d \in Sending : tick'[d].row = tick[d].row
      BY <2>1, <2>5 DEF Sending
    <2>8. Held'
      BY <1>1, <2>1, <2>5, <2>6, <2>7, SendsUntouched
    <2>9. SessionTypes' /\ MemoryTypes'
      BY <2>1, <2>2, <2>5, <2>6 DEF HoldInv, SessionTypes, MemoryTypes, sessions
    <2>10. QED
      BY <2>8, <2>9 DEF HoldInv
  <1>3. ASSUME NEW s \in Session, Look(c, s) PROVE HoldInv'
    <2>1. /\ tick[c].phase = "tick"
          /\ UNCHANGED <<sessions, server, known, inflight, recent, requests, crashes>>
      BY <1>3 DEF Look
    <2>2. PICK found \in SUBSET ItemType : Looked(c, s, found)
      <3>1. {} \in SUBSET ItemType /\ {[conv |-> s, kind |-> Kind(s), step |-> step[s]]} \in SUBSET ItemType
        BY <1>1 DEF ItemType, Kind
      <3>2. QED
        BY <1>3, <3>1 DEF Look
    <2>3. /\ tick' \in [Caller -> TickType]
          /\ tick'[c].phase = tick[c].phase /\ tick'[c].row = tick[c].row
          /\ \A d \in Caller \ {c} : tick'[d] = tick[d]
      BY <1>1, <2>2 DEF Looked, TickType
    <2>4. /\ rows' \in Seq(RowType) /\ Len(rows') >= Len(rows) /\ age' \in [Session -> 0..2]
          /\ \A i \in 1..Len(rows) : rows'[i].conv = rows[i].conv /\ rows'[i].target = rows[i].target
      <3>1. CASE UNCHANGED <<rows, age>>
        BY <1>1, <3>1 DEF HoldInv, MemoryTypes
      <3>2. CASE /\ rows' = Append(rows, Row(s, s, "other", "scan", "quota_cooldown", step[s]))
                 /\ age' = [age EXCEPT ![s] = 0]
        <4>1. step[s] \in 0..MaxStep
          BY <1>1
        <4>2. /\ rows' \in Seq(RowType) /\ Len(rows') = Len(rows) + 1
              /\ \A i \in 1..Len(rows) : rows'[i] = rows[i]
          BY <1>1, <3>2, <4>1, RowAppended
        <4>3. Len(rows) \in Nat /\ age' \in [Session -> 0..2]
          BY <1>1, <3>2 DEF HoldInv, MemoryTypes
        <4>4. Len(rows') >= Len(rows)
          BY <4>2, <4>3
        <4>5. QED
          BY <4>2, <4>3, <4>4
      <3>3. QED
        BY <1>3, <3>1, <3>2 DEF Look
    <2>5. /\ \A d \in Caller : tick'[d].phase = "send" <=> tick[d].phase = "send"
          /\ \A d \in Sending : tick'[d].row = tick[d].row
      BY <2>3 DEF Sending
    <2>6. Held'
      BY <1>1, <2>1, <2>3, <2>4, <2>5, SendsUntouched
    <2>7. SessionTypes' /\ MemoryTypes'
      BY <2>1, <2>3, <2>4 DEF HoldInv, SessionTypes, MemoryTypes, sessions
    <2>8. QED
      BY <2>6, <2>7 DEF HoldInv
  <1>4. CASE PullUp(c)
    <2>1. PICK i \in tick[c].items :
              Attempt(c, i.conv, Target(i.conv), i.kind, i.step)
      BY <1>4 DEF PullUp
    <2>2. i.conv \in Session /\ i.kind \in {"restart", "other"} /\ i.step \in 0..MaxStep
      BY <1>1 DEF TickType, ItemType
    <2>3. Target(i.conv) \in Session
      BY <1>1, <2>2, TargetType
    <2>4. PICK s \in Session, target \in Session, kind \in {"restart", "other"}, at \in 0..MaxStep :
              s = i.conv /\ target = Target(i.conv) /\ kind = i.kind /\ at = i.step
      BY <2>2, <2>3
    <2>5. Attempt(c, s, target, kind, at)
      BY <2>1, <2>4
    <2>6. QED
      BY <2>5, AttemptHold
  <1>5. CASE Skip(c) \/ EndTick(c)
    <2>1. /\ tick[c].phase = "tick"
          /\ UNCHANGED <<sessions, server, known, rows, age, inflight, recent, requests, crashes>>
      BY <1>5 DEF Skip, EndTick, Scanned
    <2>2. /\ tick' \in [Caller -> TickType] /\ tick'[c].phase # "send"
          /\ \A d \in Caller \ {c} : tick'[d] = tick[d]
      <3>1. CASE Skip(c)
        <4>1. PICK i \in tick[c].items : tick' = [tick EXCEPT ![c].items = @ \ {i}]
          BY <3>1 DEF Skip
        <4>2. [tick[c] EXCEPT !.items = @ \ {i}] \in TickType
          BY <1>1 DEF TickType
        <4>3. [tick[c] EXCEPT !.items = @ \ {i}].phase = "tick"
          BY <1>1, <2>1 DEF TickType
        <4>4. QED
          BY <1>1, <4>1, <4>2, <4>3
      <3>2. CASE EndTick(c)
        BY <1>1, <3>2 DEF EndTick, Idle, TickType
      <3>3. QED
        BY <1>5, <3>1, <3>2
    <2>3. /\ \A d \in Caller : tick'[d].phase = "send" <=> tick[d].phase = "send"
          /\ \A d \in Sending : tick'[d].row = tick[d].row
      BY <2>1, <2>2 DEF Sending
    <2>4. Held'
      BY <1>1, <2>1, <2>2, <2>3, TableUntouched
    <2>5. SessionTypes' /\ MemoryTypes'
      BY <2>1, <2>2 DEF HoldInv, SessionTypes, MemoryTypes, sessions
    <2>6. QED
      BY <2>4, <2>5 DEF HoldInv
  <1>6. QED
    BY <1>2, <1>3, <1>4, <1>5 DEF TickStep

\* A send returns.
LEMMA SendHold ==
  ASSUME HoldInv, NEW c \in Caller, SendReturns(c)
  PROVE  HoldInv'
  <1>1. PICK status \in {"resuscitated", "failed", "quota_cooldown"}, awake \in {{}, Pair(c)} :
            Returned(c, status, awake)
    BY DEF SendReturns, SendOk, SendFailed, SendQuota, Pair
  <1>2. c \in Sending
    BY <1>1 DEF Returned, Sending
  <1>3. RowOf(c) \in RowType
    BY <1>2 DEF HoldInv, MemoryTypes, Held, RowOf
  <1>4. awake \in SUBSET Session
    BY <1>1, <1>3 DEF Pair, RowType
  <1>5. MemoryTypes' /\ Held'
    BY <1>1, <1>4, ReturnedHold
  <1>6. PICK t \in Session : t = RowOf(c).target
    BY <1>3 DEF RowType
  <1>7. UNCHANGED <<server, known>> /\ (Arrives(t) \/ UNCHANGED sessions)
    BY <1>1, <1>6 DEF SendReturns, SendOk, SendFailed, SendQuota, Returned
  <1>8. SessionTypes'
    <2>1. CASE Arrives(t)
      BY <1>7, <2>1, ArrivesTypes DEF HoldInv
    <2>2. CASE UNCHANGED sessions
      BY <1>7, <2>2 DEF HoldInv, SessionTypes, sessions
    <2>3. QED
      BY <1>7, <2>1, <2>2
  <1>9. QED
    BY <1>5, <1>8 DEF HoldInv

\* A request that names a session.
LEMMA NamedHold == HoldInv /\ PullUpNamed => HoldInv'
  <1> SUFFICES ASSUME HoldInv, PullUpNamed PROVE HoldInv'
    OBVIOUS
  <1>1. PICK s \in tick["route"].name :
            Attempt("route", s, Addressed(s).target, Addressed(s).kind, Addressed(s).at)
    BY DEF PullUpNamed
  <1>2. s \in Session /\ "route" \in Caller
    BY DEF HoldInv, MemoryTypes, TickType, Caller
  <1>3. /\ Addressed(s).target \in Session /\ Addressed(s).kind \in {"restart", "other"}
        /\ Addressed(s).at \in 0..MaxStep
    BY <1>2, TargetType, BoundAssumption DEF Addressed, Kind, HoldInv, SessionTypes
  <1>4. PICK target \in Session, kind \in {"restart", "other"}, at \in 0..MaxStep :
            target = Addressed(s).target /\ kind = Addressed(s).kind /\ at = Addressed(s).at
    BY <1>3
  <1>5. Attempt("route", s, target, kind, at)
    BY <1>1, <1>4
  <1>6. QED
    BY <1>2, <1>5, AttemptHold

\* Time, Antigravity and crashes leave the sends alone, or end them all.
LEMMA WorldHold ==
  ASSUME HoldInv,
         \/ \E s \in Session : GrowOld(s) \/ Expire(s) \/ Work(s) \/ Stop(s)
         \/ Crash \/ NewServer \/ UNCHANGED vars
  PROVE  HoldInv'
  <1> USE BoundAssumption
  <1>1. tick \in [Caller -> TickType] /\ rows \in Seq(RowType) /\ Held
    BY DEF HoldInv, MemoryTypes
  <1>2. CASE Crash
    <2>1. /\ UNCHANGED <<sessions, server, known, rows, age, requests>>
          /\ tick' = [c \in Caller |-> Idle] /\ inflight' = {} /\ recent' = {}
          /\ crashes' \in 0..MaxCrashes
      BY <1>2 DEF Crash, HoldInv, MemoryTypes
    <2>2. SessionTypes'
      BY <2>1 DEF HoldInv, SessionTypes, sessions
    <2>3. Idle \in TickType /\ Idle.phase # "send"
      BY DEF Idle, TickType
    <2>4. MemoryTypes'
      BY <2>1, <2>3 DEF HoldInv, MemoryTypes
    <2>5. Sending' = {}
      BY <2>1, <2>3 DEF Sending
    <2>6. Held'
      BY <2>1, <2>5 DEF Held, OneAtATime
    <2>7. QED
      BY <2>2, <2>4, <2>6 DEF HoldInv
  <1>3. ASSUME UNCHANGED <<tick, rows, inflight, requests, crashes>>,
               age' \in [Session -> 0..2], recent' \subseteq Session, SessionTypes'
        PROVE  HoldInv'
    <2>1. Held'
      BY <1>1, <1>3, TableUntouched
    <2>2. QED
      BY <1>3, <2>1 DEF HoldInv, MemoryTypes
  <1>4. age \in [Session -> 0..2] /\ recent \subseteq Session /\ SessionTypes
    BY DEF HoldInv, MemoryTypes
  <1>5. ASSUME NEW s \in Session, GrowOld(s) \/ Expire(s) PROVE HoldInv'
    <2>1. /\ UNCHANGED <<tick, rows, inflight, requests, crashes>>
          /\ UNCHANGED <<state, step, written, server, known>>
      BY <1>5 DEF GrowOld, Expire, sessions
    <2>2. recent' \subseteq Session /\ age' \in [Session -> 0..2]
      BY <1>4, <1>5 DEF GrowOld, Expire
    <2>3. SessionTypes'
      BY <1>4, <2>1 DEF SessionTypes
    <2>4. QED
      BY <1>3, <2>1, <2>2, <2>3
  <1>6. ASSUME NEW s \in Session, Work(s) \/ Stop(s) PROVE HoldInv'
    <2>1. UNCHANGED <<tick, rows, inflight, requests, crashes, age, recent>>
      BY <1>6 DEF Work, Stop
    <2>2. SessionTypes'
      <3>1. CASE Work(s)
        BY <1>4, <3>1 DEF Work, SessionTypes
      <3>2. CASE Stop(s)
        BY <1>4, <3>2, EndAssumption DEF Stop, SessionTypes
      <3>3. QED
        BY <1>6, <3>1, <3>2
    <2>3. QED
      BY <1>3, <1>4, <2>1, <2>2
  <1>7. CASE NewServer
    <2>1. UNCHANGED <<tick, rows, inflight, requests, crashes, age, recent>>
      BY <1>7 DEF NewServer
    <2>2. SessionTypes'
      BY <1>4, <1>7 DEF NewServer, SessionTypes
    <2>3. QED
      BY <1>3, <1>4, <2>1, <2>2
  <1>8. CASE UNCHANGED vars
    <2>1. /\ UNCHANGED <<tick, rows, inflight, requests, crashes, age, recent>>
          /\ UNCHANGED <<state, step, written, server, known>>
      BY <1>8 DEF vars, sessions
    <2>2. SessionTypes'
      BY <1>4, <2>1 DEF SessionTypes
    <2>3. QED
      BY <1>3, <1>4, <2>1, <2>2
  <1>9. QED
    BY <1>2, <1>5, <1>6, <1>7, <1>8

LEMMA NextHold == HoldInv /\ [Next]_vars => HoldInv'
  BY TickHold, SendHold, NamedHold, WorldHold DEF Next

\* Every variable keeps its type, and a session is in flight exactly while a caller
\* is sending for it or to it (_in_flight_resuscitations): TypeOK of run
\* watchdog_family, for every family of sessions and every bound.
THEOREM TypeCorrect == Spec => []TypeOK
  BY InitHold, NextHold, HoldInvTypes, PTL DEF Spec

\* The sweeper and the requests never send into one conversation, or for one
\* session, at a time, however old their verdicts are: OneAtATime of run
\* watchdog_family, for every family of sessions and every bound.
THEOREM OneAtATimeCorrect == Spec => []OneAtATime
  BY InitHold, NextHold, HoldInvTypes, PTL DEF Spec

----------------------------------------------------------------------------
(* What the rows say: no second prompt for a restart, and the budget of the *)
(* sweeper's attempts. The inductive invariant is RowsInv.                  *)

Items == tick["sweeper"].items
Tried(r) == r.status \in {"attempting", "resuscitated", "failed"}

\* The row of a send that is out says so.
SendsOpen == \A c \in Sending : RowOf(c).status = "attempting"

\* Rows are written for the server of their time.
ServersOrdered ==
    \A k \in DOMAIN rows :
        /\ rows[k].server <= server
        /\ \A i \in DOMAIN rows : i <= k => rows[i].server <= rows[k].server

\* Only a request writes a step that is not the session's of a verdict.
StepsSeen == \A k \in DOMAIN rows : rows[k].by # "route" => rows[k].step <= step[rows[k].conv]

StepsOrdered ==
    \A i, k \in DOMAIN rows :
        i <= k /\ rows[i].conv = rows[k].conv /\ rows[i].by = "sweeper" /\ rows[k].by # "route"
        => rows[i].step <= rows[k].step

\* A verdict of the sweeper is the only one of its session, and not older than
\* the attempts of the sweeper.
ItemsCurrent ==
    \A i \in Items :
        /\ i.step <= step[i.conv] /\ i.conv \notin tick["sweeper"].todo
        /\ \A j \in Items : j.conv = i.conv => j = i
        /\ \A k \in DOMAIN rows :
              rows[k].conv = i.conv /\ rows[k].by = "sweeper" => rows[k].step <= i.step

\* What a verdict promised still holds when it is used.
ItemsLeft ==
    \A i \in Items, n \in 0..MaxServers :
        n >= server => Cardinality(Tries(i.conv, i.step, n)) < MaxTotal

TableInv == /\ OncePerRestart /\ ServersOrdered /\ StepsSeen /\ StepsOrdered
            /\ ItemsCurrent /\ ItemsLeft /\ Budget
RowsInv  == HoldInv /\ SendsOpen /\ TableInv

\* A set of row numbers that is not empty has a largest one. The numbers up to
\* some member of T are as many as the largest of them.
LEMMA MaxExists ==
  ASSUME NEW n \in Nat, NEW T \in SUBSET (1..n), T # {}
  PROVE  Max(T) \in T /\ \A y \in T : y <= Max(T)
  <1> DEFINE D == {x \in 1..n : \E y \in T : y >= x}
  <1>1. IsFiniteSet(D) /\ Cardinality(D) \in Nat
    <2>1. IsFiniteSet(1..n) /\ D \in SUBSET (1..n)
      BY FS_Interval
    <2>2. IsFiniteSet(D)
      BY <2>1, FS_Subset
    <2>3. QED
      BY <2>2, FS_CardinalityType
  <1>2. PICK k \in Nat : k = Cardinality(D)
    BY <1>1
  <1>3. ASSUME NEW x \in D PROVE x \in 1..k
    <2>1. 1..x \in SUBSET D /\ Cardinality(1..x) = x
      BY FS_Interval
    <2>2. Cardinality(1..x) <= Cardinality(D)
      BY <1>1, <2>1, FS_Subset
    <2>3. QED
      BY <1>2, <2>1, <2>2
  <1>4. D \in SUBSET (1..k) /\ IsFiniteSet(1..k) /\ Cardinality(1..k) = k
    <2>1. D \in SUBSET (1..k)
      BY <1>3
    <2>2. 0 \in Int /\ 1 \in Int /\ k \in Int
      OBVIOUS
    <2>3. QED
      BY <2>1, <2>2, FS_Interval
  <1>5. D = 1..k
    BY <1>2, <1>4, FS_Subset
  <1>6. T \subseteq D
    OBVIOUS
  <1>7. k \in T /\ \A y \in T : k >= y
    <2>1. \A y \in T : y <= k
      BY <1>5, <1>6
    <2>2. k \in D
      <3>1. PICK z \in T : z \in 1..k
        BY <1>5, <1>6
      <3>2. k \in 1..k
        BY <3>1
      <3>3. QED
        BY <1>5, <3>2
    <2>3. PICK y \in T : y >= k
      BY <2>2
    <2>4. QED
      BY <2>1, <2>3
  <1>8. QED
    BY <1>7 DEF Max

LEMMA TriesFinite ==
  ASSUME rows \in Seq(RowType), NEW s \in Session, NEW at \in 0..MaxStep, NEW n \in 0..MaxServers
  PROVE  /\ Tries(s, at, n) \in SUBSET (1..Len(rows))
         /\ IsFiniteSet(Tries(s, at, n)) /\ Cardinality(Tries(s, at, n)) \in Nat
  <1>1. Tries(s, at, n) \in SUBSET (1..Len(rows))
    BY DEF Tries, RowsOf
  <1>2. IsFiniteSet(1..Len(rows))
    BY FS_Interval
  <1>3. IsFiniteSet(Tries(s, at, n))
    BY <1>1, <1>2, FS_Subset
  <1>4. QED
    BY <1>1, <1>3, FS_CardinalityType

\* The rows keep their numbers and contents, but for the status of an attempt
\* that is over and of a cooldown that is.
Kept ==
    /\ Len(rows') = Len(rows)
    /\ \A i \in 1..Len(rows) :
          /\ rows'[i].conv = rows[i].conv /\ rows'[i].target = rows[i].target
          /\ rows'[i].kind = rows[i].kind /\ rows'[i].by = rows[i].by
          /\ rows'[i].step = rows[i].step /\ rows'[i].server = rows[i].server
          /\ (Sent(rows'[i]) => Sent(rows[i])) /\ (Tried(rows'[i]) => Tried(rows[i]))

LEMMA KeptTries ==
  ASSUME rows \in Seq(RowType), rows' \in Seq(RowType), Kept,
         NEW s \in Session, NEW at \in 0..MaxStep, NEW n \in 0..MaxServers
  PROVE  Tries(s, at, n)' \subseteq Tries(s, at, n)
  <1> SUFFICES ASSUME NEW i \in Tries(s, at, n)' PROVE i \in Tries(s, at, n)
    OBVIOUS
  <1>1. DOMAIN rows = 1..Len(rows) /\ DOMAIN rows' = 1..Len(rows)
    BY DEF Kept
  <1>2. /\ i \in 1..Len(rows) /\ rows'[i].conv = s /\ rows'[i].by = "sweeper"
        /\ rows'[i].step = at /\ rows'[i].server = n /\ Tried(rows'[i])
        /\ \A k \in 1..Len(rows) :
              rows'[k].conv = s /\ k > i /\ rows'[k].by = "route" => rows'[k].step = at
    BY <1>1 DEF Tries, RowsOf, Tried
  <1>3. /\ rows[i].conv = s /\ rows[i].by = "sweeper" /\ rows[i].step = at
        /\ rows[i].server = n /\ Tried(rows[i])
    BY <1>2 DEF Kept
  <1>4. \A k \in 1..Len(rows) :
            rows[k].conv = s /\ k > i /\ rows[k].by = "route" => rows[k].step = at
    BY <1>2 DEF Kept
  <1>5. QED
    BY <1>1, <1>2, <1>3, <1>4 DEF Tries, RowsOf, Tried

\* A new row is one more attempt at most, of its own session and step, and only
\* when the sweeper wrote it.
LEMMA AppendTries ==
  ASSUME rows \in Seq(RowType), NEW r \in RowType, rows' = Append(rows, r),
         NEW s \in Session, NEW at \in 0..MaxStep, NEW n \in 0..MaxServers
  PROVE  /\ Tries(s, at, n)' \subseteq Tries(s, at, n) \cup {Len(rows) + 1}
         /\ ~(r.by = "sweeper" /\ r.conv = s /\ r.step = at /\ r.server = n)
               => Tries(s, at, n)' \subseteq Tries(s, at, n)
  <1>1. /\ Len(rows) \in Nat /\ DOMAIN rows = 1..Len(rows) /\ DOMAIN rows' = 1..(Len(rows) + 1)
        /\ rows'[Len(rows) + 1] = r /\ \A k \in 1..Len(rows) : rows'[k] = rows[k]
    OBVIOUS
  <1>2. ASSUME NEW i \in Tries(s, at, n)', i # Len(rows) + 1
        PROVE  i \in Tries(s, at, n)
    <2>1. i \in 1..Len(rows) /\ rows'[i] = rows[i]
      BY <1>1, <1>2 DEF Tries, RowsOf
    <2>2. /\ rows'[i].conv = s /\ rows'[i].by = "sweeper" /\ rows'[i].step = at
          /\ rows'[i].server = n /\ Tried(rows'[i])
          /\ \A k \in 1..(Len(rows) + 1) :
                rows'[k].conv = s /\ k > i /\ rows'[k].by = "route" => rows'[k].step = at
      BY <1>1 DEF Tries, RowsOf, Tried
    <2>3. \A k \in 1..Len(rows) :
              rows[k].conv = s /\ k > i /\ rows[k].by = "route" => rows[k].step = at
      <3>1. \A k \in 1..Len(rows) : k \in 1..(Len(rows) + 1)
        BY <1>1
      <3>2. QED
        BY <1>1, <2>2, <3>1
    <2>4. QED
      BY <1>1, <2>1, <2>2, <2>3 DEF Tries, RowsOf, Tried
  <1>3. ASSUME Len(rows) + 1 \in Tries(s, at, n)'
        PROVE  r.by = "sweeper" /\ r.conv = s /\ r.step = at /\ r.server = n
    BY <1>1, <1>3 DEF Tries, RowsOf
  <1>4. QED
    BY <1>2, <1>3

\* No session's transcript gets shorter and no server comes back.
Advances == server <= server' /\ \A s \in Session : step[s] <= step'[s]

FewerItems ==
    \/ Items' = {}
    \/ Items' \subseteq Items /\ tick'["sweeper"].todo \subseteq tick["sweeper"].todo

LEMMA ItemTypes ==
  ASSUME HoldInv
  PROVE  Items \in SUBSET ItemType
  BY DEF HoldInv, MemoryTypes, TickType, Items, Caller

\* Fewer verdicts stay current while the rows keep their contents.
LEMMA KeptItems ==
  ASSUME HoldInv, HoldInv', ItemsCurrent, ItemsLeft, Kept, Advances, FewerItems
  PROVE  ItemsCurrent' /\ ItemsLeft'
  <1>1. Items \in SUBSET ItemType /\ Items' \in SUBSET ItemType
    BY DEF HoldInv, MemoryTypes, TickType, Items, Caller
  <1>2. /\ rows \in Seq(RowType) /\ rows' \in Seq(RowType) /\ server \in 0..MaxServers
        /\ server' \in 0..MaxServers /\ step \in [Session -> 0..MaxStep]
        /\ step' \in [Session -> 0..MaxStep]
    BY DEF HoldInv, SessionTypes, MemoryTypes
  <1>3. ASSUME NEW i \in Items'
        PROVE  /\ i \in Items /\ i.conv \notin tick'["sweeper"].todo
               /\ i.conv \in Session /\ i.step \in 0..MaxStep
    BY <1>1, <1>3 DEF FewerItems, ItemsCurrent, ItemType
  <1>4. ItemsCurrent'
    <2> SUFFICES ASSUME NEW i \in Items'
                 PROVE  /\ i.step <= step'[i.conv] /\ i.conv \notin tick'["sweeper"].todo
                        /\ \A j \in Items' : j.conv = i.conv => j = i
                        /\ \A k \in DOMAIN rows' : rows'[k].conv = i.conv /\ rows'[k].by = "sweeper"
                                                      => rows'[k].step <= i.step
      BY DEF ItemsCurrent
    <2>1. i \in Items /\ i.conv \in Session /\ i.step \in 0..MaxStep
      BY <1>3
    <2>2. i.step <= step'[i.conv]
      <3>1. i.step <= step[i.conv] /\ step[i.conv] <= step'[i.conv]
        BY <2>1 DEF ItemsCurrent, Advances
      <3>2. step[i.conv] \in Int /\ step'[i.conv] \in Int
        BY <1>2, <2>1
      <3>3. QED
        BY <2>1, <3>1, <3>2
    <2>3. \A j \in Items' : j.conv = i.conv => j = i
      BY <1>3, <2>1 DEF ItemsCurrent
    <2>4. ASSUME NEW k \in DOMAIN rows', rows'[k].conv = i.conv, rows'[k].by = "sweeper"
          PROVE  rows'[k].step <= i.step
      <3>1. k \in 1..Len(rows) /\ k \in DOMAIN rows
        BY <1>2, <2>4 DEF Kept
      <3>2. rows[k].conv = i.conv /\ rows[k].by = "sweeper" /\ rows'[k].step = rows[k].step
        BY <2>4, <3>1 DEF Kept
      <3>3. QED
        BY <2>1, <3>1, <3>2 DEF ItemsCurrent
    <2>5. QED
      BY <1>3, <2>2, <2>3, <2>4
  <1>5. ItemsLeft'
    <2> SUFFICES ASSUME NEW i \in Items', NEW n \in 0..MaxServers, n >= server'
                 PROVE  Cardinality(Tries(i.conv, i.step, n)') < MaxTotal
      BY DEF ItemsLeft
    <2>1. PICK s \in Session, at \in 0..MaxStep : s = i.conv /\ at = i.step
      BY <1>3
    <2>2. n >= server
      BY <1>2 DEF Advances
    <2>3. Cardinality(Tries(s, at, n)) < MaxTotal
      BY <1>3, <2>1, <2>2 DEF ItemsLeft
    <2>4. Tries(s, at, n)' \subseteq Tries(s, at, n)
      BY <1>2, KeptTries
    <2>5. IsFiniteSet(Tries(s, at, n)) /\ Cardinality(Tries(s, at, n)) \in Nat
      BY <1>2, TriesFinite
    <2>6. /\ Cardinality(Tries(s, at, n)') <= Cardinality(Tries(s, at, n))
          /\ Cardinality(Tries(s, at, n)') \in Nat
      BY <2>4, <2>5, FS_Subset, FS_CardinalityType
    <2>7. QED
      BY <2>1, <2>3, <2>5, <2>6, LimitAssumption
  <1>6. QED
    BY <1>4, <1>5

\* A step that keeps the rows, and may drop verdicts.
LEMMA KeptTable ==
  ASSUME HoldInv, HoldInv', TableInv, Kept, Advances, FewerItems
  PROVE  TableInv'
  <1>1. /\ rows \in Seq(RowType) /\ rows' \in Seq(RowType) /\ server \in 0..MaxServers
        /\ server' \in 0..MaxServers /\ step \in [Session -> 0..MaxStep]
        /\ step' \in [Session -> 0..MaxStep]
    BY DEF HoldInv, SessionTypes, MemoryTypes
  <1>2. /\ Len(rows) \in Nat /\ DOMAIN rows = 1..Len(rows) /\ DOMAIN rows' = 1..Len(rows)
        /\ \A k \in 1..Len(rows) : rows[k] \in RowType
    BY <1>1 DEF Kept
  <1>3. OncePerRestart'
    BY <1>2 DEF TableInv, OncePerRestart, Kept
  <1>4. ServersOrdered'
    <2> SUFFICES ASSUME NEW k \in 1..Len(rows)
                 PROVE  /\ rows'[k].server <= server'
                        /\ \A i \in 1..Len(rows) : i <= k => rows'[i].server <= rows'[k].server
      BY <1>2 DEF ServersOrdered
    <2>1. /\ rows[k].server <= server /\ rows[k].server \in 0..MaxServers
          /\ \A i \in 1..Len(rows) : i <= k => rows[i].server <= rows[k].server
      BY <1>2 DEF TableInv, ServersOrdered, RowType
    <2>2. rows'[k].server <= server'
      BY <1>1, <2>1 DEF Kept, Advances
    <2>3. QED
      BY <2>1, <2>2 DEF Kept
  <1>5. StepsSeen'
    <2> SUFFICES ASSUME NEW k \in 1..Len(rows), rows'[k].by # "route"
                 PROVE  rows'[k].step <= step'[rows'[k].conv]
      BY <1>2 DEF StepsSeen
    <2>1. PICK s \in Session, at \in 0..MaxStep : s = rows[k].conv /\ at = rows[k].step
      BY <1>2 DEF RowType
    <2>2. rows'[k].conv = s /\ rows'[k].step = at /\ rows[k].by # "route"
      BY <2>1 DEF Kept
    <2>3. at <= step[s] /\ step[s] <= step'[s]
      BY <1>2, <2>1, <2>2 DEF TableInv, StepsSeen, Advances
    <2>4. step[s] \in Int /\ step'[s] \in Int
      BY <1>1
    <2>5. QED
      BY <2>2, <2>3, <2>4
  <1>6. StepsOrdered'
    <2> SUFFICES ASSUME NEW i \in 1..Len(rows), NEW k \in 1..Len(rows),
                        i <= k, rows'[i].conv = rows'[k].conv,
                        rows'[i].by = "sweeper", rows'[k].by # "route"
                 PROVE  rows'[i].step <= rows'[k].step
      BY <1>2 DEF StepsOrdered
    <2>1. rows[i].step <= rows[k].step
      BY <1>2 DEF TableInv, StepsOrdered, Kept
    <2>2. QED
      BY <2>1 DEF Kept
  <1>7. ItemsCurrent' /\ ItemsLeft'
    BY KeptItems DEF TableInv
  <1>8. Budget'
    <2> SUFFICES ASSUME NEW s \in Session, NEW at \in 0..MaxStep, NEW n \in 0..MaxServers
                 PROVE  Cardinality(Tries(s, at, n)') <= MaxTotal
      BY DEF Budget
    <2>1. Cardinality(Tries(s, at, n)) <= MaxTotal
      BY DEF TableInv, Budget
    <2>2. Tries(s, at, n)' \subseteq Tries(s, at, n)
      BY <1>1, KeptTries
    <2>3. IsFiniteSet(Tries(s, at, n)) /\ Cardinality(Tries(s, at, n)) \in Nat
      BY <1>1, TriesFinite
    <2>4. /\ Cardinality(Tries(s, at, n)') <= Cardinality(Tries(s, at, n))
          /\ Cardinality(Tries(s, at, n)') \in Nat
      BY <2>2, <2>3, FS_Subset, FS_CardinalityType
    <2>5. QED
      BY <2>1, <2>3, <2>4, LimitAssumption
  <1>9. QED
    BY <1>3, <1>4, <1>5, <1>6, <1>7, <1>8 DEF TableInv

\* A step that appends a row: a restart follows no other prompt, the step of the
\* row is the session's unless a request wrote it, and an attempt of the sweeper
\* was left in the budget and is no verdict any longer.
LEMMA AppendTable ==
  ASSUME HoldInv, HoldInv', TableInv, NEW r \in RowType, rows' = Append(rows, r),
         r.server = server, UNCHANGED <<server, step>>, FewerItems,
         \A j \in DOMAIN rows : r.kind = "restart" /\ rows[j].server = r.server
             /\ r.target \in {rows[j].conv, rows[j].target} => ~Sent(rows[j]),
         r.by # "route" =>
             /\ r.step <= step[r.conv]
             /\ \A j \in DOMAIN rows :
                   rows[j].conv = r.conv /\ rows[j].by = "sweeper" => rows[j].step <= r.step,
         r.by = "sweeper" =>
             /\ Cardinality(Tries(r.conv, r.step, r.server)) < MaxTotal
             /\ \A i \in Items' : i.conv # r.conv
  PROVE  TableInv'
  <1>1. /\ rows \in Seq(RowType) /\ rows' \in Seq(RowType) /\ server \in 0..MaxServers
        /\ step \in [Session -> 0..MaxStep]
        /\ Items \in SUBSET ItemType /\ Items' \in SUBSET ItemType
    BY DEF HoldInv, SessionTypes, MemoryTypes, TickType, Items, Caller
  <1>2. /\ Len(rows) \in Nat /\ DOMAIN rows = 1..Len(rows)
        /\ DOMAIN rows' = 1..Len(rows) \cup {Len(rows) + 1}
        /\ rows'[Len(rows) + 1] = r
        /\ \A k \in 1..Len(rows) : rows[k] \in RowType /\ rows'[k] = rows[k]
    BY <1>1
  <1>3. PICK top \in Nat : top = Len(rows) + 1
    BY <1>2
  <1>4. /\ DOMAIN rows' = DOMAIN rows \cup {top} /\ rows'[top] = r
        /\ \A k \in DOMAIN rows : k < top /\ k \in Nat /\ rows[k] \in RowType /\ rows'[k] = rows[k]
    BY <1>2, <1>3
  <1>5. /\ r.conv \in Session /\ r.step \in 0..MaxStep /\ r.server \in 0..MaxServers
    BY DEF RowType
  <1>6. OncePerRestart'
    <2> SUFFICES ASSUME NEW i \in DOMAIN rows', NEW j \in DOMAIN rows',
                        j < i, rows'[i].kind = "restart", rows'[j].server = rows'[i].server,
                        rows'[i].target \in {rows'[j].conv, rows'[j].target}
                 PROVE  ~Sent(rows'[j])
      BY DEF OncePerRestart
    <2>1. j \in DOMAIN rows
      BY <1>4
    <2>2. CASE i = top
      BY <1>4, <2>1, <2>2
    <2>3. CASE i \in DOMAIN rows
      BY <1>4, <2>1, <2>3 DEF TableInv, OncePerRestart
    <2>4. QED
      BY <1>4, <2>2, <2>3
  <1>7. ServersOrdered'
    <2> SUFFICES ASSUME NEW k \in DOMAIN rows'
                 PROVE  /\ rows'[k].server <= server
                        /\ \A i \in DOMAIN rows' : i <= k => rows'[i].server <= rows'[k].server
      BY DEF ServersOrdered
    <2>1. \A i \in DOMAIN rows : rows'[i].server <= server
      BY <1>4 DEF TableInv, ServersOrdered
    <2>2. CASE k = top
      BY <1>1, <1>4, <2>1, <2>2
    <2>3. CASE k \in DOMAIN rows
      <3>1. \A i \in DOMAIN rows' : i <= k => i \in DOMAIN rows
        BY <1>3, <1>4, <2>3
      <3>2. QED
        BY <1>4, <2>3, <3>1 DEF TableInv, ServersOrdered
    <2>4. QED
      BY <1>4, <2>2, <2>3
  <1>8. StepsSeen'
    BY <1>4 DEF TableInv, StepsSeen
  <1>9. StepsOrdered'
    <2> SUFFICES ASSUME NEW i \in DOMAIN rows', NEW k \in DOMAIN rows',
                        i <= k, rows'[i].conv = rows'[k].conv,
                        rows'[i].by = "sweeper", rows'[k].by # "route"
                 PROVE  rows'[i].step <= rows'[k].step
      BY DEF StepsOrdered
    <2>1. CASE k \in DOMAIN rows
      <3>1. i \in DOMAIN rows
        BY <1>3, <1>4, <2>1
      <3>2. QED
        BY <1>4, <2>1, <3>1 DEF TableInv, StepsOrdered
    <2>2. CASE k = top /\ i = top
      BY <1>4, <1>5, <2>2
    <2>3. CASE k = top /\ i \in DOMAIN rows
      BY <1>4, <2>3
    <2>4. QED
      BY <1>4, <2>1, <2>2, <2>3
  <1>10. ASSUME NEW i \in Items'
         PROVE  /\ i \in Items /\ i.conv \notin tick'["sweeper"].todo
                /\ i.conv \in Session /\ i.step \in 0..MaxStep
    BY <1>1, <1>10 DEF FewerItems, TableInv, ItemsCurrent, ItemType
  <1>11. ItemsCurrent'
    <2> SUFFICES ASSUME NEW i \in Items'
                 PROVE  /\ i.step <= step[i.conv] /\ i.conv \notin tick'["sweeper"].todo
                        /\ \A j \in Items' : j.conv = i.conv => j = i
                        /\ \A k \in DOMAIN rows' : rows'[k].conv = i.conv /\ rows'[k].by = "sweeper"
                                                      => rows'[k].step <= i.step
      BY DEF ItemsCurrent
    <2>1. i.step <= step[i.conv] /\ \A j \in Items' : j.conv = i.conv => j = i
      BY <1>10 DEF TableInv, ItemsCurrent
    <2>2. ASSUME NEW k \in DOMAIN rows', rows'[k].conv = i.conv, rows'[k].by = "sweeper"
          PROVE  rows'[k].step <= i.step
      <3>1. k \in DOMAIN rows /\ rows'[k] = rows[k]
        BY <1>4, <2>2
      <3>2. QED
        BY <1>10, <2>2, <3>1 DEF TableInv, ItemsCurrent
    <2>3. QED
      BY <1>10, <2>1, <2>2
  <1>12. ItemsLeft'
    <2> SUFFICES ASSUME NEW i \in Items', NEW n \in 0..MaxServers, n >= server
                 PROVE  Cardinality(Tries(i.conv, i.step, n)') < MaxTotal
      BY DEF ItemsLeft
    <2>1. PICK s \in Session, at \in 0..MaxStep : s = i.conv /\ at = i.step
      BY <1>10
    <2>2. Cardinality(Tries(s, at, n)) < MaxTotal
      BY <1>10, <2>1 DEF TableInv, ItemsLeft
    <2>3. Tries(s, at, n)' \subseteq Tries(s, at, n)
      BY <1>1, <2>1, AppendTries
    <2>4. IsFiniteSet(Tries(s, at, n)) /\ Cardinality(Tries(s, at, n)) \in Nat
      BY <1>1, TriesFinite
    <2>5. /\ Cardinality(Tries(s, at, n)') <= Cardinality(Tries(s, at, n))
          /\ Cardinality(Tries(s, at, n)') \in Nat
      BY <2>3, <2>4, FS_Subset, FS_CardinalityType
    <2>6. QED
      BY <2>1, <2>2, <2>4, <2>5, LimitAssumption
  <1>13. Budget'
    <2> SUFFICES ASSUME NEW s \in Session, NEW at \in 0..MaxStep, NEW n \in 0..MaxServers
                 PROVE  Cardinality(Tries(s, at, n)') <= MaxTotal
      BY DEF Budget
    <2>1. /\ Cardinality(Tries(s, at, n)) <= MaxTotal
          /\ (r.by = "sweeper" /\ r.conv = s /\ r.step = at /\ r.server = n
                => Cardinality(Tries(s, at, n)) < MaxTotal)
      BY DEF TableInv, Budget
    <2>2. IsFiniteSet(Tries(s, at, n)) /\ Cardinality(Tries(s, at, n)) \in Nat
      BY <1>1, TriesFinite
    <2>3. CASE r.by = "sweeper" /\ r.conv = s /\ r.step = at /\ r.server = n
      <3>1. Tries(s, at, n)' \subseteq Tries(s, at, n) \cup {Len(rows) + 1}
        BY <1>1, AppendTries
      <3>2. /\ IsFiniteSet(Tries(s, at, n) \cup {Len(rows) + 1})
            /\ Cardinality(Tries(s, at, n) \cup {Len(rows) + 1}) <= Cardinality(Tries(s, at, n)) + 1
        <4>1. /\ IsFiniteSet(Tries(s, at, n) \cup {Len(rows) + 1})
              /\ Cardinality(Tries(s, at, n) \cup {Len(rows) + 1})
                    = IF Len(rows) + 1 \in Tries(s, at, n) THEN Cardinality(Tries(s, at, n))
                      ELSE Cardinality(Tries(s, at, n)) + 1
          BY <2>2, FS_AddElement
        <4>2. QED
          BY <2>2, <4>1
      <3>3. /\ Cardinality(Tries(s, at, n)') <= Cardinality(Tries(s, at, n) \cup {Len(rows) + 1})
            /\ Cardinality(Tries(s, at, n)') \in Nat
            /\ Cardinality(Tries(s, at, n) \cup {Len(rows) + 1}) \in Nat
        BY <3>1, <3>2, FS_Subset, FS_CardinalityType
      <3>4. QED
        BY <2>1, <2>2, <2>3, <3>2, <3>3, LimitAssumption
    <2>4. CASE ~(r.by = "sweeper" /\ r.conv = s /\ r.step = at /\ r.server = n)
      <3>1. Tries(s, at, n)' \subseteq Tries(s, at, n)
        BY <1>1, <2>4, AppendTries
      <3>2. /\ Cardinality(Tries(s, at, n)') <= Cardinality(Tries(s, at, n))
            /\ Cardinality(Tries(s, at, n)') \in Nat
        BY <2>2, <3>1, FS_Subset, FS_CardinalityType
      <3>3. QED
        BY <2>1, <2>2, <3>2, LimitAssumption
    <2>5. QED
      BY <2>3, <2>4
  <1>14. QED
    BY <1>6, <1>7, <1>8, <1>9, <1>11, <1>12, <1>13 DEF TableInv

\* The set of InARow: the attempts after the last progress.
Unbroken(counted) ==
    {i \in counted : \A j \in counted :
        j >= i => rows[j].step - rows[Max(counted)].step \in -1..1}

\* The attempts at the session's own step are all in a row: nothing that was
\* recorded later lies at another step.
LEMMA TriesInARow ==
  ASSUME HoldInv, TableInv, NEW s \in Session, NEW n \in 0..MaxServers,
         NEW t \in Tries(s, step[s], n)
  PROVE  /\ t \in Unbroken(Counted(s))
         /\ step[s] = rows[Max(Counted(s))].step /\ Max(Counted(s)) \in Counted(s)
  <1>1. /\ rows \in Seq(RowType) /\ step[s] \in 0..MaxStep /\ Len(rows) \in Nat
        /\ DOMAIN rows = 1..Len(rows) /\ \A k \in DOMAIN rows : rows[k] \in RowType
    BY DEF HoldInv, SessionTypes, MemoryTypes
  <1>2. /\ t \in DOMAIN rows /\ rows[t].conv = s /\ rows[t].by = "sweeper"
        /\ rows[t].step = step[s] /\ rows[t].status # "quota_cooldown"
        /\ \A k \in DOMAIN rows :
              rows[k].conv = s /\ k > t /\ rows[k].by = "route" => rows[k].step = step[s]
    BY DEF Tries, RowsOf
  <1>3. Counted(s) \in SUBSET (1..Len(rows)) /\ t \in Counted(s)
    BY <1>1, <1>2 DEF Counted, RowsOf
  <1>4. ASSUME NEW j \in Counted(s), j >= t
        PROVE  rows[j].step = step[s]
    <2>1. j \in DOMAIN rows /\ rows[j].conv = s /\ rows[j] \in RowType
      BY <1>1 DEF Counted, RowsOf
    <2>2. CASE rows[j].by = "route"
      <3>1. j # t
        BY <1>2, <2>2
      <3>2. j > t
        BY <1>1, <1>2, <1>4, <2>1, <3>1
      <3>3. QED
        BY <1>2, <2>1, <2>2, <3>2
    <2>3. CASE rows[j].by # "route"
      <3>1. rows[j].step <= step[s]
        BY <2>1, <2>3 DEF TableInv, StepsSeen
      <3>2. t <= j
        BY <1>1, <1>2, <1>4, <2>1
      <3>3. step[s] <= rows[j].step
        BY <1>2, <2>1, <2>3, <3>2 DEF TableInv, StepsOrdered
      <3>4. rows[j].step \in Nat
        BY <2>1 DEF RowType
      <3>5. QED
        BY <1>1, <3>1, <3>3, <3>4
    <2>4. QED
      BY <2>2, <2>3
  <1>5. Max(Counted(s)) \in Counted(s) /\ \A y \in Counted(s) : y <= Max(Counted(s))
    BY <1>1, <1>3, MaxExists
  <1>6. Max(Counted(s)) >= t
    BY <1>1, <1>3, <1>5
  <1>7. rows[Max(Counted(s))].step = step[s]
    BY <1>4, <1>5, <1>6
  <1>8. \A j \in Counted(s) : j >= t => rows[j].step - rows[Max(Counted(s))].step \in -1..1
    BY <1>1, <1>4, <1>7
  <1>9. QED
    BY <1>3, <1>5, <1>7, <1>8 DEF Unbroken

\* What the circuit breaker counts is a number.
LEMMA EffectiveType ==
  ASSUME HoldInv, NEW s \in Session
  PROVE  /\ Effective(s) \in Nat
         /\ IsFiniteSet(Unbroken(Counted(s))) /\ Cardinality(Unbroken(Counted(s))) \in Nat
  <1>1. rows \in Seq(RowType)
    BY DEF HoldInv, MemoryTypes
  <1>2. Unbroken(Counted(s)) \in SUBSET (1..Len(rows)) /\ IsFiniteSet(1..Len(rows))
    BY <1>1, FS_Interval DEF Unbroken, Counted, RowsOf
  <1>3. IsFiniteSet(Unbroken(Counted(s))) /\ Cardinality(Unbroken(Counted(s))) \in Nat
    BY <1>2, FS_Subset, FS_CardinalityType
  <1>4. InARow(Counted(s)) = Cardinality(Unbroken(Counted(s)))
    BY DEF InARow, Unbroken
  <1>5. QED
    BY <1>3, <1>4 DEF Effective, Attempts

\* An eligible session has an attempt left, at its step and for every server that
\* may run when the attempt is made.
LEMMA EligibleLeft ==
  ASSUME HoldInv, TableInv, NEW s \in Session, Eligible(s), NEW n \in 0..MaxServers, n >= server
  PROVE  Cardinality(Tries(s, step[s], n)) < MaxTotal
  <1>1. /\ rows \in Seq(RowType) /\ step[s] \in 0..MaxStep /\ Len(rows) \in Nat
        /\ DOMAIN rows = 1..Len(rows) /\ \A k \in DOMAIN rows : rows[k] \in RowType
        /\ server \in 0..MaxServers /\ known \in 0..server
    BY DEF HoldInv, SessionTypes, MemoryTypes
  <1>2. Effective(s) < MaxTotal
    BY EffectiveType, LimitAssumption DEF Eligible, Broken
  <1>3. CASE Tries(s, step[s], n) = {}
    BY <1>2, <1>3, EffectiveType, LimitAssumption, FS_EmptySet
  <1>4. CASE Tries(s, step[s], n) # {}
    <2>1. PICK t \in Tries(s, step[s], n) : TRUE
      BY <1>4
    <2>2. t \in RowsOf(s) /\ t \in DOMAIN rows /\ rows[t].server = n
      BY DEF Tries, RowsOf
    <2>3. RowsOf(s) \in SUBSET (1..Len(rows))
      BY <1>1 DEF RowsOf
    <2>4. Max(RowsOf(s)) \in RowsOf(s) /\ t <= Max(RowsOf(s))
      BY <1>1, <2>2, <2>3, MaxExists
    <2>5. PICK m \in DOMAIN rows : m = Max(RowsOf(s)) /\ t <= m
      BY <1>1, <2>3, <2>4
    <2>6. rows[t].server <= server /\ rows[t].server <= rows[m].server
      BY <2>2, <2>5 DEF TableInv, ServersOrdered
    <2>7. rows[m].server \in Nat
      BY <1>1 DEF RowType
    <2>8. rows[m].server >= known
      BY <1>1, <2>2, <2>6, <2>7
    <2>9. Fresh(s)
      BY <2>2, <2>5, <2>8 DEF Fresh, LastRow
    <2>10. /\ Max(Counted(s)) \in Counted(s) /\ step[s] = rows[Max(Counted(s))].step
           /\ Tries(s, step[s], n) \subseteq Unbroken(Counted(s))
      BY <2>1, TriesInARow
    <2>11. Effective(s) = Cardinality(Unbroken(Counted(s)))
      <3>1. Counted(s) # {} /\ ~(step[s] > rows[Max(Counted(s))].step + 1)
        BY <1>1, <2>10
      <3>2. QED
        BY <2>9, <3>1 DEF Effective, Attempts, InARow, Unbroken
    <2>12. /\ Cardinality(Tries(s, step[s], n)) <= Cardinality(Unbroken(Counted(s)))
           /\ Cardinality(Tries(s, step[s], n)) \in Nat
      BY <2>10, EffectiveType, FS_Subset, FS_CardinalityType
    <2>13. QED
      BY <1>2, <2>11, <2>12, EffectiveType, LimitAssumption
  <1>5. QED
    BY <1>3, <1>4

\* A new verdict of the sweeper.
LEMMA FoundTable ==
  ASSUME HoldInv, HoldInv', TableInv, NEW s \in Session, Eligible(s),
         s \in tick["sweeper"].todo, UNCHANGED <<rows, step, server>>,
         Items' = Items \cup {[conv |-> s, kind |-> Kind(s), step |-> step[s]]},
         tick'["sweeper"].todo = tick["sweeper"].todo \ {s}
  PROVE  TableInv'
  <1> DEFINE new == [conv |-> s, kind |-> Kind(s), step |-> step[s]]
  <1>1. /\ rows \in Seq(RowType) /\ step[s] \in 0..MaxStep /\ server \in 0..MaxServers
        /\ Items \in SUBSET ItemType
    BY DEF HoldInv, SessionTypes, MemoryTypes, TickType, Items, Caller
  <1>2. new.conv = s /\ new.step = step[s] /\ Items' = Items \cup {new}
    OBVIOUS
  <1>3. \A i \in Items : i.conv # s
    BY DEF TableInv, ItemsCurrent
  <1>4. /\ OncePerRestart' /\ ServersOrdered' /\ StepsSeen' /\ StepsOrdered'
    BY DEF TableInv, OncePerRestart, ServersOrdered, StepsSeen, StepsOrdered
  <1>5. \A c \in Session, at \in 0..MaxStep, n \in 0..MaxServers :
            Tries(c, at, n)' = Tries(c, at, n)
    BY DEF Tries, RowsOf
  <1>6. Budget'
    BY <1>5 DEF TableInv, Budget
  <1>7. ItemsCurrent'
    <2> SUFFICES ASSUME NEW i \in Items'
                 PROVE  /\ i.step <= step[i.conv] /\ i.conv \notin tick'["sweeper"].todo
                        /\ \A j \in Items' : j.conv = i.conv => j = i
                        /\ \A k \in DOMAIN rows : rows[k].conv = i.conv /\ rows[k].by = "sweeper"
                                                      => rows[k].step <= i.step
      BY DEF ItemsCurrent
    <2>1. CASE i = new
      <3>1. i.step <= step[i.conv] /\ i.conv \notin tick'["sweeper"].todo
        BY <1>1, <1>2, <2>1
      <3>2. \A j \in Items' : j.conv = i.conv => j = i
        BY <1>2, <1>3, <2>1
      <3>3. ASSUME NEW k \in DOMAIN rows, rows[k].conv = s, rows[k].by = "sweeper"
            PROVE  rows[k].step <= step[s]
        <4>1. rows[k].by # "route"
          BY <3>3
        <4>2. QED
          BY <3>3, <4>1 DEF TableInv, StepsSeen
      <3>4. QED
        BY <1>2, <2>1, <3>1, <3>2, <3>3
    <2>2. CASE i \in Items
      BY <1>2, <1>3, <2>2 DEF TableInv, ItemsCurrent
    <2>3. QED
      BY <1>2, <2>1, <2>2
  <1>8. ItemsLeft'
    <2> SUFFICES ASSUME NEW i \in Items', NEW n \in 0..MaxServers, n >= server
                 PROVE  Cardinality(Tries(i.conv, i.step, n)') < MaxTotal
      BY DEF ItemsLeft
    <2>1. CASE i = new
      <3>1. Cardinality(Tries(s, step[s], n)) < MaxTotal
        BY EligibleLeft
      <3>2. PICK at \in 0..MaxStep : at = step[s]
        BY <1>1
      <3>3. Tries(s, at, n)' = Tries(s, at, n)
        BY <1>5
      <3>4. QED
        BY <1>2, <2>1, <3>1, <3>2, <3>3
    <2>2. CASE i \in Items
      <3>1. PICK c \in Session, at \in 0..MaxStep : c = i.conv /\ at = i.step
        BY <1>1, <2>2 DEF ItemType
      <3>2. Cardinality(Tries(c, at, n)) < MaxTotal
        BY <2>2, <3>1 DEF TableInv, ItemsLeft
      <3>3. Tries(c, at, n)' = Tries(c, at, n)
        BY <1>5
      <3>4. QED
        BY <3>1, <3>2, <3>3
    <2>3. QED
      BY <1>2, <2>1, <2>2
  <1>9. QED
    BY <1>4, <1>6, <1>7, <1>8 DEF TableInv

----------------------------------------------------------------------------
(* The steps, one by one *)

\* A step that keeps the rows, the ones of the sends that are still out included.
LEMMA SettledRows ==
  ASSUME RowsInv, HoldInv', Kept, Advances, FewerItems,
         \A d \in Sending' : /\ d \in Sending /\ tick'[d].row = tick[d].row
                             /\ rows'[tick[d].row].status = rows[tick[d].row].status
  PROVE  RowsInv'
  <1>1. SendsOpen'
    BY DEF RowsInv, SendsOpen, RowOf
  <1>2. TableInv'
    BY KeptTable DEF RowsInv
  <1>3. QED
    BY <1>1, <1>2 DEF RowsInv

\* The same when the table does not change at all.
LEMMA StillRows ==
  ASSUME RowsInv, HoldInv', rows' = rows, Advances, FewerItems,
         \A d \in Sending' : d \in Sending /\ tick'[d].row = tick[d].row
  PROVE  RowsInv'
  <1>1. Kept
    BY DEF Kept
  <1>2. QED
    BY <1>1, SettledRows

LEMMA AdvancesStill ==
  ASSUME HoldInv, UNCHANGED <<step, server>>
  PROVE  Advances
  BY DEF HoldInv, SessionTypes, Advances

LEMMA BeginRows ==
  ASSUME RowsInv, HoldInv', NEW c \in Caller, BeginTick(c)
  PROVE  RowsInv'
  <1>1. /\ rows \in Seq(RowType) /\ tick \in [Caller -> TickType] /\ "sweeper" \in Caller
        /\ Len(rows) \in Nat /\ DOMAIN rows = 1..Len(rows)
        /\ \A d \in Sending : tick[d].row \in 1..Len(rows) /\ rows[tick[d].row].status = "attempting"
    BY DEF RowsInv, HoldInv, MemoryTypes, Held, SendsOpen, RowOf, Caller
  <1>2. Advances
    BY AdvancesStill DEF BeginTick, sessions, RowsInv
  <1>3. PICK name \in SUBSET Session :
            tick' = [tick EXCEPT ![c] =
                       [Idle EXCEPT !.phase = "tick", !.todo = Session, !.name = name]]
    BY DEF BeginTick
  <1>4. /\ tick'[c].phase = "tick" /\ tick'[c].items = {}
        /\ \A d \in Caller \ {c} : tick'[d] = tick[d]
    BY <1>1, <1>3 DEF Idle
  <1>5. FewerItems
    BY <1>1, <1>4 DEF FewerItems, Items
  <1>6. \A d \in Sending' : d \in Sending /\ tick'[d].row = tick[d].row
    BY <1>4 DEF Sending
  <1>7. CASE rows' = rows
    BY <1>2, <1>5, <1>6, <1>7, StillRows
  <1>8. CASE rows' = [i \in DOMAIN rows |->
                 IF rows[i].status = "quota_cooldown"
                 THEN [rows[i] EXCEPT !.status = "resolved"] ELSE rows[i]]
    <2>1. DOMAIN rows' = 1..Len(rows) /\ Len(rows') = Len(rows)
      <3>1. rows' \in Seq(RowType) /\ DOMAIN rows' = DOMAIN rows
        BY <1>8 DEF HoldInv, MemoryTypes
      <3>2. QED
        BY <1>1, <3>1
    <2>2. ASSUME NEW i \in 1..Len(rows)
          PROVE  /\ rows'[i].conv = rows[i].conv /\ rows'[i].target = rows[i].target
                 /\ rows'[i].kind = rows[i].kind /\ rows'[i].by = rows[i].by
                 /\ rows'[i].step = rows[i].step /\ rows'[i].server = rows[i].server
                 /\ \/ rows'[i].status = rows[i].status
                    \/ rows[i].status = "quota_cooldown" /\ rows'[i].status = "resolved"
      <3>1. rows[i] \in RowType /\ i \in DOMAIN rows
        BY <1>1
      <3>2. QED
        BY <1>8, <3>1 DEF RowType
    <2>3. Kept
      BY <2>1, <2>2 DEF Kept, Sent, Tried
    <2>4. \A d \in Sending' : rows'[tick[d].row].status = rows[tick[d].row].status
      BY <1>1, <1>6, <2>2
    <2>5. QED
      BY <1>2, <1>5, <1>6, <2>3, <2>4, SettledRows
  <1>9. QED
    BY <1>7, <1>8 DEF BeginTick

LEMMA LookRows ==
  ASSUME RowsInv, HoldInv', NEW c \in Caller, NEW s \in Session, Look(c, s)
  PROVE  RowsInv'
  <1>1. /\ rows \in Seq(RowType) /\ tick \in [Caller -> TickType] /\ "sweeper" \in Caller
        /\ Len(rows) \in Nat /\ DOMAIN rows = 1..Len(rows)
        /\ step[s] \in 0..MaxStep /\ server \in 0..MaxServers
        /\ \A d \in Sending : tick[d].row \in 1..Len(rows)
    BY DEF RowsInv, HoldInv, SessionTypes, MemoryTypes, Held, Caller
  <1>2. /\ tick[c].phase = "tick" /\ s \in tick[c].todo
        /\ UNCHANGED <<sessions, server, known, inflight, recent, requests, crashes>>
        /\ UNCHANGED <<server, step>>
    BY DEF Look, sessions
  <1>3. Advances
    BY <1>2, AdvancesStill DEF RowsInv
  <1>4. ASSUME NEW found, Looked(c, s, found)
        PROVE  /\ tick'[c].phase = "tick" /\ tick'[c].row = tick[c].row
               /\ tick'[c].items = tick[c].items \cup found
               /\ tick'[c].todo = tick[c].todo \ {s}
               /\ \A d \in Caller \ {c} : tick'[d] = tick[d]
               /\ \A d \in Sending' : d \in Sending /\ tick'[d].row = tick[d].row
               /\ (found = {} \/ c # "sweeper") => FewerItems
    <2>1. /\ tick'[c].phase = "tick" /\ tick'[c].row = tick[c].row
          /\ tick'[c].items = tick[c].items \cup found
          /\ tick'[c].todo = tick[c].todo \ {s}
          /\ \A d \in Caller \ {c} : tick'[d] = tick[d]
      BY <1>1, <1>2, <1>4 DEF Looked, TickType
    <2>2. \A d \in Sending' : d \in Sending /\ tick'[d].row = tick[d].row
      BY <2>1 DEF Sending
    <2>3. (found = {} \/ c # "sweeper") => FewerItems
      BY <1>1, <2>1 DEF FewerItems, Items
    <2>4. QED
      BY <2>1, <2>2, <2>3
  <1>5. CASE Looked(c, s, {}) /\ rows' = rows
    BY <1>3, <1>4, <1>5, StillRows
  <1>6. CASE /\ Looked(c, s, {})
             /\ rows' = Append(rows, Row(s, s, "other", "scan", "quota_cooldown", step[s]))
    <2>1. PICK r \in RowType : /\ r = Row(s, s, "other", "scan", "quota_cooldown", step[s])
                               /\ r.conv = s /\ r.kind = "other" /\ r.by = "scan"
                               /\ r.step = step[s] /\ r.server = server
      <3>1. Row(s, s, "other", "scan", "quota_cooldown", step[s]) \in RowType
        BY <1>1 DEF Row, RowType
      <3>2. /\ Row(s, s, "other", "scan", "quota_cooldown", step[s]).conv = s
            /\ Row(s, s, "other", "scan", "quota_cooldown", step[s]).kind = "other"
            /\ Row(s, s, "other", "scan", "quota_cooldown", step[s]).by = "scan"
            /\ Row(s, s, "other", "scan", "quota_cooldown", step[s]).step = step[s]
            /\ Row(s, s, "other", "scan", "quota_cooldown", step[s]).server = server
        BY DEF Row
      <3>3. QED
        BY <3>1, <3>2
    <2>2. rows' = Append(rows, r)
      BY <1>6, <2>1
    <2>3. \A k \in 1..Len(rows) : rows'[k] = rows[k]
      BY <1>1, <2>2
    <2>4. SendsOpen'
      BY <1>1, <1>4, <1>6, <2>3 DEF RowsInv, SendsOpen, RowOf
    <2>5. r.step <= step[r.conv]
      BY <1>1, <2>1
    <2>6. ASSUME NEW j \in DOMAIN rows, rows[j].conv = r.conv, rows[j].by = "sweeper"
          PROVE  rows[j].step <= r.step
      <3>1. rows[j].by # "route"
        BY <2>6
      <3>2. QED
        BY <2>1, <2>6, <3>1 DEF RowsInv, TableInv, StepsSeen
    <2>7. TableInv'
      <3>1. r.kind # "restart" /\ r.by # "sweeper" /\ r.server = server /\ FewerItems
        BY <1>4, <1>6, <2>1
      <3>2. QED
        BY <1>2, <2>2, <2>5, <2>6, <3>1, AppendTable DEF RowsInv
    <2>8. QED
      BY <2>4, <2>7 DEF RowsInv
  <1>7. CASE /\ Looked(c, s, {[conv |-> s, kind |-> Kind(s), step |-> step[s]]})
             /\ Eligible(s) /\ rows' = rows
    <2>1. CASE c = "sweeper"
      <3>1. /\ Items' = Items \cup {[conv |-> s, kind |-> Kind(s), step |-> step[s]]}
            /\ tick'["sweeper"].todo = tick["sweeper"].todo \ {s}
            /\ \A d \in Sending' : d \in Sending /\ tick'[d].row = tick[d].row
        BY <1>4, <1>7, <2>1 DEF Items
      <3>2. SendsOpen'
        BY <1>7, <3>1 DEF RowsInv, SendsOpen, RowOf
      <3>3. TableInv'
        BY <1>2, <1>7, <2>1, <3>1, FoundTable DEF RowsInv
      <3>4. QED
        BY <3>2, <3>3 DEF RowsInv
    <2>2. CASE c # "sweeper"
      BY <1>3, <1>4, <1>7, <2>2, StillRows
    <2>3. QED
      BY <2>1, <2>2
  <1>8. QED
    BY <1>5, <1>6, <1>7 DEF Look

\* An attempt of the sweeper is one of its verdicts.
LEMMA AttemptRows ==
  ASSUME RowsInv, HoldInv', NEW c \in Caller, NEW s \in Session, NEW target \in Session,
         NEW kind \in {"restart", "other"}, NEW at \in 0..MaxStep,
         Attempt(c, s, target, kind, at),
         c = "sweeper" => [conv |-> s, kind |-> kind, step |-> at] \in Items
  PROVE  RowsInv'
  <1> DEFINE item == [conv |-> s, kind |-> kind, step |-> at]
  <1>1. /\ rows \in Seq(RowType) /\ tick \in [Caller -> TickType] /\ "sweeper" \in Caller
        /\ Len(rows) \in Nat /\ DOMAIN rows = 1..Len(rows)
        /\ server \in 0..MaxServers /\ known \in 0..server
        /\ \A d \in Sending : tick[d].row \in 1..Len(rows)
    <2>1. rows \in Seq(RowType) /\ tick \in [Caller -> TickType]
      BY DEF RowsInv, HoldInv, MemoryTypes
    <2>2. server \in 0..MaxServers /\ known \in 0..server
      BY DEF RowsInv, HoldInv, SessionTypes
    <2>3. \A d \in Sending : tick[d].row \in 1..Len(rows)
      BY DEF RowsInv, HoldInv, Held
    <2>4. Len(rows) \in Nat /\ DOMAIN rows = 1..Len(rows)
      BY <2>1
    <2>5. "sweeper" \in Caller
      BY DEF Caller
    <2>6. QED
      BY <2>1, <2>2, <2>3, <2>4, <2>5
  <1>2. /\ tick[c].phase = "tick" /\ UNCHANGED <<server, step>>
        /\ rows' = Append(rows, Row(s, target, kind, c, "attempting", at))
        /\ ~(kind = "restart" /\ SinceRestart(target))
        /\ tick' = [tick EXCEPT ![c].phase = "send", ![c].row = Len(rows) + 1,
                                ![c].items = @ \ {item}]
    BY DEF Attempt, Scanned, Gates, sessions
  <1>3. /\ tick'[c].phase = "send" /\ tick'[c].row = Len(rows) + 1
        /\ tick'[c].items = tick[c].items \ {item} /\ tick'[c].todo = tick[c].todo
        /\ \A d \in Caller \ {c} : tick'[d] = tick[d]
    BY <1>1, <1>2 DEF TickType
  <1>4. PICK r \in RowType : /\ r = Row(s, target, kind, c, "attempting", at)
                             /\ r.conv = s /\ r.target = target /\ r.kind = kind /\ r.by = c
                             /\ r.step = at /\ r.server = server /\ r.status = "attempting"
    <2>1. Row(s, target, kind, c, "attempting", at) \in RowType
      BY <1>1 DEF Row, RowType
    <2>2. /\ Row(s, target, kind, c, "attempting", at).conv = s /\ Row(s, target, kind, c, "attempting", at).target = target
          /\ Row(s, target, kind, c, "attempting", at).kind = kind /\ Row(s, target, kind, c, "attempting", at).by = c
          /\ Row(s, target, kind, c, "attempting", at).step = at /\ Row(s, target, kind, c, "attempting", at).server = server
          /\ Row(s, target, kind, c, "attempting", at).status = "attempting"
      BY DEF Row
    <2>3. QED
      BY <2>1, <2>2
  <1>5. /\ rows' = Append(rows, r) /\ rows'[Len(rows) + 1] = r
        /\ \A k \in 1..Len(rows) : rows'[k] = rows[k]
    BY <1>1, <1>2, <1>4
  <1>6. SendsOpen'
    <2> SUFFICES ASSUME NEW d \in Sending' PROVE rows'[tick'[d].row].status = "attempting"
      BY DEF SendsOpen, RowOf
    <2>1. CASE d = c
      BY <1>3, <1>4, <1>5, <2>1
    <2>2. CASE d # c
      <3>1. d \in Sending /\ tick'[d] = tick[d]
        BY <1>3, <2>2 DEF Sending
      <3>2. QED
        BY <1>1, <1>5, <3>1 DEF RowsInv, SendsOpen, RowOf
    <2>3. QED
      BY <2>1, <2>2
  <1>7. FewerItems
    BY <1>1, <1>3 DEF FewerItems, Items
  <1>8. ASSUME NEW j \in DOMAIN rows, r.kind = "restart", rows[j].server = r.server,
               r.target \in {rows[j].conv, rows[j].target}
        PROVE  ~Sent(rows[j])
    <2>1. rows[j].server >= known
      BY <1>1, <1>4, <1>8
    <2>2. QED
      BY <1>2, <1>4, <1>8, <2>1 DEF SinceRestart
  <1>9. ASSUME c = "sweeper"
        PROVE  /\ at <= step[s]
               /\ \A j \in DOMAIN rows :
                     rows[j].conv = s /\ rows[j].by = "sweeper" => rows[j].step <= at
               /\ Cardinality(Tries(s, at, server)) < MaxTotal
               /\ \A i \in Items' : i.conv # s
    <2>1. item \in Items /\ item.conv = s /\ item.step = at
      BY <1>9
    <2>2. /\ at <= step[s]
          /\ \A j \in DOMAIN rows :
                rows[j].conv = s /\ rows[j].by = "sweeper" => rows[j].step <= at
          /\ \A j \in Items : j.conv = s => j = item
      BY <2>1 DEF RowsInv, TableInv, ItemsCurrent
    <2>3. Cardinality(Tries(s, at, server)) < MaxTotal
      <3>1. server >= server
        BY <1>1
      <3>2. QED
        BY <1>1, <2>1, <3>1 DEF RowsInv, TableInv, ItemsLeft
    <2>4. \A i \in Items' : i \in Items /\ i # item
      BY <1>3, <1>9 DEF Items
    <2>5. QED
      BY <2>2, <2>3, <2>4
  <1>10. r.by # "route" => c = "sweeper"
    BY <1>4 DEF Caller
  <1>11. TableInv'
    BY <1>2, <1>4, <1>5, <1>7, <1>8, <1>9, <1>10, AppendTable DEF RowsInv
  <1>12. QED
    BY <1>6, <1>11 DEF RowsInv

\* The row of a send that returns said 'attempting'; the other one's is another.
LEMMA ReturnedRows ==
  ASSUME RowsInv, HoldInv', NEW c \in Caller,
         NEW status \in {"resuscitated", "failed", "quota_cooldown"},
         NEW awake \in SUBSET Session, Returned(c, status, awake), Advances
  PROVE  RowsInv'
  <1>1. /\ rows \in Seq(RowType) /\ tick \in [Caller -> TickType] /\ "sweeper" \in Caller
        /\ Len(rows) \in Nat /\ \A i \in 1..Len(rows) : rows[i] \in RowType
        /\ \A d \in Sending : tick[d].row \in 1..Len(rows) /\ rows[tick[d].row].status = "attempting"
    BY DEF RowsInv, HoldInv, MemoryTypes, Held, SendsOpen, RowOf, Caller
  <1>2. /\ tick[c].phase = "send" /\ c \in Sending
        /\ rows' = [rows EXCEPT ![tick[c].row].status = status]
        /\ tick' = [tick EXCEPT ![c] = Resumed(c, awake)]
    BY DEF Returned, Sending
  <1>3. PICK k \in 1..Len(rows) : k = tick[c].row /\ rows[k].status = "attempting"
    BY <1>1, <1>2
  <1>4. /\ Len(rows') = Len(rows)
        /\ \A i \in 1..Len(rows) : i # k => rows'[i] = rows[i]
        /\ rows'[k] = [rows[k] EXCEPT !.status = status]
    BY <1>1, <1>2, <1>3
  <1>5. /\ rows'[k].conv = rows[k].conv /\ rows'[k].target = rows[k].target
        /\ rows'[k].kind = rows[k].kind /\ rows'[k].by = rows[k].by
        /\ rows'[k].step = rows[k].step /\ rows'[k].server = rows[k].server
    BY <1>1, <1>4 DEF RowType
  <1>6. Sent(rows[k]) /\ Tried(rows[k])
    BY <1>3 DEF Sent, Tried
  <1>7. Kept
    <2>1. ASSUME NEW i \in 1..Len(rows)
          PROVE  /\ rows'[i].conv = rows[i].conv /\ rows'[i].target = rows[i].target
                 /\ rows'[i].kind = rows[i].kind /\ rows'[i].by = rows[i].by
                 /\ rows'[i].step = rows[i].step /\ rows'[i].server = rows[i].server
                 /\ (Sent(rows'[i]) => Sent(rows[i])) /\ (Tried(rows'[i]) => Tried(rows[i]))
      <3>1. CASE i = k
        BY <1>5, <1>6, <3>1
      <3>2. CASE i # k
        <4>1. rows'[i] = rows[i]
          BY <1>4, <3>2
        <4>2. QED
          BY <4>1
      <3>3. QED
        BY <3>1, <3>2
    <2>2. QED
      BY <1>4, <2>1 DEF Kept
  <1>8. /\ tick'[c] = Resumed(c, awake)
        /\ \A d \in Caller \ {c} : tick'[d] = tick[d]
    BY <1>1, <1>2
  <1>9. /\ Resumed(c, awake).phase # "send"
        /\ \/ Resumed(c, awake).items = {}
           \/ /\ Resumed(c, awake).items = tick[c].items
              /\ Resumed(c, awake).todo = tick[c].todo
    <2>1. CASE tick[c].name # {}
      BY <2>1 DEF Resumed, Idle
    <2>2. CASE tick[c].name = {}
      <3>1. Resumed(c, awake) =
                [tick[c] EXCEPT !.phase = "tick", !.row = 0, !.awake = @ \cup awake]
        BY <2>2 DEF Resumed
      <3>2. tick[c] \in TickType
        BY <1>1
      <3>3. QED
        BY <3>1, <3>2 DEF TickType
    <2>3. QED
      BY <2>1, <2>2
  <1>10. FewerItems
    BY <1>1, <1>8, <1>9 DEF FewerItems, Items
  <1>11. ASSUME NEW d \in Sending'
         PROVE  /\ d \in Sending /\ tick'[d].row = tick[d].row
                /\ rows'[tick[d].row].status = rows[tick[d].row].status
    <2>1. d \in Caller \ {c} /\ d \in Sending /\ tick'[d] = tick[d]
      BY <1>8, <1>9 DEF Sending
    <2>2. tick[d].row # k
      <3>1. Pair(c) \cap Pair(d) = {}
        BY <1>2, <2>1 DEF RowsInv, HoldInv, Held, OneAtATime, Pair
      <3>2. QED
        BY <1>3, <3>1 DEF Pair, RowOf
    <2>3. QED
      BY <1>1, <1>4, <2>1, <2>2
  <1>12. QED
    BY <1>7, <1>10, <1>11, SettledRows

LEMMA SendRows ==
  ASSUME RowsInv, HoldInv', NEW c \in Caller, SendReturns(c)
  PROVE  RowsInv'
  <1>1. PICK status \in {"resuscitated", "failed", "quota_cooldown"}, awake \in {{}, Pair(c)} :
            Returned(c, status, awake)
    BY DEF SendReturns, SendOk, SendFailed, SendQuota, Pair
  <1>2. c \in Sending
    BY <1>1 DEF Returned, Sending
  <1>3. RowOf(c) \in RowType
    BY <1>2 DEF RowsInv, HoldInv, MemoryTypes, Held, RowOf
  <1>4. awake \in SUBSET Session
    BY <1>1, <1>3 DEF Pair, RowType
  <1>5. UNCHANGED server /\ (Arrives(RowOf(c).target) \/ UNCHANGED sessions)
    BY <1>1 DEF SendReturns, SendOk, SendFailed, SendQuota, Returned
  <1>6. step \in [Session -> 0..MaxStep] /\ server \in 0..MaxServers
    BY DEF RowsInv, HoldInv, SessionTypes
  <1>7. \A s \in Session : step[s] <= step'[s]
    BY <1>5, <1>6 DEF Arrives, sessions
  <1>8. Advances
    BY <1>5, <1>6, <1>7 DEF Advances
  <1>9. QED
    BY <1>1, <1>4, <1>8, ReturnedRows

LEMMA TickRows ==
  ASSUME RowsInv, HoldInv', NEW c \in Caller, TickStep(c)
  PROVE  RowsInv'
  <1>1. /\ tick \in [Caller -> TickType] /\ "sweeper" \in Caller
        /\ step \in [Session -> 0..MaxStep] /\ server \in 0..MaxServers
    BY DEF RowsInv, HoldInv, SessionTypes, MemoryTypes, Caller
  <1>2. CASE BeginTick(c)
    BY <1>2, BeginRows
  <1>3. CASE \E s \in Session : Look(c, s)
    BY <1>3, LookRows
  <1>4. CASE PullUp(c)
    <2>1. PICK i \in tick[c].items : Attempt(c, i.conv, Target(i.conv), i.kind, i.step)
      BY <1>4 DEF PullUp
    <2>2. /\ i \in ItemType /\ i.conv \in Session
          /\ i.kind \in {"restart", "other"} /\ i.step \in 0..MaxStep
      BY <1>1 DEF TickType, ItemType
    <2>3. i = [conv |-> i.conv, kind |-> i.kind, step |-> i.step]
      BY <2>2 DEF ItemType
    <2>4. Target(i.conv) \in Session
      BY <2>2, TargetType
    <2>5. PICK s \in Session, target \in Session, kind \in {"restart", "other"}, at \in 0..MaxStep :
              s = i.conv /\ target = Target(i.conv) /\ kind = i.kind /\ at = i.step
      BY <2>2, <2>4
    <2>6. Attempt(c, s, target, kind, at)
      BY <2>1, <2>5
    <2>7. c = "sweeper" => [conv |-> s, kind |-> kind, step |-> at] \in Items
      BY <2>3, <2>5 DEF Items
    <2>8. QED
      BY <2>6, <2>7, AttemptRows
  <1>5. CASE Skip(c) \/ EndTick(c)
    <2>1. /\ rows' = rows /\ UNCHANGED <<step, server>>
      BY <1>5 DEF Skip, EndTick, sessions
    <2>2. Advances
      BY <2>1, AdvancesStill DEF RowsInv
    <2>3. /\ tick'[c].phase # "send" /\ \A d \in Caller \ {c} : tick'[d] = tick[d]
          /\ \/ tick'[c].items = {}
             \/ tick'[c].items \subseteq tick[c].items /\ tick'[c].todo = tick[c].todo
      <3>1. CASE Skip(c)
        <4>1. PICK i \in tick[c].items : tick' = [tick EXCEPT ![c].items = @ \ {i}]
          BY <3>1 DEF Skip
        <4>2. tick[c].phase = "tick"
          BY <3>1 DEF Skip, Scanned
        <4>3. QED
          BY <1>1, <4>1, <4>2 DEF TickType
      <3>2. CASE EndTick(c)
        BY <1>1, <3>2 DEF EndTick, Idle
      <3>3. QED
        BY <1>5, <3>1, <3>2
    <2>4. FewerItems
      BY <1>1, <2>3 DEF FewerItems, Items
    <2>5. \A d \in Sending' : d \in Sending /\ tick'[d].row = tick[d].row
      BY <2>3 DEF Sending
    <2>6. QED
      BY <2>1, <2>2, <2>4, <2>5, StillRows
  <1>6. QED
    BY <1>2, <1>3, <1>4, <1>5 DEF TickStep

LEMMA NamedRows ==
  ASSUME RowsInv, HoldInv', PullUpNamed
  PROVE  RowsInv'
  <1>1. PICK s \in tick["route"].name :
            Attempt("route", s, Addressed(s).target, Addressed(s).kind, Addressed(s).at)
    BY DEF PullUpNamed
  <1>2. s \in Session /\ "route" \in Caller
    BY DEF RowsInv, HoldInv, MemoryTypes, TickType, Caller
  <1>3. /\ Addressed(s).target \in Session /\ Addressed(s).kind \in {"restart", "other"}
        /\ Addressed(s).at \in 0..MaxStep
    BY <1>2, TargetType, BoundAssumption DEF Addressed, Kind, RowsInv, HoldInv, SessionTypes
  <1>4. PICK target \in Session, kind \in {"restart", "other"}, at \in 0..MaxStep :
            target = Addressed(s).target /\ kind = Addressed(s).kind /\ at = Addressed(s).at
    BY <1>3
  <1>5. Attempt("route", s, target, kind, at) /\ "route" # "sweeper"
    BY <1>1, <1>4
  <1>6. QED
    BY <1>2, <1>5, AttemptRows

LEMMA WorldRows ==
  ASSUME RowsInv, HoldInv',
         \/ \E s \in Session : GrowOld(s) \/ Expire(s) \/ Work(s) \/ Stop(s)
         \/ Crash \/ NewServer \/ UNCHANGED vars
  PROVE  RowsInv'
  <1>1. /\ step \in [Session -> 0..MaxStep] /\ server \in 0..MaxServers /\ "sweeper" \in Caller
        /\ tick \in [Caller -> TickType]
    BY DEF RowsInv, HoldInv, SessionTypes, MemoryTypes, Caller
  <1>2. rows' = rows
    BY DEF GrowOld, Expire, Work, Stop, Crash, NewServer, vars
  <1>3. Advances
    <2>1. CASE \E s \in Session : Work(s)
      BY <1>1, <2>1 DEF Work, Advances
    <2>2. CASE \E s \in Session : GrowOld(s) \/ Expire(s) \/ Stop(s)
      BY <1>1, <2>2 DEF GrowOld, Expire, Stop, sessions, Advances
    <2>3. CASE Crash \/ NewServer \/ UNCHANGED vars
      BY <1>1, <2>3 DEF Crash, NewServer, vars, sessions, Advances
    <2>4. QED
      BY <2>1, <2>2, <2>3
  <1>4. tick' = tick \/ tick' = [c \in Caller |-> Idle]
    BY DEF GrowOld, Expire, Work, Stop, Crash, NewServer, vars
  <1>5. FewerItems
    BY <1>1, <1>4 DEF FewerItems, Items, Idle
  <1>6. \A d \in Sending' : d \in Sending /\ tick'[d].row = tick[d].row
    BY <1>4 DEF Sending, Idle
  <1>7. QED
    BY <1>2, <1>3, <1>5, <1>6, StillRows

LEMMA InitRows == Init => RowsInv
  <1> SUFFICES ASSUME Init PROVE RowsInv
    OBVIOUS
  <1>1. /\ HoldInv /\ rows = <<>> /\ DOMAIN rows = {}
        /\ Sending = {} /\ Items = {}
    BY InitHold DEF Init, Idle, Sending, Items, Caller
  <1>2. \A s \in Session, at \in 0..MaxStep, n \in 0..MaxServers : Tries(s, at, n) = {}
    BY <1>1 DEF Tries, RowsOf
  <1>3. Budget
    BY <1>2, FS_EmptySet, LimitAssumption DEF Budget
  <1>4. QED
    BY <1>1, <1>3 DEF RowsInv, SendsOpen, TableInv, OncePerRestart, ServersOrdered, StepsSeen,
                      StepsOrdered, ItemsCurrent, ItemsLeft

LEMMA NextRows == RowsInv /\ [Next]_vars => RowsInv'
  <1> SUFFICES ASSUME RowsInv, [Next]_vars PROVE RowsInv'
    OBVIOUS
  <1>1. HoldInv'
    BY NextHold DEF RowsInv
  <1>2. QED
    BY <1>1, TickRows, SendRows, NamedRows, WorldRows DEF Next

\* A pull-up because of a restart follows no other prompt to the session since that
\* restart, delegated ones included, that was sent and not recorded as failed
\* (has_resuscitation_since):
\* OncePerRestart of run watchdog_family, for every family of sessions.
THEOREM OncePerRestartCorrect == Spec => []OncePerRestart
  <1>1. RowsInv => OncePerRestart
    BY DEF RowsInv, TableInv
  <1>2. QED
    BY InitRows, NextRows, <1>1, PTL DEF Spec

\* The sweeper attempts a session at most max_total_attempts times at one step and
\* for one server, although its verdicts are minutes old when they are used:
\* Budget of run watchdog, for every limit and any number of rows.
THEOREM BudgetCorrect == Spec => []Budget
  <1>1. RowsInv => Budget
    BY DEF RowsInv, TableInv
  <1>2. QED
    BY InitRows, NextRows, <1>1, PTL DEF Spec
=============================================================================

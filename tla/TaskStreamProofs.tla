-------------------------- MODULE TaskStreamProofs --------------------------
(***************************************************************************)
(* What is proved of TaskStream for every number of clients, lines, casts, *)
(* reruns, connections and faults, every size of the queues and every      *)
(* limit of the backlog.                                                   *)
(*                                                                         *)
(* Base has the types and that the lines of a command are published in the *)
(* turn that records them. Beside it three invariants of a connection: a   *)
(* client alive when the end was announced has it queued (EndQueued), each *)
(* line from its start on is somewhere (Accounted), and shown, backlog and *)
(* queue follow each other in order (Ordered).                             *)
(***************************************************************************)
EXTENDS TaskStream, TLAPS

-----------------------------------------------------------------------------
(* A stream on its own *)

\* A message of a queue: a line of the log, or an announcement without an id.
Sent(m, n) == IF m.kind = "line" THEN m.id \in 1..n ELSE m.id = 0

\* The connection of a client when the log has n lines.
Stream0(n) ==
    [pc : {"off", "ended"} \cup Streaming, since : 0..n,
     todo : Seq(1..n), queue : Seq(Message), shown : Seq(1..n),
     last : 0..n, lost : SUBSET (1..n), until : 0..n]

\* A stream lives on its queue only when its backlog is sent.
StreamOK(s, n) ==
    /\ s \in Stream0(n)
    /\ Len(s.queue) <= QueueSize
    /\ \A i \in 1..Len(s.queue) : Sent(s.queue[i], n)
    /\ s.pc = "live" => s.todo = <<>>

LEMMA LaterLog ==
  ASSUME NEW n \in Nat, NEW s, StreamOK(s, n)
  PROVE  StreamOK(s, n + 1)
  <1>1. /\ 0..n \subseteq 0..(n + 1) /\ 1..n \subseteq 1..(n + 1)
        /\ Seq(1..n) \subseteq Seq(1..(n + 1)) /\ SUBSET (1..n) \subseteq SUBSET (1..(n + 1))
    OBVIOUS
  <1>2. s \in Stream0(n + 1)
    BY <1>1 DEF Stream0, StreamOK
  <1>3. \A i \in 1..Len(s.queue) : Sent(s.queue[i], n + 1)
    BY <1>1 DEF StreamOK, Sent
  <1>4. QED
    BY <1>2, <1>3 DEF StreamOK

\* Append and Tail, element by element.
LEMMA AppendElements ==
  ASSUME NEW T, NEW q \in Seq(T), NEW m \in T
  PROVE  /\ Append(q, m) \in Seq(T) /\ Len(Append(q, m)) = Len(q) + 1
         /\ Append(q, m)[Len(q) + 1] = m
         /\ \A i \in 1..Len(q) : Append(q, m)[i] = q[i]
  OBVIOUS

LEMMA TailElements ==
  ASSUME NEW T, NEW q \in Seq(T), q # <<>>
  PROVE  /\ Tail(q) \in Seq(T) /\ Len(Tail(q)) = Len(q) - 1 /\ Len(q) \in Nat \ {0}
         /\ Head(q) = q[1] /\ 1 \in 1..Len(q) /\ Head(q) \in T
         /\ \A i \in 1..Len(Tail(q)) : i + 1 \in 1..Len(q) /\ Tail(q)[i] = q[i + 1]
  OBVIOUS

LEMMA SetElements ==
  ASSUME NEW T, NEW q \in Seq(T), NEW x
  PROVE  x \in ToSet(q) <=> \E i \in 1..Len(q) : q[i] = x
  BY DEF ToSet

LEMMA AppendSet ==
  ASSUME NEW T, NEW q \in Seq(T), NEW m \in T
  PROVE  ToSet(q) \cup {m} \subseteq ToSet(Append(q, m))
  <1>1. PICK a \in Seq(T) : /\ a = Append(q, m) /\ Len(a) = Len(q) + 1
                            /\ a[Len(q) + 1] = m /\ Len(q) \in Nat
                            /\ \A i \in 1..Len(q) : a[i] = q[i]
    <2>1. /\ Append(q, m) \in Seq(T) /\ Len(Append(q, m)) = Len(q) + 1 /\ Len(q) \in Nat
          /\ Append(q, m)[Len(q) + 1] = m
          /\ \A i \in 1..Len(q) : Append(q, m)[i] = q[i]
      BY AppendElements
    <2>2. QED
      BY <2>1
  <1>2. ASSUME NEW x \in ToSet(q) PROVE x \in ToSet(a)
    <2>1. PICK i \in 1..Len(q) : q[i] = x
      BY SetElements
    <2>2. i \in 1..Len(a) /\ a[i] = x
      BY <1>1, <2>1
    <2>3. QED
      BY <2>2, SetElements
  <1>3. Len(q) + 1 \in 1..Len(a)
    BY <1>1
  <1>4. m \in ToSet(a)
    BY <1>1, <1>3, SetElements
  <1>5. QED
    BY <1>1, <1>2, <1>4

\* The messages that are published.
LEMMA Messages ==
  /\ \A m \in {Running, Completed, Unrecorded} :
        m \in Message /\ m.kind # "line" /\ m.id = 0
  /\ \A n \in 1..MaxLines : Line(n) \in Message /\ Line(n).kind = "line" /\ Line(n).id = n
  BY BoundAssumption DEF Running, Completed, Unrecorded, Line, Message

\* What a put leaves: m at the end, before it what was there from place k + 1 on.
EndsWith(q, m) == Len(q) \in Nat \ {0} /\ q[Len(q)] = m

Shifted(q, old, k) ==
    \A i \in 1..(Len(q) - 1) : i + k \in 1..Len(old) /\ q[i] = old[i + k]

\* What put does to a queue: the message goes to the end, and the first is lost
\* when there is no room.
LEMMA PutQueue ==
  ASSUME NEW n \in Nat, NEW s, StreamOK(s, n), NEW m \in Message, Sent(m, n)
  PROVE  /\ StreamOK(Put(s, m), n)
         /\ Put(s, m).pc = s.pc /\ Put(s, m).since = s.since /\ Put(s, m).todo = s.todo
         /\ Put(s, m).shown = s.shown /\ Put(s, m).last = s.last /\ Put(s, m).until = s.until
         /\ s.lost \subseteq Put(s, m).lost
         /\ EndsWith(Put(s, m).queue, m)
         /\ \E k \in 0..1 : Shifted(Put(s, m).queue, s.queue, k)
         /\ \A i \in 1..Len(s.queue) :
               \/ \E j \in 1..Len(Put(s, m).queue) : Put(s, m).queue[j] = s.queue[i]
               \/ s.queue[i].id \in {0} \cup Put(s, m).lost
  <1> DEFINE q == s.queue
  <1>1. /\ s \in Stream0(n) /\ q \in Seq(Message) /\ Len(q) \in Nat /\ Len(q) <= QueueSize
        /\ s.lost \subseteq 1..n /\ \A i \in 1..Len(q) : Sent(q[i], n)
    BY DEF StreamOK, Stream0
  <1>2. QueueSize \in Nat \ {0}
    BY SizeAssumption
  <1> HIDE DEF q
  <1>3. CASE Len(q) < QueueSize
    <2>1. PICK r \in Seq(Message) :
             /\ r = Append(q, m) /\ Len(r) = Len(q) + 1 /\ r[Len(r)] = m
             /\ \A i \in 1..Len(q) : r[i] = q[i]
      <3>1. /\ Append(q, m) \in Seq(Message) /\ Len(Append(q, m)) = Len(q) + 1
            /\ Append(q, m)[Len(q) + 1] = m
            /\ \A i \in 1..Len(q) : Append(q, m)[i] = q[i]
        BY <1>1, AppendElements
      <3>2. QED
        BY <3>1
    <2>2. Put(s, m) = [s EXCEPT !.queue = r]
      BY <1>3, <2>1 DEF Put, q
    <2>3. /\ Put(s, m) \in Stream0(n) /\ Put(s, m).queue = r
          /\ Put(s, m).pc = s.pc /\ Put(s, m).since = s.since /\ Put(s, m).todo = s.todo
          /\ Put(s, m).shown = s.shown /\ Put(s, m).last = s.last /\ Put(s, m).until = s.until
          /\ Put(s, m).lost = s.lost
      BY <1>1, <2>2 DEF Stream0
    <2>4. \A i \in 1..Len(r) : Sent(r[i], n)
      <3>1. \A i \in 1..Len(r) : i \in 1..Len(q) \/ i = Len(r)
        BY <1>1, <2>1
      <3>2. QED
        BY <1>1, <2>1, <3>1
    <2>5. StreamOK(Put(s, m), n)
      <3>1. Len(r) <= QueueSize
        BY <1>1, <1>2, <1>3, <2>1
      <3>2. QED
        BY <2>3, <2>4, <3>1 DEF StreamOK
    <2>6. \A i \in 1..(Len(r) - 1) : i + 0 \in 1..Len(q) /\ r[i] = q[i + 0]
      BY <1>1, <2>1
    <2>7. \A i \in 1..Len(q) : \E j \in 1..Len(r) : r[j] = q[i]
      <3>1. \A i \in 1..Len(q) : i \in 1..Len(r) /\ r[i] = q[i]
        BY <1>1, <2>1
      <3>2. QED
        BY <3>1
    <2>8. Len(r) \in Nat \ {0}
      BY <1>1, <2>1
    <2>9. EndsWith(r, m) /\ Shifted(r, q, 0)
      BY <2>1, <2>6, <2>8 DEF EndsWith, Shifted
    <2>10. QED
      BY <2>3, <2>5, <2>7, <2>9 DEF q
  <1>4. CASE ~(Len(q) < QueueSize)
    <2>1. Len(q) = QueueSize /\ q # <<>>
      BY <1>1, <1>2, <1>4
    <2>2. PICK t \in Seq(Message) :
             /\ t = Tail(q) /\ Len(t) = Len(q) - 1
             /\ \A i \in 1..Len(t) : i + 1 \in 1..Len(q) /\ t[i] = q[i + 1]
      <3>1. /\ Tail(q) \in Seq(Message) /\ Len(Tail(q)) = Len(q) - 1
            /\ \A i \in 1..Len(Tail(q)) : i + 1 \in 1..Len(q) /\ Tail(q)[i] = q[i + 1]
        BY <1>1, <2>1, TailElements
      <3>2. QED
        BY <3>1
    <2>3. PICK r \in Seq(Message) :
             /\ r = Append(t, m) /\ Len(r) = Len(t) + 1 /\ r[Len(r)] = m
             /\ \A i \in 1..Len(t) : r[i] = t[i]
      <3>1. /\ Append(t, m) \in Seq(Message) /\ Len(Append(t, m)) = Len(t) + 1
            /\ Append(t, m)[Len(t) + 1] = m
            /\ \A i \in 1..Len(t) : Append(t, m)[i] = t[i]
        BY <2>2, AppendElements
      <3>2. QED
        BY <3>1
    <2>4. LinesIn(<<Head(q)>>) = {q[1].id} \ {0} /\ 1 \in 1..Len(q)
      BY <1>1, <1>2, <2>1 DEF LinesIn
    <2>5. LinesIn(<<Head(q)>>) \subseteq 1..n
      BY <1>1, <2>4 DEF Sent
    <2>6. PICK lost \in SUBSET (1..n) : lost = s.lost \cup LinesIn(<<Head(q)>>)
      BY <1>1, <2>5
    <2>7. Put(s, m) = [s EXCEPT !.queue = r, !.lost = lost]
      BY <1>4, <2>2, <2>3, <2>6 DEF Put, q
    <2>8. /\ Put(s, m) \in Stream0(n) /\ Put(s, m).queue = r
          /\ Put(s, m).pc = s.pc /\ Put(s, m).since = s.since /\ Put(s, m).todo = s.todo
          /\ Put(s, m).shown = s.shown /\ Put(s, m).last = s.last /\ Put(s, m).until = s.until
          /\ Put(s, m).lost = lost
      BY <1>1, <2>7 DEF Stream0
    <2>9. /\ Len(r) = Len(q) /\ Len(r) \in Nat \ {0}
          /\ \A i \in 1..(Len(r) - 1) : i + 1 \in 1..Len(q) /\ r[i] = q[i + 1]
      BY <1>1, <2>1, <2>2, <2>3
    <2>10. \A i \in 1..Len(r) : Sent(r[i], n)
      <3>1. \A i \in 1..Len(r) : i \in 1..(Len(r) - 1) \/ i = Len(r)
        BY <2>9
      <3>2. QED
        BY <1>1, <2>3, <2>9, <3>1
    <2>11. StreamOK(Put(s, m), n)
      BY <1>1, <2>8, <2>9, <2>10 DEF StreamOK
    <2>12. ASSUME NEW i \in 1..Len(q)
           PROVE  (\E j \in 1..Len(r) : r[j] = q[i]) \/ q[i].id \in {0} \cup lost
      <3>1. CASE i = 1
        BY <2>4, <2>6, <3>1
      <3>2. CASE i # 1
        <4>1. i - 1 \in 1..(Len(r) - 1) /\ i - 1 \in 1..Len(r) /\ (i - 1) + 1 = i
          BY <2>9, <3>2
        <4>2. r[i - 1] = q[i]
          BY <2>9, <4>1
        <4>3. QED
          BY <4>1, <4>2
      <3>3. QED
        BY <3>1, <3>2
    <2>13. EndsWith(r, m) /\ Shifted(r, q, 1)
      BY <2>3, <2>9 DEF EndsWith, Shifted
    <2>14. QED
      BY <2>6, <2>8, <2>11, <2>12, <2>13 DEF q
  <1>5. QED
    BY <1>3, <1>4
-----------------------------------------------------------------------------
(* The types, and what each step does to the streams *)

\* A command's lines are published in the turn that records them: only an action
\* inside the daemon has coroutines that are still to publish.
Base ==
    /\ action \in {"process", "inside"} /\ row \in {"queued", "running", "final"}
    /\ alive \in BOOLEAN /\ unsaid \in BOOLEAN
    /\ log \in 0..MaxLines /\ quiet \subseteq 1..log
    /\ casts \in Seq(0..log)
    /\ action = "process" => casts = <<>>
    /\ streams \in [Client -> Stream0(log)]
    /\ \A c \in Client : StreamOK(streams[c], log)

\* The connections fit a log of n lines.
StreamsOK(n) ==
    /\ streams \in [Client -> Stream0(n)]
    /\ \A c \in Client : StreamOK(streams[c], n)

\* A step of c's connection leaves the other connections and the task alone.
OnlyStream(c) ==
    /\ UNCHANGED taskVars
    /\ \A d \in Client : d # c => streams'[d] = streams[d]

\* The log grows by one line.
LEMMA LongerLog ==
  ASSUME Base
  PROVE  /\ StreamsOK(log + 1) /\ quiet \subseteq 1..(log + 1) /\ casts \in Seq(0..(log + 1))
         /\ log + 1 \in 1..(log + 1)
  <1>1. log \in Nat /\ streams \in [Client -> Stream0(log)] /\ quiet \subseteq 1..log
        /\ casts \in Seq(0..log)
    BY BoundAssumption DEF Base
  <1>2. \A c \in Client : StreamOK(streams[c], log + 1)
    BY <1>1, LaterLog DEF Base
  <1>3. streams = [c \in Client |-> streams[c]]
    BY <1>1
  <1>4. streams \in [Client -> Stream0(log + 1)]
    BY <1>2, <1>3 DEF StreamOK
  <1>5. 1..log \subseteq 1..(log + 1) /\ 0..log \subseteq 0..(log + 1)
    BY <1>1
  <1>6. casts \in Seq(0..(log + 1))
    BY <1>1, <1>5
  <1>7. QED
    BY <1>1, <1>2, <1>4, <1>5, <1>6 DEF StreamsOK

\* A message published: every stream that is subscribed has it, no other changes.
LEMMA Published ==
  ASSUME NEW n \in Nat, StreamsOK(n), NEW m \in Message, Sent(m, n), Publish(m)
  PROVE  /\ StreamsOK(n)'
         /\ \A c \in Client :
               /\ Subscribed(c) => streams'[c] = Put(streams[c], m)
               /\ ~Subscribed(c) => streams'[c] = streams[c]
  <1>1. \A c \in Client : StreamOK(streams[c], n)
    BY DEF StreamsOK
  <1>2. \A c \in Client : StreamOK(Put(streams[c], m), n)
    BY <1>1, PutQueue
  <1>3. streams' = [c \in Client |->
                      IF Subscribed(c) THEN Put(streams[c], m) ELSE streams[c]]
    BY DEF Publish
  <1>4. \A c \in Client :
           /\ Subscribed(c) => streams'[c] = Put(streams[c], m)
           /\ ~Subscribed(c) => streams'[c] = streams[c]
    BY <1>3
  <1>5. \A c \in Client : StreamOK(streams'[c], n)
    BY <1>1, <1>2, <1>4
  <1>6. streams' \in [Client -> Stream0(n)]
    <2>1. \A c \in Client : streams'[c] \in Stream0(n)
      BY <1>5 DEF StreamOK
    <2>2. streams' = [c \in Client |-> streams'[c]]
      BY <1>3
    <2>3. QED
      BY <2>1, <2>2
  <1>7. QED
    BY <1>4, <1>5, <1>6 DEF StreamsOK

\* One connection takes a new state.
LEMMA OneStream ==
  ASSUME Base, NEW c \in Client, NEW t, StreamOK(t, log),
         streams' = [streams EXCEPT ![c] = t], UNCHANGED taskVars
  PROVE  Base' /\ OnlyStream(c) /\ streams'[c] = t
  <1>1. streams \in [Client -> Stream0(log)] /\ \A d \in Client : StreamOK(streams[d], log)
    BY DEF Base
  <1>2. t \in Stream0(log)
    BY DEF StreamOK
  <1>3. /\ streams' \in [Client -> Stream0(log)] /\ streams'[c] = t
        /\ \A d \in Client : d # c => streams'[d] = streams[d]
    BY <1>1, <1>2
  <1>4. \A d \in Client : StreamOK(streams'[d], log)
    BY <1>1, <1>3
  <1>5. QED
    BY <1>3, <1>4 DEF Base, OnlyStream, taskVars

\* subscribe and get_task_backlog: the lines after the one asked for, up to the
\* limit of the backlog, are to be sent; what comes later in the log is cut off.
LEMMA Connected ==
  ASSUME Base, NEW c \in Client, Connect(c)
  PROVE  /\ Base' /\ OnlyStream(c)
         /\ streams'[c].pc = "replay" /\ streams'[c].since \in 0..log
         /\ streams'[c].queue = <<>> /\ streams'[c].shown = <<>>
         /\ \E top \in streams'[c].since..log :
               /\ Len(streams'[c].todo) = top - streams'[c].since
               /\ \A i \in 1..Len(streams'[c].todo) :
                     streams'[c].todo[i] = streams'[c].since + i
               /\ streams'[c].lost = (top + 1)..log
  <1>1. PICK n \in Nat : n = log
    BY BoundAssumption DEF Base
  <1>2. PICK s \in 0..n : s = streams[c].last
    BY <1>1 DEF Base, Stream0
  <1>3. PICK top \in s..n : top = IF n - s > BacklogLimit THEN s + BacklogLimit ELSE n
    BY <1>1, <1>2, SizeAssumption
  <1>4. PICK todo \in Seq(1..n) : /\ todo = [i \in 1..(top - s) |-> s + i]
                                  /\ Len(todo) = top - s
                                  /\ \A i \in 1..Len(todo) : todo[i] = s + i
    <2>1. \A i \in 1..(top - s) : s + i \in 1..n
      BY <1>1, <1>2, <1>3
    <2>2. top - s \in Nat
      BY <1>2, <1>3
    <2>3. PICK todo : todo = [i \in 1..(top - s) |-> s + i]
      OBVIOUS
    <2>4. todo \in Seq(1..n) /\ DOMAIN todo = 1..(top - s)
      BY <2>1, <2>2, <2>3
    <2>5. Len(todo) = top - s
      BY <2>2, <2>4
    <2>6. QED
      BY <2>3, <2>4, <2>5
  <1>5. PICK lost \in SUBSET (1..n) : lost = (top + 1)..n
    BY <1>2, <1>3
  <1>6. PICK t : t = [Closed EXCEPT !.pc = "replay", !.since = s, !.todo = todo,
                                    !.last = s, !.lost = lost]
    OBVIOUS
  <1>7. /\ t \in Stream0(n) /\ t.pc = "replay" /\ t.since = s /\ t.todo = todo
        /\ t.lost = lost /\ t.queue = <<>> /\ t.shown = <<>>
    <2>1. <<>> \in Seq(Message) /\ <<>> \in Seq(1..n) /\ 0 \in 0..n
      BY <1>1
    <2>2. QED
      BY <1>2, <1>6, <2>1 DEF Closed, Stream0, Streaming
  <1>8. StreamOK(t, n)
    BY <1>7, SizeAssumption DEF StreamOK
  <1>9. streams' = [streams EXCEPT ![c] = t] /\ UNCHANGED taskVars
    BY <1>1, <1>2, <1>3, <1>4, <1>5, <1>6 DEF Connect
  <1>10. Base' /\ OnlyStream(c) /\ streams'[c] = t
    BY <1>1, <1>8, <1>9, OneStream
  <1>11. QED
    BY <1>1, <1>3, <1>4, <1>5, <1>7, <1>10

\* A frame of the backlog is sent.
LEMMA Replayed ==
  ASSUME Base, NEW c \in Client, Replay(c)
  PROVE  /\ Base' /\ OnlyStream(c)
         /\ streams[c].todo \in Seq(1..log) /\ streams[c].todo # <<>>
         /\ streams'[c].pc = "replay" /\ streams'[c].since = streams[c].since
         /\ streams'[c].queue = streams[c].queue /\ streams'[c].lost = streams[c].lost
         /\ streams'[c].todo = Tail(streams[c].todo)
         /\ streams'[c].shown = Append(streams[c].shown, Head(streams[c].todo))
  <1>1. PICK n \in Nat : n = log
    BY BoundAssumption DEF Base
  <1>2. PICK s \in Stream0(n) : s = streams[c] /\ StreamOK(s, n)
    BY <1>1 DEF Base
  <1>3. s.pc = "replay" /\ s.todo # <<>> /\ s.todo \in Seq(1..n) /\ s.shown \in Seq(1..n)
    BY <1>2 DEF Replay, Stream0
  <1>4. PICK h \in 1..n : h = Head(s.todo)
    BY <1>3, TailElements
  <1>5. PICK todo \in Seq(1..n) : todo = Tail(s.todo)
    BY <1>3, TailElements
  <1>6. PICK shown \in Seq(1..n) : shown = Append(s.shown, h)
    BY <1>3, <1>4, AppendElements
  <1>7. PICK t : t = [s EXCEPT !.todo = todo, !.last = h, !.shown = shown]
    OBVIOUS
  <1>8. /\ t \in Stream0(n) /\ t.pc = "replay" /\ t.since = s.since /\ t.queue = s.queue
        /\ t.lost = s.lost /\ t.todo = todo /\ t.shown = shown
    <2>1. h \in 0..n
      BY <1>1
    <2>2. t \in Stream0(n)
      BY <1>7, <2>1 DEF Stream0
    <2>3. /\ t.pc = s.pc /\ t.since = s.since /\ t.queue = s.queue
          /\ t.lost = s.lost /\ t.todo = todo /\ t.shown = shown
      BY <1>7 DEF Stream0
    <2>4. QED
      BY <1>3, <2>2, <2>3
  <1>9. StreamOK(t, n)
    BY <1>2, <1>8 DEF StreamOK
  <1>10. streams' = [streams EXCEPT ![c] = t] /\ UNCHANGED taskVars
    <2>1. c \in DOMAIN streams
      BY DEF Base
    <2>2. QED
      BY <1>2, <1>4, <1>5, <1>6, <1>7, <2>1 DEF Replay
  <1>11. Base' /\ OnlyStream(c) /\ streams'[c] = t
    BY <1>1, <1>9, <1>10, OneStream
  <1>12. QED
    BY <1>1, <1>2, <1>3, <1>4, <1>5, <1>6, <1>8, <1>11

\* The look at the row after the backlog.
LEMMA Checked ==
  ASSUME Base, NEW c \in Client, CheckEnded(c)
  PROVE  /\ Base' /\ OnlyStream(c)
         /\ IF row = "final" THEN streams'[c].pc = "ended" /\ streams'[c].until = log
                             ELSE streams'[c].pc = "live"
         /\ streams[c].pc = "replay" /\ streams[c].todo = <<>>
         /\ streams'[c].since = streams[c].since /\ streams'[c].todo = streams[c].todo
         /\ streams'[c].queue = streams[c].queue /\ streams'[c].lost = streams[c].lost
         /\ streams'[c].shown = streams[c].shown
  <1>1. PICK n \in Nat : n = log
    BY BoundAssumption DEF Base
  <1>2. PICK s \in Stream0(n) : s = streams[c] /\ StreamOK(s, n)
    BY <1>1 DEF Base
  <1>3. s.pc = "replay" /\ s.todo = <<>>
    BY <1>2 DEF CheckEnded
  <1>4. PICK t : t = IF row = "final" THEN [s EXCEPT !.pc = "ended", !.last = 0, !.until = n]
                     ELSE [s EXCEPT !.pc = "live"]
    OBVIOUS
  <1>5. /\ t \in Stream0(n) /\ t.since = s.since /\ t.todo = s.todo
        /\ t.queue = s.queue /\ t.lost = s.lost /\ t.shown = s.shown
        /\ IF row = "final" THEN t.pc = "ended" /\ t.until = n ELSE t.pc = "live"
    <2>1. /\ 0 \in 0..n /\ n \in 0..n
          /\ {"ended", "live"} \subseteq {"off", "ended"} \cup Streaming
      BY <1>1 DEF Streaming
    <2>2. CASE row = "final"
      <3>1. t = [s EXCEPT !.pc = "ended", !.last = 0, !.until = n]
        BY <1>4, <2>2
      <3>2. QED
        BY <2>1, <2>2, <3>1 DEF Stream0
    <2>3. CASE row # "final"
      <3>1. t = [s EXCEPT !.pc = "live"]
        BY <1>4, <2>3
      <3>2. QED
        BY <2>1, <2>3, <3>1 DEF Stream0
    <2>4. QED
      BY <2>2, <2>3
  <1>6. StreamOK(t, n)
    BY <1>2, <1>3, <1>5 DEF StreamOK
  <1>7. streams' = [streams EXCEPT ![c] = t] /\ UNCHANGED taskVars
    <2>1. c \in DOMAIN streams
      BY DEF Base
    <2>2. QED
      BY <1>1, <1>2, <1>4, <2>1 DEF CheckEnded, Ended
  <1>8. Base' /\ OnlyStream(c) /\ streams'[c] = t
    BY <1>1, <1>6, <1>7, OneStream
  <1>9. QED
    BY <1>1, <1>2, <1>3, <1>5, <1>8

\* A message leaves the queue: a line is shown, the end ends the stream.
LEMMA Forwarded ==
  ASSUME Base, NEW c \in Client, Forward(c)
  PROVE  /\ Base' /\ OnlyStream(c)
         /\ streams[c].pc = "live" /\ streams[c].todo = <<>>
         /\ streams[c].queue \in Seq(Message) /\ streams[c].queue # <<>>
         /\ streams'[c].since = streams[c].since /\ streams'[c].todo = streams[c].todo
         /\ streams'[c].queue = Tail(streams[c].queue)
         /\ streams'[c].lost = streams[c].lost
         /\ streams'[c].shown = IF Head(streams[c].queue).kind = "line"
                                THEN Append(streams[c].shown, Head(streams[c].queue).id)
                                ELSE streams[c].shown
         /\ IF Head(streams[c].queue).kind = "completed"
            THEN streams'[c].pc = "ended" /\ streams'[c].until = log
            ELSE streams'[c].pc = "live"
  <1>1. PICK n \in Nat : n = log
    BY BoundAssumption DEF Base
  <1>2. PICK s \in Stream0(n) : s = streams[c] /\ StreamOK(s, n)
    BY <1>1 DEF Base
  <1>3. s.pc = "live" /\ s.queue # <<>> /\ s.queue \in Seq(Message) /\ s.shown \in Seq(1..n)
        /\ s.todo = <<>> /\ Len(s.queue) <= QueueSize
        /\ \A i \in 1..Len(s.queue) : Sent(s.queue[i], n)
    BY <1>2 DEF Forward, Stream0, StreamOK
  <1>4. PICK m \in Message : m = Head(s.queue) /\ Sent(m, n)
    BY <1>3, TailElements
  <1>5. PICK q \in Seq(Message) :
           /\ q = Tail(s.queue) /\ Len(q) = Len(s.queue) - 1
           /\ \A i \in 1..Len(q) : i + 1 \in 1..Len(s.queue) /\ q[i] = s.queue[i + 1]
    BY <1>3, TailElements
  <1>6. m.kind = "line" => Append(s.shown, m.id) \in Seq(1..n)
    BY <1>3, <1>4, AppendElements DEF Sent
  <1>7. PICK r : r = [s EXCEPT !.queue = q, !.last = 0]
    OBVIOUS
  <1>8. PICK t : t = CASE m.kind = "line"      -> [r EXCEPT !.shown = Append(@, m.id)]
                       [] m.kind = "completed" -> [r EXCEPT !.pc = "ended", !.last = 0, !.until = n]
                       [] OTHER                -> r
    OBVIOUS
  <1>9. /\ t \in Stream0(n) /\ t.since = s.since /\ t.todo = s.todo
        /\ t.queue = q /\ t.lost = s.lost
        /\ t.shown = IF m.kind = "line" THEN Append(s.shown, m.id) ELSE s.shown
        /\ IF m.kind = "completed" THEN t.pc = "ended" /\ t.until = n ELSE t.pc = "live"
    <2>1. r \in Stream0(n) /\ r.pc = "live" /\ r.since = s.since /\ r.todo = s.todo
          /\ r.queue = q /\ r.lost = s.lost /\ r.shown = s.shown
      <3>1. 0 \in 0..n
        BY <1>1
      <3>2. r \in Stream0(n)
        BY <1>7, <3>1 DEF Stream0
      <3>3. /\ r.pc = s.pc /\ r.since = s.since /\ r.todo = s.todo
            /\ r.queue = q /\ r.lost = s.lost /\ r.shown = s.shown
        BY <1>7 DEF Stream0
      <3>4. QED
        BY <1>3, <3>2, <3>3
    <2>2. CASE m.kind = "line"
      <3>1. t = [r EXCEPT !.shown = Append(s.shown, m.id)]
        BY <1>8, <2>1, <2>2
      <3>2. QED
        BY <1>6, <2>1, <2>2, <3>1 DEF Stream0
    <2>3. CASE m.kind = "completed"
      <3>1. t = [r EXCEPT !.pc = "ended", !.last = 0, !.until = n]
        BY <1>8, <2>3
      <3>2. 0 \in 0..n /\ n \in 0..n /\ "ended" \in {"off", "ended"} \cup Streaming
        BY <1>1
      <3>3. t \in Stream0(n)
        BY <2>1, <3>1, <3>2 DEF Stream0
      <3>4. /\ t.since = r.since /\ t.todo = r.todo /\ t.queue = r.queue /\ t.lost = r.lost
            /\ t.shown = r.shown /\ t.pc = "ended" /\ t.until = n
        BY <2>1, <3>1 DEF Stream0
      <3>5. QED
        BY <2>1, <2>3, <3>3, <3>4
    <2>4. CASE m.kind # "line" /\ m.kind # "completed"
      <3>1. t = r
        BY <1>8, <2>4
      <3>2. QED
        BY <2>1, <2>4, <3>1
    <2>5. QED
      BY <2>2, <2>3, <2>4
  <1>10. StreamOK(t, n)
    <2>1. Len(q) <= QueueSize
      BY <1>3, <1>5, SizeAssumption
    <2>2. \A i \in 1..Len(q) : Sent(q[i], n)
      BY <1>3, <1>5
    <2>3. QED
      BY <1>3, <1>9, <2>1, <2>2 DEF StreamOK
  <1>11. streams' = [streams EXCEPT ![c] = t] /\ UNCHANGED taskVars
    <2>1. c \in DOMAIN streams
      BY DEF Base
    <2>2. QED
      BY <1>1, <1>2, <1>4, <1>5, <1>7, <1>8, <2>1 DEF Forward, Ended
  <1>12. Base' /\ OnlyStream(c) /\ streams'[c] = t
    BY <1>1, <1>10, <1>11, OneStream
  <1>13. QED
    BY <1>1, <1>2, <1>3, <1>4, <1>5, <1>9, <1>12

\* The client is gone.
LEMMA Disconnected ==
  ASSUME Base, NEW c \in Client, Disconnect(c)
  PROVE  /\ Base' /\ OnlyStream(c) /\ streams'[c].pc = "off"
         /\ streams'[c].todo = <<>> /\ streams'[c].queue = <<>> /\ streams'[c].shown = <<>>
  <1>1. PICK n \in Nat : n = log
    BY BoundAssumption DEF Base
  <1>2. PICK last \in 0..n : last = streams[c].last
    BY <1>1 DEF Base, Stream0
  <1>3. PICK t : t = [Closed EXCEPT !.last = last]
    OBVIOUS
  <1>4. /\ t \in Stream0(n) /\ t.pc = "off"
        /\ t.todo = <<>> /\ t.queue = <<>> /\ t.shown = <<>>
    <2>1. <<>> \in Seq(Message) /\ <<>> \in Seq(1..n) /\ 0 \in 0..n
      BY <1>1
    <2>2. QED
      BY <1>3, <2>1 DEF Closed, Stream0
  <1>5. StreamOK(t, n)
    BY <1>4, SizeAssumption DEF StreamOK
  <1>6. streams' = [streams EXCEPT ![c] = t] /\ UNCHANGED taskVars
    BY <1>2, <1>3 DEF Disconnect
  <1>7. QED
    BY <1>1, <1>4, <1>5, <1>6, OneStream

-----------------------------------------------------------------------------
(* The types are kept *)

LEMMA InitBase ==
  Init => Base
  <1> SUFFICES ASSUME Init PROVE Base
    OBVIOUS
  <1>1. log = 0 /\ casts = <<>> /\ quiet = {} /\ 0 \in 0..MaxLines
    BY BoundAssumption DEF Init
  <1>2. Closed \in Stream0(0) /\ Closed.queue = <<>> /\ Closed.todo = <<>> /\ Closed.pc = "off"
    <2>1. <<>> \in Seq(Message) /\ <<>> \in Seq(1..0) /\ 0 \in 0..0
      OBVIOUS
    <2>2. QED
      BY <2>1 DEF Closed, Stream0
  <1>3. StreamOK(Closed, 0)
    BY <1>2, SizeAssumption DEF StreamOK
  <1>4. /\ streams = [c \in Client |-> Closed] /\ streams \in [Client -> Stream0(0)]
        /\ \A c \in Client : StreamOK(streams[c], 0)
    BY <1>2, <1>3 DEF Init
  <1>5. casts \in Seq(0..0)
    BY <1>1
  <1>6. QED
    BY <1>1, <1>4, <1>5 DEF Init, Base

\* A step of the task announces m: every stream that is subscribed has it at the
\* end of its queue.
LEMMA Announced ==
  ASSUME Base, NEW m \in Message, Sent(m, log), Publish(m), UNCHANGED <<action, log, quiet>>,
         row' \in {"queued", "running", "final"}, alive' \in BOOLEAN, unsaid' \in BOOLEAN,
         casts' \in Seq(0..log), action = "process" => casts' = <<>>
  PROVE  Base'
  <1>1. PICK n \in Nat : n = log
    BY BoundAssumption DEF Base
  <1>2. StreamsOK(n)
    BY <1>1 DEF Base, StreamsOK
  <1>3. StreamsOK(n)'
    BY <1>1, <1>2, Published
  <1>4. QED
    BY <1>1, <1>3 DEF Base, StreamsOK

LEMMA LogLineStep ==
  ASSUME Base, LogLine
  PROVE  /\ Base' /\ log' = log + 1 /\ Line(log + 1) \in Message /\ Sent(Line(log + 1), log + 1)
         /\ StreamsOK(log + 1)
         /\ \A c \in Client :
               /\ Subscribed(c) => streams'[c] = Put(streams[c], Line(log + 1))
               /\ ~Subscribed(c) => streams'[c] = streams[c]
  <1>1. PICK n \in Nat : n = log /\ n + 1 \in 1..MaxLines /\ n + 1 \in 1..(n + 1)
    BY BoundAssumption DEF Base, LogLine
  <1>2. /\ StreamsOK(n + 1) /\ quiet \subseteq 1..(n + 1) /\ casts \in Seq(0..(n + 1))
    BY <1>1, LongerLog
  <1>3. log' = n + 1 /\ Publish(Line(n + 1)) /\ UNCHANGED <<action, row, alive, quiet, casts, unsaid>>
    BY <1>1 DEF LogLine
  <1>4. Line(n + 1) \in Message /\ Sent(Line(n + 1), n + 1)
    BY <1>1, Messages DEF Sent
  <1>5. /\ StreamsOK(n + 1)'
        /\ \A c \in Client :
              /\ Subscribed(c) => streams'[c] = Put(streams[c], Line(n + 1))
              /\ ~Subscribed(c) => streams'[c] = streams[c]
    BY <1>1, <1>2, <1>3, <1>4, Published
  <1>6. n + 1 \in 0..MaxLines
    BY <1>1
  <1>7. Base'
    BY <1>1, <1>2, <1>3, <1>5, <1>6 DEF Base, StreamsOK
  <1>8. QED
    BY <1>1, <1>2, <1>3, <1>4, <1>5, <1>7

LEMMA BroadcastStep ==
  ASSUME Base, Broadcast
  PROVE  /\ Base' /\ Head(casts) \in 0..log /\ Cast(Head(casts)) \in Message
         /\ Sent(Cast(Head(casts)), log) /\ action = "inside" /\ casts \in Seq(0..log)
         /\ \A c \in Client :
               /\ Subscribed(c) => streams'[c] = Put(streams[c], Cast(Head(casts)))
               /\ ~Subscribed(c) => streams'[c] = streams[c]
  <1>1. PICK n \in Nat : n = log /\ n <= MaxLines /\ MaxLines \in Nat
    BY BoundAssumption DEF Base
  <1>2. casts # <<>> /\ casts \in Seq(0..n) /\ action = "inside"
    BY <1>1 DEF Broadcast, Base
  <1>3. Head(casts) \in 0..n /\ Tail(casts) \in Seq(0..n)
    BY <1>2, TailElements
  <1>4. Cast(Head(casts)) \in Message /\ Sent(Cast(Head(casts)), n)
    <2>1. CASE Head(casts) = 0
      BY <2>1, Messages DEF Cast, Sent
    <2>2. CASE Head(casts) # 0
      <3>1. Head(casts) \in 1..MaxLines /\ Head(casts) \in 1..n
        BY <1>1, <1>3, <2>2
      <3>2. QED
        BY <2>2, <3>1, Messages DEF Cast, Sent
    <2>3. QED
      BY <2>1, <2>2
  <1>5. /\ Publish(Cast(Head(casts))) /\ casts' = Tail(casts)
        /\ UNCHANGED <<action, row, alive, log, quiet, unsaid>>
    BY DEF Broadcast
  <1>6. row' \in {"queued", "running", "final"} /\ alive' \in BOOLEAN /\ unsaid' \in BOOLEAN
    BY <1>5 DEF Base
  <1>7. Base'
    BY <1>1, <1>2, <1>3, <1>4, <1>5, <1>6, Announced
  <1>8. StreamsOK(n)
    BY <1>1 DEF Base, StreamsOK
  <1>9. \A c \in Client :
              /\ Subscribed(c) => streams'[c] = Put(streams[c], Cast(Head(casts)))
              /\ ~Subscribed(c) => streams'[c] = streams[c]
    BY <1>4, <1>5, <1>8, Published
  <1>10. QED
    BY <1>1, <1>2, <1>3, <1>4, <1>7, <1>9

\* A line without a record is announced at once, or joins the casts.
UnrecordedNow == LogUnrecorded /\ action = "process"

LEMMA UnrecordedCast ==
  ASSUME Base, LogUnrecorded, action # "process"
  PROVE  /\ Base' /\ action = "inside" /\ UNCHANGED <<action, row, alive, log, quiet, unsaid, streams>>
         /\ ToSet(casts) \subseteq ToSet(casts')
  <1>1. /\ action = "inside" /\ casts' = Append(casts, 0)
        /\ UNCHANGED <<action, row, alive, log, quiet, unsaid, streams>>
    BY DEF LogUnrecorded
  <1>2. PICK n \in Nat : n = log /\ 0 \in 0..n /\ casts \in Seq(0..n)
    BY BoundAssumption DEF Base
  <1>3. casts' \in Seq(0..n)
    BY <1>1, <1>2, AppendElements
  <1>4. ToSet(casts) \subseteq ToSet(casts')
    BY <1>1, <1>2, AppendSet
  <1>5. QED
    BY <1>1, <1>2, <1>3, <1>4 DEF Base

\* The start, the end and a line without a record are announced alike.
LEMMA StatusStep ==
  ASSUME Base, NEW m \in {Running, Completed, Unrecorded},
         \/ StartRun /\ m = Running
         \/ Finish /\ m = Completed
         \/ UnrecordedNow /\ m = Unrecorded
  PROVE  /\ Base' /\ UNCHANGED <<action, log, quiet, casts>>
         /\ m \in Message /\ Sent(m, log) /\ m.kind # "line" /\ m.id = 0
         /\ \A c \in Client :
               /\ Subscribed(c) => streams'[c] = Put(streams[c], m)
               /\ ~Subscribed(c) => streams'[c] = streams[c]
  <1>1. PICK n \in Nat : n = log
    BY BoundAssumption DEF Base
  <1>2. m \in Message /\ m.kind # "line" /\ m.id = 0 /\ Sent(m, n)
    BY Messages DEF Sent
  <1>3. Publish(m) /\ UNCHANGED <<action, log, quiet, casts>>
    BY DEF StartRun, Finish, UnrecordedNow, LogUnrecorded
  <1>4. row' \in {"queued", "running", "final"} /\ alive' \in BOOLEAN /\ unsaid' \in BOOLEAN
    BY DEF StartRun, Finish, UnrecordedNow, LogUnrecorded, Base
  <1>5. casts' \in Seq(0..n) /\ (action = "process" => casts' = <<>>)
    BY <1>1, <1>3 DEF Base
  <1>6. Base'
    BY <1>1, <1>2, <1>3, <1>4, <1>5, Announced
  <1>7. StreamsOK(n)
    BY <1>1 DEF Base, StreamsOK
  <1>8. QED
    BY <1>1, <1>2, <1>3, <1>6, <1>7, Published

\* A line recorded without being published in the same turn.
LEMMA LogUnheardStep ==
  ASSUME Base, LogInside \/ LogQuietly
  PROVE  /\ Base' /\ log' = log + 1 /\ UNCHANGED <<action, streams>>
         /\ ToSet(casts) \subseteq ToSet(casts') /\ quiet \subseteq quiet'
         /\ log + 1 \in quiet' \cup ToSet(casts')
  <1>1. PICK n \in Nat : n = log /\ n + 1 \in 0..MaxLines /\ n + 1 \in 1..(n + 1)
    BY BoundAssumption DEF Base, LogInside, LogLater, LogQuietly
  <1>2. /\ StreamsOK(n + 1) /\ quiet \subseteq 1..(n + 1) /\ casts \in Seq(0..(n + 1))
    BY <1>1, LongerLog
  <1>3. log' = n + 1 /\ UNCHANGED <<action, row, alive, unsaid, streams>>
    BY <1>1 DEF LogInside, LogLater, LogQuietly
  <1>4. StreamsOK(n + 1)'
    BY <1>2, <1>3 DEF StreamsOK
  <1>5. CASE LogInside
    <2>1. casts' = Append(casts, n + 1) /\ quiet' = quiet /\ action = "inside"
      BY <1>1, <1>5 DEF LogInside, LogLater
    <2>2. casts' \in Seq(0..(n + 1))
      BY <1>1, <1>2, <2>1, AppendElements
    <2>3. ToSet(casts) \subseteq ToSet(casts') /\ n + 1 \in ToSet(casts')
      BY <1>1, <1>2, <2>1, AppendSet
    <2>4. Base'
      BY <1>1, <1>2, <1>3, <1>4, <2>1, <2>2 DEF Base, StreamsOK
    <2>5. QED
      BY <1>1, <1>3, <2>1, <2>3, <2>4
  <1>6. CASE LogQuietly
    <2>1. quiet' = quiet \cup {n + 1} /\ casts' = casts
      BY <1>1, <1>6 DEF LogQuietly
    <2>2. quiet' \subseteq 1..(n + 1)
      BY <1>1, <1>2, <2>1
    <2>3. Base'
      BY <1>1, <1>2, <1>3, <1>4, <2>1, <2>2 DEF Base, StreamsOK
    <2>4. QED
      BY <1>1, <1>3, <2>1, <2>3
  <1>7. QED
    BY <1>5, <1>6

\* The row changes and nobody is told.
LEMMA RowStep ==
  ASSUME Base, FinishError \/ SweepStale \/ Requeue
  PROVE  Base' /\ UNCHANGED <<action, log, quiet, casts, streams>>
  <1>1. UNCHANGED <<action, log, quiet, casts, streams>>
    BY DEF FinishError, SweepStale, Requeue
  <1>2. row' \in {"queued", "running", "final"} /\ alive' \in BOOLEAN /\ unsaid' \in BOOLEAN
    BY DEF FinishError, SweepStale, Requeue, Base
  <1>3. QED
    BY <1>1, <1>2 DEF Base

LEMMA SameBase ==
  ASSUME Base, UNCHANGED vars
  PROVE  Base'
  BY DEF Base, vars, taskVars

\* Every step keeps the types.
LEMMA NextBase ==
  Base /\ [Next]_vars => Base'
  <1> SUFFICES ASSUME Base, [Next]_vars PROVE Base'
    OBVIOUS
  <1>1. CASE StartRun
    BY <1>1, StatusStep
  <1>2. CASE LogLine
    BY <1>2, LogLineStep
  <1>3. CASE LogInside \/ LogQuietly
    BY <1>3, LogUnheardStep
  <1>4. CASE Broadcast
    BY <1>4, BroadcastStep
  <1>5. CASE Finish
    BY <1>5, StatusStep
  <1>6. CASE FinishError \/ SweepStale \/ Requeue
    BY <1>6, RowStep
  <1>7. ASSUME NEW c \in Client, Stream(c)
        PROVE  Base'
    BY <1>7, Connected, Replayed, Checked, Forwarded, Disconnected DEF Stream
  <1>8. CASE Over \/ UNCHANGED vars
    BY <1>8, SameBase DEF Over
  <1>9. CASE LogUnrecorded
    BY <1>9, StatusStep, UnrecordedCast DEF UnrecordedNow
  <1>10. QED
    BY <1>1, <1>2, <1>3, <1>4, <1>5, <1>6, <1>7, <1>8, <1>9 DEF Next, Task

\* The types and the casts of a command hold in every state.
LEMMA BaseCorrect ==
  Spec => []Base
  BY InitBase, NextBase, PTL DEF Spec

\* The task, the log and every connection have their types in every state, and
\* no queue holds more than its size.
THEOREM TypeCorrect ==
  Spec => []TypeOK
  <1>1. Base => TypeOK
    BY DEF Base, TypeOK, StreamOK, Stream0
  <1>2. QED
    BY <1>1, BaseCorrect, PTL

-----------------------------------------------------------------------------
(* The end of a command is in the queue *)

\* c has the end before it, if the end of a command was announced while it lived.
EndQueued(c) ==
    /\ action = "process"
    /\ row = "final" /\ ~alive /\ ~unsaid
    /\ streams[c].pc = "live"
    => Completed \in ToSet(streams[c].queue)

\* A message put at the end is in the queue.
LEMMA PutLast ==
  ASSUME NEW n \in Nat, NEW s, StreamOK(s, n), NEW m \in Message, Sent(m, n)
  PROVE  m \in ToSet(Put(s, m).queue)
  <1>1. PICK q \in Seq(Message) : q = Put(s, m).queue /\ Len(q) \in Nat \ {0} /\ q[Len(q)] = m
    <2>1. StreamOK(Put(s, m), n) /\ EndsWith(Put(s, m).queue, m)
      BY PutQueue
    <2>2. Put(s, m).queue \in Seq(Message)
      BY <2>1 DEF StreamOK, Stream0
    <2>3. QED
      BY <2>1, <2>2 DEF EndsWith
  <1>2. Len(q) \in 1..Len(q)
    BY <1>1
  <1>3. QED
    BY <1>1, <1>2, SetElements

\* What is left of a queue without its first message.
LEMMA TailKeeps ==
  ASSUME NEW T, NEW q \in Seq(T), q # <<>>, NEW x \in ToSet(q), x # Head(q)
  PROVE  x \in ToSet(Tail(q))
  <1>1. PICK i \in 1..Len(q) : q[i] = x
    BY SetElements
  <1>2. PICK t \in Seq(T) : /\ t = Tail(q) /\ Len(t) = Len(q) - 1 /\ Len(q) \in Nat \ {0}
                            /\ \A j \in 1..Len(t) : t[j] = q[j + 1]
    BY TailElements
  <1>3. i # 1
    BY <1>1, TailElements
  <1>4. i - 1 \in 1..Len(t) /\ (i - 1) + 1 = i
    BY <1>2, <1>3
  <1>5. t[i - 1] = x
    BY <1>1, <1>2, <1>4
  <1>6. QED
    BY <1>2, <1>4, <1>5, SetElements

\* The invariant holds of every connection after a step of one of them.
LEMMA EndQueuedStream ==
  ASSUME Base, NEW d \in Client, Stream(d), NEW c \in Client, EndQueued(c)
  PROVE  EndQueued(c)'
  <1>1. OnlyStream(d)
    BY Connected, Replayed, Checked, Forwarded, Disconnected DEF Stream
  <1>2. UNCHANGED <<action, row, alive, unsaid>>
    BY <1>1 DEF OnlyStream, taskVars
  <1>3. CASE c # d
    BY <1>1, <1>2, <1>3 DEF OnlyStream, EndQueued
  <1>4. CASE c = d
    <2>1. CASE Connect(d) \/ Replay(d) \/ Disconnect(d)
      <3>1. streams'[d].pc # "live"
        BY <2>1, Connected, Replayed, Disconnected
      <3>2. QED
        BY <1>4, <3>1 DEF EndQueued
    <2>2. CASE CheckEnded(d)
      <3>1. row = "final" => streams'[d].pc = "ended"
        BY <2>2, Checked
      <3>2. QED
        BY <1>2, <1>4, <3>1 DEF EndQueued
    <2>3. CASE Forward(d)
      <3>1. /\ streams[d].pc = "live" /\ streams[d].queue \in Seq(Message)
            /\ streams[d].queue # <<>> /\ streams'[d].queue = Tail(streams[d].queue)
            /\ Head(streams[d].queue).kind = "completed" => streams'[d].pc = "ended"
        BY <2>3, Forwarded
      <3>2. CASE Head(streams[d].queue) = Completed
        <4>1. streams'[d].pc = "ended"
          BY <3>1, <3>2 DEF Completed
        <4>2. QED
          BY <1>4, <4>1 DEF EndQueued
      <3>3. CASE Head(streams[d].queue) # Completed
        <4>1. Completed \in ToSet(streams[d].queue) => Completed \in ToSet(streams'[d].queue)
          BY <3>1, <3>3, TailKeeps
        <4>2. QED
          BY <1>2, <1>4, <3>1, <4>1 DEF EndQueued
      <3>4. QED
        BY <3>2, <3>3
    <2>4. QED
      BY <2>1, <2>2, <2>3 DEF Stream
  <1>5. QED
    BY <1>3, <1>4

\* Who lives on his queue when the end of a command has been announced has the end
\* before him: its own lines came before it, and nothing is published after it.
THEOREM EndIsQueuedCorrect ==
  Spec => []EndIsQueued
  <1> DEFINE Inv == Base /\ \A c \in Client : EndQueued(c)
  <1>1. Init => Inv
    <2> SUFFICES ASSUME Init PROVE \A c \in Client : EndQueued(c)
      BY InitBase
    <2>1. row = "queued"
      BY DEF Init
    <2>2. QED
      BY <2>1 DEF EndQueued
  <1>2. Inv /\ [Next]_vars => Inv'
    <2> SUFFICES ASSUME Inv, [Next]_vars, NEW c \in Client PROVE EndQueued(c)'
      BY NextBase
    <2>1. CASE StartRun
      BY <2>1 DEF StartRun, EndQueued
    <2>2. CASE LogLine
      BY <2>2 DEF LogLine, EndQueued
    <2>3. CASE LogInside \/ LogQuietly
      BY <2>3 DEF LogInside, LogLater, LogQuietly, EndQueued
    <2>4. CASE Broadcast
      <3>1. action' = "inside"
        BY <2>4, BroadcastStep DEF Broadcast
      <3>2. QED
        BY <3>1 DEF EndQueued
    <2>5. CASE Finish
      <3>1. PICK n \in Nat : n = log
        BY BoundAssumption DEF Base
      <3>2. /\ Completed \in Message /\ Sent(Completed, n)
            /\ Subscribed(c) => streams'[c] = Put(streams[c], Completed)
            /\ ~Subscribed(c) => streams'[c] = streams[c]
        BY <2>5, <3>1, StatusStep
      <3>3. StreamOK(streams[c], n)
        BY <3>1 DEF Base
      <3>4. CASE Subscribed(c)
        <4>1. Completed \in ToSet(streams'[c].queue)
          BY <3>2, <3>3, <3>4, PutLast
        <4>2. QED
          BY <4>1 DEF EndQueued
      <3>5. CASE ~Subscribed(c)
        <4>1. streams'[c].pc # "live"
          BY <3>2, <3>5 DEF Subscribed, Streaming
        <4>2. QED
          BY <4>1 DEF EndQueued
      <3>6. QED
        BY <3>4, <3>5
    <2>6. CASE FinishError
      <3>1. unsaid' = (row = "final") /\ row' = row
        BY <2>6 DEF FinishError
      <3>2. QED
        BY <3>1 DEF EndQueued
    <2>7. CASE SweepStale
      <3>1. row' = "queued" \/ alive' \/ unsaid'
        BY <2>7 DEF SweepStale, Base
      <3>2. QED
        BY <3>1 DEF EndQueued
    <2>8. CASE Requeue
      BY <2>8 DEF Requeue, EndQueued
    <2>9. ASSUME NEW d \in Client, Stream(d)
          PROVE  EndQueued(c)'
      BY <2>9, EndQueuedStream
    <2>10. CASE Over \/ UNCHANGED vars
      BY <2>10 DEF Over, vars, taskVars, EndQueued
    <2>11. CASE LogUnrecorded
      BY <2>11 DEF LogUnrecorded, EndQueued
    <2>12. QED
      BY <2>1, <2>2, <2>3, <2>4, <2>5, <2>6, <2>7, <2>8, <2>9, <2>10, <2>11 DEF Next, Task
  <1>3. Inv => EndIsQueued
    BY DEF EndQueued, EndIsQueued
  <1>4. QED
    BY <1>1, <1>2, <1>3, PTL DEF Spec

-----------------------------------------------------------------------------
(* Nothing falls between the backlog and the queue *)

\* Line n was sent to c, is on its way to it, or is one it does not get.
Accounted(c, n) ==
    \/ n \in ToSet(streams[c].shown) \cup ToSet(streams[c].todo) \cup streams[c].lost
    \/ n \in LinesIn(streams[c].queue)
    \/ n \in quiet \cup ToSet(casts)
    \/ streams[c].pc = "ended" /\ (n > streams[c].until \/ action = "inside")

AllAccounted(c) ==
    streams[c].pc # "off" => \A n \in (streams[c].since + 1)..log : Accounted(c, n)

LEMMA LinesOfQueue ==
  ASSUME NEW q, NEW x
  PROVE  x \in LinesIn(q) <=> x # 0 /\ \E i \in 1..Len(q) : q[i].id = x
  BY DEF LinesIn

\* A put loses no line without noting it, and the line that is put is there.
LEMMA PutLines ==
  ASSUME NEW n \in Nat, NEW s, StreamOK(s, n), NEW m \in Message, Sent(m, n)
  PROVE  /\ LinesIn(s.queue) \subseteq LinesIn(Put(s, m).queue) \cup Put(s, m).lost
         /\ m.id # 0 => m.id \in LinesIn(Put(s, m).queue)
  <1>1. PICK r : r = Put(s, m).queue
    OBVIOUS
  <1>2. /\ EndsWith(r, m)
        /\ \A i \in 1..Len(s.queue) : \/ \E j \in 1..Len(r) : r[j] = s.queue[i]
                                      \/ s.queue[i].id \in {0} \cup Put(s, m).lost
    BY <1>1, PutQueue
  <1>3. ASSUME NEW x \in LinesIn(s.queue)
        PROVE  x \in LinesIn(r) \cup Put(s, m).lost
    <2>1. x # 0 /\ \E i \in 1..Len(s.queue) : s.queue[i].id = x
      BY <1>3, LinesOfQueue
    <2>2. PICK i \in 1..Len(s.queue) : s.queue[i].id = x
      BY <2>1
    <2>3. CASE \E j \in 1..Len(r) : r[j] = s.queue[i]
      <3>1. PICK j \in 1..Len(r) : r[j].id = x
        BY <2>2, <2>3
      <3>2. QED
        BY <2>1, <3>1, LinesOfQueue
    <2>4. CASE s.queue[i].id \in {0} \cup Put(s, m).lost
      BY <2>1, <2>2, <2>4
    <2>5. QED
      BY <1>2, <2>3, <2>4
  <1>4. ASSUME m.id # 0
        PROVE  m.id \in LinesIn(r)
    <2>1. Len(r) \in 1..Len(r) /\ r[Len(r)] = m
      BY <1>2 DEF EndsWith
    <2>2. QED
      BY <1>4, <2>1, LinesOfQueue
  <1>5. QED
    BY <1>1, <1>3, <1>4

\* A message put into every stream leaves each line it held accounted for.
LEMMA PutAccounted ==
  ASSUME Base, NEW c \in Client, NEW n, Accounted(c, n),
         NEW m \in Message, NEW k \in Nat, StreamOK(streams[c], k), Sent(m, k),
         Subscribed(c) => streams'[c] = Put(streams[c], m),
         ~Subscribed(c) => streams'[c] = streams[c],
         UNCHANGED <<action, quiet>>,
         n \in ToSet(casts) => \/ n \in ToSet(casts') \cup LinesIn(streams'[c].queue)
                               \/ streams'[c].pc = "ended" /\ action = "inside"
  PROVE  Accounted(c, n)'
  <1>1. /\ streams'[c].shown = streams[c].shown /\ streams'[c].todo = streams[c].todo
        /\ streams'[c].pc = streams[c].pc /\ streams'[c].until = streams[c].until
        /\ streams[c].lost \subseteq streams'[c].lost
    BY PutQueue
  <1>2. LinesIn(streams[c].queue) \subseteq LinesIn(streams'[c].queue) \cup streams'[c].lost
    BY PutLines
  <1>3. QED
    BY <1>1, <1>2 DEF Accounted

\* A step of one connection leaves the lines of every connection accounted for.
LEMMA AccountedStream ==
  ASSUME Base, NEW d \in Client, Stream(d), NEW c \in Client, AllAccounted(c)
  PROVE  AllAccounted(c)'
  <1>1. OnlyStream(d) /\ Base'
    BY Connected, Replayed, Checked, Forwarded, Disconnected DEF Stream
  <1>2. UNCHANGED <<action, log, quiet, casts>>
    BY <1>1 DEF OnlyStream, taskVars
  <1>3. CASE c # d
    BY <1>1, <1>2, <1>3 DEF OnlyStream, AllAccounted, Accounted
  <1>4. CASE c = d
    <2>1. CASE Disconnect(d)
      <3>1. streams'[d].pc = "off"
        BY <2>1, Disconnected
      <3>2. QED
        BY <1>4, <3>1 DEF AllAccounted
    <2>2. CASE Connect(d)
      <3>1. PICK l \in Nat : l = log
        BY BoundAssumption DEF Base
      <3>2. PICK t \in Stream0(l) : t = streams'[d]
        BY <1>1, <1>2, <3>1 DEF Base
      <3>3. PICK top \in t.since..l : /\ Len(t.todo) = top - t.since
                                      /\ \A i \in 1..Len(t.todo) : t.todo[i] = t.since + i
                                      /\ t.lost = (top + 1)..l
        BY <2>2, <3>1, <3>2, Connected
      <3>4. t.since \in 0..l /\ t.todo \in Seq(1..l)
        BY <3>2 DEF Stream0
      <3>5. ASSUME NEW n \in (t.since + 1)..l
            PROVE  n \in ToSet(t.todo) \cup t.lost
        <4>1. CASE n > top
          BY <3>1, <3>3, <3>4, <4>1
        <4>2. CASE ~(n > top)
          <5>1. n - t.since \in 1..Len(t.todo)
            BY <3>1, <3>3, <3>4, <4>2
          <5>2. t.todo[n - t.since] = n
            BY <3>1, <3>3, <3>4, <5>1
          <5>3. QED
            BY <3>4, <5>1, <5>2, SetElements
        <4>3. QED
          BY <4>1, <4>2
      <3>6. QED
        BY <1>2, <1>4, <3>1, <3>2, <3>5 DEF AllAccounted, Accounted
    <2>3. CASE Replay(d) \/ CheckEnded(d) \/ Forward(d)
      <3>1. /\ streams[d].pc # "off" /\ streams[d].pc # "ended"
            /\ streams'[d].since = streams[d].since
            /\ streams'[d].lost = streams[d].lost
        BY <2>3, Replayed, Checked, Forwarded DEF Replay
      <3>2. PICK l \in Nat : l = log
        BY BoundAssumption DEF Base
      <3>3. StreamOK(streams[d], l) /\ streams[d] \in Stream0(l)
        BY <3>2 DEF Base
      <3>4. ASSUME NEW n \in (streams[d].since + 1)..l
            PROVE  Accounted(d, n)'
        <4>1. Accounted(d, n)
          BY <1>4, <3>1, <3>2, <3>4 DEF AllAccounted
        <4>2. n # 0
          BY <3>2, <3>3, <3>4 DEF Stream0
        <4>3. CASE Replay(d)
          <5>1. PICK h \in 1..l, r \in Seq(1..l), old \in Seq(1..l), shown \in Seq(1..l) :
                   /\ old = streams[d].todo /\ old # <<>> /\ h = Head(old) /\ r = Tail(old)
                   /\ shown = streams[d].shown
                   /\ streams'[d].todo = r /\ streams'[d].shown = Append(shown, h)
                   /\ streams'[d].queue = streams[d].queue
            <6>1. streams[d].shown \in Seq(1..l)
              BY <3>3 DEF Stream0
            <6>2. QED
              BY <3>2, <4>3, <6>1, Replayed, TailElements
          <5>2. ToSet(shown) \cup {h} \subseteq ToSet(Append(shown, h))
            BY AppendSet
          <5>3. n \in ToSet(old) => n \in ToSet(r) \cup {h}
            BY <5>1, TailKeeps
          <5>4. QED
            BY <1>2, <3>1, <4>1, <5>1, <5>2, <5>3 DEF Accounted
        <4>4. CASE CheckEnded(d)
          <5>1. /\ streams'[d].todo = streams[d].todo /\ streams'[d].shown = streams[d].shown
                /\ streams'[d].queue = streams[d].queue
            BY <4>4, Checked
          <5>2. QED
            BY <1>2, <3>1, <4>1, <5>1 DEF Accounted
        <4>5. CASE Forward(d)
          <5>1. PICK q \in Seq(Message), shown \in Seq(1..l), m \in Message, r \in Seq(Message) :
                   /\ q = streams[d].queue /\ q # <<>> /\ m = Head(q) /\ r = Tail(q)
                   /\ shown = streams[d].shown
                   /\ Sent(m, l)
                   /\ streams'[d].queue = r /\ streams'[d].todo = streams[d].todo
                   /\ streams'[d].shown = IF m.kind = "line" THEN Append(shown, m.id) ELSE shown
            <6>1. streams[d].shown \in Seq(1..l)
              BY <3>3 DEF Stream0
            <6>2. /\ streams[d].queue \in Seq(Message) /\ streams[d].queue # <<>>
                  /\ streams'[d].queue = Tail(streams[d].queue)
                  /\ streams'[d].todo = streams[d].todo
                  /\ streams'[d].shown = IF Head(streams[d].queue).kind = "line"
                                         THEN Append(streams[d].shown, Head(streams[d].queue).id)
                                         ELSE streams[d].shown
              BY <4>5, Forwarded
            <6>3. /\ Tail(streams[d].queue) \in Seq(Message) /\ Head(streams[d].queue) \in Message
                  /\ Head(streams[d].queue) = streams[d].queue[1] /\ 1 \in 1..Len(streams[d].queue)
              BY <6>2, TailElements
            <6>4. Sent(Head(streams[d].queue), l)
              BY <3>3, <6>3 DEF StreamOK
            <6>5. QED
              BY <6>1, <6>2, <6>3, <6>4
          <5>2. n \in LinesIn(q) => n = m.id \/ n \in LinesIn(r)
            <6> SUFFICES ASSUME n \in LinesIn(q), n # m.id PROVE n \in LinesIn(r)
              OBVIOUS
            <6>1. \E i \in 1..Len(q) : q[i].id = n
              BY LinesOfQueue
            <6>2. PICK i \in 1..Len(q) : q[i].id = n
              BY <6>1
            <6>3. /\ Len(r) = Len(q) - 1 /\ Len(q) \in Nat /\ q[1] = m
                  /\ \A j \in 1..Len(r) : r[j] = q[j + 1]
              BY <5>1, TailElements
            <6>4. i # 1
              BY <6>2, <6>3
            <6>5. i - 1 \in 1..Len(r) /\ (i - 1) + 1 = i
              BY <6>3, <6>4
            <6>6. r[i - 1].id = n
              BY <6>2, <6>3, <6>5
            <6>7. QED
              BY <4>2, <6>5, <6>6, LinesOfQueue
          <5>3. /\ ToSet(shown) \subseteq ToSet(streams'[d].shown)
                /\ n = m.id => n \in ToSet(streams'[d].shown)
            <6>1. CASE m.kind = "line"
              <7>1. m.id \in 1..l
                BY <5>1, <6>1 DEF Sent
              <7>2. streams'[d].shown = Append(shown, m.id)
                BY <5>1, <6>1
              <7>3. ToSet(shown) \cup {m.id} \subseteq ToSet(Append(shown, m.id))
                BY <7>1, AppendSet
              <7>4. QED
                BY <7>2, <7>3
            <6>2. CASE m.kind # "line"
              <7>1. m.id = 0 /\ streams'[d].shown = shown
                BY <5>1, <6>2 DEF Sent
              <7>2. QED
                BY <4>2, <7>1
            <6>3. QED
              BY <6>1, <6>2
          <5>4. QED
            BY <1>2, <3>1, <4>1, <5>1, <5>2, <5>3 DEF Accounted
        <4>6. QED
          BY <2>3, <4>3, <4>4, <4>5
      <3>5. QED
        BY <1>2, <1>4, <3>1, <3>2, <3>4 DEF AllAccounted
    <2>4. QED
      BY <2>1, <2>2, <2>3 DEF Stream
  <1>5. QED
    BY <1>3, <1>4

\* Whatever a client asked for is sent to it or on its way, is in a queue that is no
\* longer read, was dropped by a limit, or is a line nobody has published.
THEOREM NothingBetweenCorrect ==
  Spec => []NothingBetween
  <1> DEFINE Inv == Base /\ \A c \in Client : AllAccounted(c)
  <1>1. Init => Inv
    <2> SUFFICES ASSUME Init, NEW c \in Client PROVE AllAccounted(c)
      BY InitBase
    <2>1. streams[c].pc = "off"
      BY DEF Init, Closed
    <2>2. QED
      BY <2>1 DEF AllAccounted
  <1>2. Inv /\ [Next]_vars => Inv'
    <2> SUFFICES ASSUME Inv, [Next]_vars, NEW c \in Client PROVE AllAccounted(c)'
      BY NextBase
    <2>1. PICK l \in Nat : l = log
      BY BoundAssumption DEF Base
    <2>2. StreamOK(streams[c], l) /\ casts \in Seq(0..l)
      BY <2>1 DEF Base
    <2>3. CASE StartRun \/ Finish \/ UnrecordedNow
      <3>1. PICK m \in Message :
               /\ Sent(m, l) /\ UNCHANGED <<action, log, quiet, casts>>
               /\ Subscribed(c) => streams'[c] = Put(streams[c], m)
               /\ ~Subscribed(c) => streams'[c] = streams[c]
        BY <2>1, <2>3, StatusStep
      <3>2. \A n : Accounted(c, n) => Accounted(c, n)'
        BY <2>2, <3>1, PutAccounted
      <3>3. streams'[c].pc = streams[c].pc /\ streams'[c].since = streams[c].since
        BY <2>2, <3>1, PutQueue
      <3>4. QED
        BY <2>1, <3>1, <3>2, <3>3 DEF AllAccounted
    <2>4. CASE Broadcast
      <3>1. PICK h \in 0..l : h = Head(casts)
        BY <2>1, <2>4, BroadcastStep
      <3>2. /\ Cast(h) \in Message /\ Sent(Cast(h), l) /\ action = "inside"
            /\ Subscribed(c) => streams'[c] = Put(streams[c], Cast(h))
            /\ ~Subscribed(c) => streams'[c] = streams[c]
        BY <2>1, <2>4, <3>1, BroadcastStep
      <3>3. casts # <<>> /\ casts' = Tail(casts) /\ UNCHANGED <<action, log, quiet>>
        BY <2>4 DEF Broadcast
      <3>4. streams'[c].pc = streams[c].pc /\ streams'[c].since = streams[c].since
        BY <2>2, <3>2, PutQueue
      <3>5. CASE streams[c].pc = "off"
        BY <3>4, <3>5 DEF AllAccounted
      <3>6. CASE streams[c].pc = "ended"
        BY <3>2, <3>3, <3>4, <3>6 DEF AllAccounted, Accounted
      <3>7. CASE Subscribed(c)
        <4>1. h # 0 => Cast(h).id = h
          BY DEF Cast, Line
        <4>2. h # 0 => h \in LinesIn(streams'[c].queue)
          BY <2>2, <3>2, <3>7, <4>1, PutLines
        <4>3. ASSUME NEW n, n # 0, n \in ToSet(casts)
              PROVE  n \in ToSet(casts') \cup LinesIn(streams'[c].queue)
          BY <2>2, <3>1, <3>3, <4>2, <4>3, TailKeeps
        <4>4. \A n : n # 0 /\ Accounted(c, n) => Accounted(c, n)'
          BY <2>2, <3>2, <3>3, <4>3, PutAccounted
        <4>5. \A n \in (streams[c].since + 1)..log : n # 0
          BY <2>2 DEF StreamOK, Stream0
        <4>6. QED
          BY <2>1, <3>3, <3>4, <4>4, <4>5 DEF AllAccounted
      <3>8. QED
        BY <2>2, <3>5, <3>6, <3>7 DEF StreamOK, Stream0, Subscribed, Streaming
    <2>5. CASE LogLine
      <3>1. /\ log' = l + 1 /\ Line(l + 1) \in Message /\ Sent(Line(l + 1), l + 1)
            /\ Subscribed(c) => streams'[c] = Put(streams[c], Line(l + 1))
            /\ ~Subscribed(c) => streams'[c] = streams[c]
            /\ StreamOK(streams[c], l + 1)
        BY <2>1, <2>5, LogLineStep DEF StreamsOK
      <3>2. UNCHANGED <<action, quiet, casts>>
        BY <2>5 DEF LogLine
      <3>3. \A n : Accounted(c, n) => Accounted(c, n)'
        BY <3>1, <3>2, PutAccounted
      <3>4. /\ streams'[c].pc = streams[c].pc /\ streams'[c].since = streams[c].since
            /\ streams'[c].until = streams[c].until
        BY <3>1, PutQueue
      <3>5. streams[c].since \in 0..l /\ streams[c].until \in 0..l
        BY <2>2 DEF StreamOK, Stream0
      <3>6. CASE streams[c].pc = "off"
        BY <3>4, <3>6 DEF AllAccounted
      <3>7. CASE streams[c].pc # "off"
        <4>1. Accounted(c, l + 1)'
          <5>1. CASE Subscribed(c)
            <6>1. l + 1 # 0 /\ Line(l + 1).id = l + 1
              BY DEF Line
            <6>2. l + 1 \in LinesIn(streams'[c].queue)
              BY <3>1, <5>1, <6>1, PutLines
            <6>3. QED
              BY <6>2 DEF Accounted
          <5>2. CASE ~Subscribed(c)
            <6>1. streams[c].pc = "ended"
              BY <2>2, <3>7, <5>2 DEF StreamOK, Stream0, Subscribed
            <6>2. l + 1 > streams'[c].until
              BY <3>4, <3>5
            <6>3. QED
              BY <3>4, <6>1, <6>2 DEF Accounted
          <5>3. QED
            BY <5>1, <5>2
        <4>2. \A n \in (streams[c].since + 1)..(l + 1) :
                 n \in (streams[c].since + 1)..l \/ n = l + 1
          BY <3>5
        <4>3. \A n \in (streams[c].since + 1)..l : Accounted(c, n)
          BY <2>1, <3>7 DEF AllAccounted
        <4>4. QED
          BY <3>1, <3>3, <3>4, <4>1, <4>2, <4>3 DEF AllAccounted
      <3>8. QED
        BY <3>6, <3>7
    <2>6. CASE LogInside \/ LogQuietly
      <3>1. /\ log' = l + 1 /\ UNCHANGED <<action, streams>>
            /\ ToSet(casts) \subseteq ToSet(casts') /\ quiet \subseteq quiet'
            /\ l + 1 \in quiet' \cup ToSet(casts')
        BY <2>1, <2>6, LogUnheardStep
      <3>2. \A n : Accounted(c, n) => Accounted(c, n)'
        BY <3>1 DEF Accounted
      <3>3. Accounted(c, l + 1)'
        BY <3>1 DEF Accounted
      <3>4. streams[c].since \in 0..l
        BY <2>2 DEF StreamOK, Stream0
      <3>5. \A n \in (streams[c].since + 1)..(l + 1) :
               n \in (streams[c].since + 1)..l \/ n = l + 1
        BY <3>4
      <3>6. QED
        BY <2>1, <3>1, <3>2, <3>3, <3>5 DEF AllAccounted
    <2>7. CASE FinishError \/ SweepStale \/ Requeue \/ Over \/ UNCHANGED vars
      <3>1. UNCHANGED <<action, log, quiet, casts, streams>>
        BY <2>7 DEF FinishError, SweepStale, Requeue, Over, vars, taskVars
      <3>2. QED
        BY <3>1 DEF AllAccounted, Accounted
    <2>8. ASSUME NEW d \in Client, Stream(d)
          PROVE  AllAccounted(c)'
      BY <2>8, AccountedStream
    <2>9. CASE LogUnrecorded /\ action # "process"
      <3>1. UNCHANGED <<action, log, quiet, streams>> /\ ToSet(casts) \subseteq ToSet(casts')
        BY <2>9, UnrecordedCast
      <3>2. QED
        BY <3>1 DEF AllAccounted, Accounted
    <2>10. QED
      BY <2>3, <2>4, <2>5, <2>6, <2>7, <2>8, <2>9 DEF Next, Task, UnrecordedNow
  <1>3. Inv => NothingBetween
    BY DEF AllAccounted, Accounted, NothingBetween
  <1>4. QED
    BY <1>1, <1>2, <1>3, PTL DEF Spec

-----------------------------------------------------------------------------
(* A command's lines are in order *)

Increasing(q) == \A i, j \in 1..Len(q) : i < j => q[i] < q[j]

\* The lines of a queue, among which announcements may stand.
Rising(q) ==
    \A i, j \in 1..Len(q) :
        i < j /\ q[i].kind = "line" /\ q[j].kind = "line" => q[i].id < q[j].id

Before(a, b) == \A i \in 1..Len(a) : \A j \in 1..Len(b) : a[i] < b[j]

BeforeQueue(a, q) ==
    \A i \in 1..Len(a) : \A j \in 1..Len(q) : q[j].kind = "line" => a[i] < q[j].id

\* What is shown comes before what is to be shown, which comes before what is queued.
Ordered(s) ==
    /\ Increasing(s.shown) /\ Increasing(s.todo) /\ Before(s.shown, s.todo)
    /\ Rising(s.queue) /\ BeforeQueue(s.shown, s.queue) /\ BeforeQueue(s.todo, s.queue)

\* A line later than the log so far, or no line, keeps the order.
LEMMA PutOrdered ==
  ASSUME NEW n \in Nat, NEW s, StreamOK(s, n), Ordered(s),
         NEW k \in {n, n + 1}, NEW m \in Message, Sent(m, k),
         m.kind = "line" => m.id = n + 1
  PROVE  Ordered(Put(s, m))
  <1>1. StreamOK(s, k)
    BY LaterLog
  <1>2. k \in Nat
    OBVIOUS
  <1>3. /\ s.shown \in Seq(1..n) /\ s.todo \in Seq(1..n) /\ s.queue \in Seq(Message)
        /\ \A i \in 1..Len(s.queue) : Sent(s.queue[i], n)
    BY DEF StreamOK, Stream0
  <1>4. PICK r : r = Put(s, m).queue
    OBVIOUS
  <1>5. /\ Put(s, m).shown = s.shown /\ Put(s, m).todo = s.todo
        /\ EndsWith(r, m) /\ \E d \in 0..1 : Shifted(r, s.queue, d)
    BY <1>1, <1>2, <1>4, PutQueue
  <1>6. PICK d \in 0..1 : \A i \in 1..(Len(r) - 1) :
                             i + d \in 1..Len(s.queue) /\ r[i] = s.queue[i + d]
    BY <1>5 DEF Shifted
  <1>7. Len(r) \in Nat \ {0} /\ r[Len(r)] = m
    BY <1>5 DEF EndsWith
  <1>8. \A i \in 1..Len(s.queue) : s.queue[i].kind = "line" => s.queue[i].id \in 1..n
    BY <1>3 DEF Sent
  <1>9. Rising(r)
    <2> SUFFICES ASSUME NEW i \in 1..Len(r), NEW j \in 1..Len(r),
                        i < j, r[i].kind = "line", r[j].kind = "line"
                 PROVE  r[i].id < r[j].id
      BY DEF Rising
    <2>1. i \in 1..(Len(r) - 1) /\ i + d \in 1..Len(s.queue) /\ r[i] = s.queue[i + d]
      BY <1>6, <1>7
    <2>2. CASE j = Len(r)
      <3>1. r[i].id \in 1..n
        BY <1>8, <2>1
      <3>2. QED
        BY <1>7, <2>2, <3>1
    <2>3. CASE j # Len(r)
      <3>1. j \in 1..(Len(r) - 1) /\ j + d \in 1..Len(s.queue) /\ r[j] = s.queue[j + d]
        BY <1>6, <1>7, <2>3
      <3>2. i + d < j + d
        BY <2>1, <3>1
      <3>3. QED
        BY <2>1, <3>1, <3>2 DEF Ordered, Rising
    <2>4. QED
      BY <2>2, <2>3
  <1>10. ASSUME NEW a \in Seq(1..n), BeforeQueue(a, s.queue)
         PROVE  BeforeQueue(a, r)
    <2> SUFFICES ASSUME NEW i \in 1..Len(a), NEW j \in 1..Len(r), r[j].kind = "line"
                 PROVE  a[i] < r[j].id
      BY DEF BeforeQueue
    <2>1. a[i] \in 1..n
      OBVIOUS
    <2>2. CASE j = Len(r)
      BY <1>7, <2>1, <2>2
    <2>3. CASE j # Len(r)
      <3>1. j \in 1..(Len(r) - 1) /\ j + d \in 1..Len(s.queue) /\ r[j] = s.queue[j + d]
        BY <1>6, <1>7, <2>3
      <3>2. QED
        BY <1>10, <3>1 DEF BeforeQueue
    <2>4. QED
      BY <2>2, <2>3
  <1>11. QED
    BY <1>3, <1>4, <1>5, <1>9, <1>10 DEF Ordered

\* A later number at the end of an increasing sequence.
LEMMA AppendIncreasing ==
  ASSUME NEW n \in Nat, NEW a \in Seq(1..n), NEW x \in 1..n, Increasing(a),
         \A i \in 1..Len(a) : a[i] < x
  PROVE  Increasing(Append(a, x))
  <1>1. PICK b \in Seq(1..n) : /\ b = Append(a, x) /\ Len(b) = Len(a) + 1
                               /\ b[Len(a) + 1] = x /\ Len(a) \in Nat
                               /\ \A i \in 1..Len(a) : b[i] = a[i]
    <2>1. /\ Append(a, x) \in Seq(1..n) /\ Len(Append(a, x)) = Len(a) + 1 /\ Len(a) \in Nat
          /\ Append(a, x)[Len(a) + 1] = x
          /\ \A i \in 1..Len(a) : Append(a, x)[i] = a[i]
      BY AppendElements
    <2>2. QED
      BY <2>1
  <1>2. ASSUME NEW i \in 1..Len(b), NEW j \in 1..Len(b), i < j
        PROVE  b[i] < b[j]
    <2>1. i \in 1..Len(a) /\ b[i] = a[i]
      BY <1>1, <1>2
    <2>2. CASE j = Len(a) + 1
      BY <1>1, <2>1, <2>2
    <2>3. CASE j # Len(a) + 1
      <3>1. j \in 1..Len(a) /\ b[j] = a[j]
        BY <1>1, <2>3
      <3>2. QED
        BY <1>2, <2>1, <3>1 DEF Increasing
    <2>4. QED
      BY <2>2, <2>3
  <1>3. QED
    BY <1>1, <1>2 DEF Increasing

\* Every element of Append(a, x) is one of a, or x.
LEMMA AppendCases ==
  ASSUME NEW T, NEW a \in Seq(T), NEW x \in T, NEW i \in 1..Len(Append(a, x))
  PROVE  \/ i \in 1..Len(a) /\ Append(a, x)[i] = a[i]
         \/ Append(a, x)[i] = x
  <1>1. /\ Len(Append(a, x)) = Len(a) + 1 /\ Len(a) \in Nat
        /\ Append(a, x)[Len(a) + 1] = x
        /\ \A j \in 1..Len(a) : Append(a, x)[j] = a[j]
    BY AppendElements
  <1>2. i \in 1..Len(a) \/ i = Len(a) + 1
    BY <1>1
  <1>3. QED
    BY <1>1, <1>2

\* The first line of the backlog is shown.
LEMMA ReplayOrdered ==
  ASSUME NEW n \in Nat, NEW a \in Seq(1..n), NEW b \in Seq(1..n), b # <<>>,
         NEW q \in Seq(Message),
         Increasing(a), Increasing(b), Before(a, b), Rising(q), BeforeQueue(a, q), BeforeQueue(b, q)
  PROVE  /\ Increasing(Append(a, Head(b))) /\ Increasing(Tail(b))
         /\ Before(Append(a, Head(b)), Tail(b))
         /\ BeforeQueue(Append(a, Head(b)), q) /\ BeforeQueue(Tail(b), q)
  <1>1. PICK t \in Seq(1..n), h \in 1..n :
           /\ t = Tail(b) /\ h = Head(b) /\ h = b[1] /\ 1 \in 1..Len(b)
           /\ \A i \in 1..Len(t) : i + 1 \in 1..Len(b) /\ t[i] = b[i + 1]
    <2>1. /\ Tail(b) \in Seq(1..n) /\ Head(b) \in 1..n /\ Head(b) = b[1] /\ 1 \in 1..Len(b)
          /\ \A i \in 1..Len(Tail(b)) : i + 1 \in 1..Len(b) /\ Tail(b)[i] = b[i + 1]
      BY TailElements
    <2>2. QED
      BY <2>1
  <1>2. PICK c \in Seq(1..n) : c = Append(a, h)
    BY AppendElements
  <1>3. \A i \in 1..Len(c) : (i \in 1..Len(a) /\ c[i] = a[i]) \/ c[i] = h
    BY <1>2, AppendCases
  <1>4. \A i \in 1..Len(a) : a[i] < h
    BY <1>1 DEF Before
  <1>5. Increasing(c)
    BY <1>2, <1>4, AppendIncreasing
  <1>6. Increasing(t)
    <2> SUFFICES ASSUME NEW i \in 1..Len(t), NEW j \in 1..Len(t), i < j PROVE t[i] < t[j]
      BY DEF Increasing
    <2>1. i + 1 \in 1..Len(b) /\ j + 1 \in 1..Len(b) /\ i + 1 < j + 1
      BY <1>1
    <2>2. b[i + 1] < b[j + 1]
      BY <2>1 DEF Increasing
    <2>3. QED
      BY <1>1, <2>2
  <1>7. ASSUME NEW j \in 1..Len(t)
        PROVE  h < t[j] /\ \A i \in 1..Len(a) : a[i] < t[j]
    <2>1. j + 1 \in 1..Len(b) /\ 1 < j + 1 /\ t[j] = b[j + 1]
      BY <1>1
    <2>2. h < b[j + 1]
      BY <1>1, <2>1 DEF Increasing
    <2>3. QED
      BY <2>1, <2>2 DEF Before
  <1>8. Before(c, t)
    BY <1>3, <1>7 DEF Before
  <1>9. BeforeQueue(c, q)
    BY <1>1, <1>3 DEF BeforeQueue
  <1>10. BeforeQueue(t, q)
    BY <1>1 DEF BeforeQueue
  <1>11. QED
    BY <1>1, <1>2, <1>5, <1>6, <1>8, <1>9, <1>10

\* The first message of the queue is shown, or is no line.
LEMMA ForwardOrdered ==
  ASSUME NEW n \in Nat, NEW a \in Seq(1..n), NEW q \in Seq(Message), q # <<>>,
         Sent(Head(q), n),
         Increasing(a), Rising(q), BeforeQueue(a, q)
  PROVE  /\ Rising(Tail(q)) /\ BeforeQueue(a, Tail(q))
         /\ Head(q).kind = "line" => /\ Increasing(Append(a, Head(q).id))
                                     /\ BeforeQueue(Append(a, Head(q).id), Tail(q))
  <1>1. PICK t \in Seq(Message), m \in Message :
           /\ t = Tail(q) /\ m = Head(q) /\ m = q[1] /\ 1 \in 1..Len(q) /\ Sent(m, n)
           /\ \A i \in 1..Len(t) : i + 1 \in 1..Len(q) /\ t[i] = q[i + 1]
    <2>1. /\ Tail(q) \in Seq(Message) /\ Head(q) \in Message /\ Head(q) = q[1] /\ 1 \in 1..Len(q)
          /\ \A i \in 1..Len(Tail(q)) : i + 1 \in 1..Len(q) /\ Tail(q)[i] = q[i + 1]
      BY TailElements
    <2>2. QED
      BY <2>1
  <1>2. Rising(t)
    <2> SUFFICES ASSUME NEW i \in 1..Len(t), NEW j \in 1..Len(t),
                        i < j, t[i].kind = "line", t[j].kind = "line"
                 PROVE  t[i].id < t[j].id
      BY DEF Rising
    <2>1. i + 1 \in 1..Len(q) /\ j + 1 \in 1..Len(q) /\ i + 1 < j + 1
      BY <1>1
    <2>2. q[i + 1].id < q[j + 1].id
      BY <1>1, <2>1 DEF Rising
    <2>3. QED
      BY <1>1, <2>2
  <1>3. BeforeQueue(a, t)
    BY <1>1 DEF BeforeQueue
  <1>4. ASSUME m.kind = "line"
        PROVE  Increasing(Append(a, m.id)) /\ BeforeQueue(Append(a, m.id), t)
    <2>1. m.id \in 1..n
      BY <1>1, <1>4 DEF Sent
    <2>2. \A i \in 1..Len(a) : a[i] < m.id
      BY <1>1, <1>4 DEF BeforeQueue
    <2>3. Increasing(Append(a, m.id))
      BY <2>1, <2>2, AppendIncreasing
    <2>4. \A i \in 1..Len(Append(a, m.id)) :
             (i \in 1..Len(a) /\ Append(a, m.id)[i] = a[i]) \/ Append(a, m.id)[i] = m.id
      BY <2>1, AppendCases
    <2>5. \A j \in 1..Len(t) : t[j].kind = "line" => m.id < t[j].id
      <3> SUFFICES ASSUME NEW j \in 1..Len(t), t[j].kind = "line" PROVE m.id < t[j].id
        OBVIOUS
      <3>1. j + 1 \in 1..Len(q) /\ 1 < j + 1 /\ t[j] = q[j + 1]
        BY <1>1
      <3>2. QED
        BY <1>1, <1>4, <3>1 DEF Rising
    <2>6. QED
      BY <1>3, <2>3, <2>4, <2>5 DEF BeforeQueue
  <1>5. QED
    BY <1>1, <1>2, <1>3, <1>4

\* Two increasing sequences one after the other.
LEMMA ConcatIncreasing ==
  ASSUME NEW n \in Nat, NEW a \in Seq(1..n), NEW b \in Seq(1..n), NEW q,
         Increasing(a), Increasing(b), Before(a, b), BeforeQueue(a, q), BeforeQueue(b, q)
  PROVE  Increasing(a \o b) /\ BeforeQueue(a \o b, q)
  <1>1. PICK c \in Seq(1..n) :
           /\ c = a \o b /\ Len(c) = Len(a) + Len(b) /\ Len(a) \in Nat /\ Len(b) \in Nat
           /\ \A i \in 1..Len(c) : c[i] = IF i <= Len(a) THEN a[i] ELSE b[i - Len(a)]
    <2>1. /\ a \o b \in Seq(1..n) /\ Len(a \o b) = Len(a) + Len(b)
          /\ Len(a) \in Nat /\ Len(b) \in Nat
          /\ \A i \in 1..Len(a \o b) :
                (a \o b)[i] = IF i <= Len(a) THEN a[i] ELSE b[i - Len(a)]
      OBVIOUS
    <2>2. QED
      BY <2>1
  <1>2. ASSUME NEW i \in 1..Len(c)
        PROVE  \/ i \in 1..Len(a) /\ c[i] = a[i]
               \/ i > Len(a) /\ i - Len(a) \in 1..Len(b) /\ c[i] = b[i - Len(a)]
    BY <1>1
  <1>3. ASSUME NEW i \in 1..Len(c), NEW j \in 1..Len(c), i < j
        PROVE  c[i] < c[j]
    <2>1. CASE i \in 1..Len(a) /\ j \in 1..Len(a)
      BY <1>1, <1>3, <2>1 DEF Increasing
    <2>2. CASE i \in 1..Len(a) /\ ~(j \in 1..Len(a))
      BY <1>1, <1>2, <2>2 DEF Before
    <2>3. CASE ~(i \in 1..Len(a))
      <3>1. /\ i - Len(a) \in 1..Len(b) /\ c[i] = b[i - Len(a)]
            /\ j - Len(a) \in 1..Len(b) /\ c[j] = b[j - Len(a)]
            /\ i - Len(a) < j - Len(a)
        BY <1>1, <1>2, <1>3, <2>3
      <3>2. QED
        BY <3>1 DEF Increasing
    <2>4. QED
      BY <2>1, <2>2, <2>3
  <1>4. BeforeQueue(c, q)
    BY <1>2 DEF BeforeQueue
  <1>5. QED
    BY <1>1, <1>3, <1>4 DEF Increasing

\* A step of one connection keeps the order of every connection.
LEMMA OrderedStream ==
  ASSUME Base, NEW d \in Client, Stream(d), NEW c \in Client, Ordered(streams[c])
  PROVE  Ordered(streams'[c])
  <1>1. OnlyStream(d)
    BY Connected, Replayed, Checked, Forwarded, Disconnected DEF Stream
  <1>2. CASE c # d
    BY <1>1, <1>2 DEF OnlyStream
  <1>3. CASE c = d
    <2>1. PICK n \in Nat : n = log
      BY BoundAssumption DEF Base
    <2>2. PICK s \in Stream0(n) : s = streams[d] /\ StreamOK(s, n) /\ Ordered(s)
      BY <1>3, <2>1 DEF Base
    <2>3. /\ s.shown \in Seq(1..n) /\ s.todo \in Seq(1..n) /\ s.queue \in Seq(Message)
          /\ \A i \in 1..Len(s.queue) : Sent(s.queue[i], n)
      BY <2>2 DEF StreamOK, Stream0
    <2>4. /\ Increasing(s.shown) /\ Increasing(s.todo) /\ Before(s.shown, s.todo)
          /\ Rising(s.queue) /\ BeforeQueue(s.shown, s.queue) /\ BeforeQueue(s.todo, s.queue)
      BY <2>2 DEF Ordered
    <2>5. PICK t : t = streams'[d]
      OBVIOUS
    <2>6. CASE Disconnect(d)
      <3>1. t.todo = <<>> /\ t.queue = <<>> /\ t.shown = <<>>
        BY <2>5, <2>6, Disconnected
      <3>2. QED
        BY <1>3, <2>5, <3>1 DEF Ordered, Increasing, Before, Rising, BeforeQueue
    <2>7. CASE Connect(d)
      <3>1. t.queue = <<>> /\ t.shown = <<>> /\ t.since \in 0..n
        BY <2>1, <2>5, <2>7, Connected
      <3>2. \E top \in t.since..n :
               /\ Len(t.todo) = top - t.since
               /\ \A i \in 1..Len(t.todo) : t.todo[i] = t.since + i
        BY <2>1, <2>5, <2>7, Connected
      <3>3. Increasing(t.todo)
        BY <3>1, <3>2 DEF Increasing
      <3>4. QED
        BY <1>3, <2>5, <3>1, <3>3 DEF Ordered, Increasing, Before, Rising, BeforeQueue
    <2>8. CASE Replay(d)
      <3>1. /\ s.todo # <<>> /\ t.queue = s.queue /\ t.todo = Tail(s.todo)
            /\ t.shown = Append(s.shown, Head(s.todo))
        BY <2>2, <2>5, <2>8, Replayed
      <3>2. /\ Increasing(Append(s.shown, Head(s.todo))) /\ Increasing(Tail(s.todo))
            /\ Before(Append(s.shown, Head(s.todo)), Tail(s.todo))
            /\ BeforeQueue(Append(s.shown, Head(s.todo)), s.queue)
            /\ BeforeQueue(Tail(s.todo), s.queue)
        BY <2>3, <2>4, <3>1, ReplayOrdered
      <3>3. QED
        BY <1>3, <2>4, <2>5, <3>1, <3>2 DEF Ordered
    <2>9. CASE CheckEnded(d)
      <3>1. t.queue = s.queue /\ t.todo = s.todo /\ t.shown = s.shown
        BY <2>2, <2>5, <2>9, Checked
      <3>2. QED
        BY <1>3, <2>4, <2>5, <3>1 DEF Ordered
    <2>10. CASE Forward(d)
      <3>1. /\ s.queue # <<>> /\ s.todo = <<>> /\ t.todo = <<>> /\ t.queue = Tail(s.queue)
            /\ t.shown = IF Head(s.queue).kind = "line"
                         THEN Append(s.shown, Head(s.queue).id) ELSE s.shown
        BY <2>2, <2>5, <2>10, Forwarded
      <3>2. Head(s.queue) = s.queue[1] /\ 1 \in 1..Len(s.queue)
        BY <2>3, <3>1, TailElements
      <3>3. Sent(Head(s.queue), n)
        BY <2>3, <3>2
      <3>4. /\ Rising(Tail(s.queue)) /\ BeforeQueue(s.shown, Tail(s.queue))
            /\ Head(s.queue).kind = "line" =>
                  /\ Increasing(Append(s.shown, Head(s.queue).id))
                  /\ BeforeQueue(Append(s.shown, Head(s.queue).id), Tail(s.queue))
        BY <2>3, <2>4, <3>1, <3>3, ForwardOrdered
      <3>5. Increasing(t.shown) /\ BeforeQueue(t.shown, t.queue) /\ Rising(t.queue)
        BY <2>4, <3>1, <3>4
      <3>6. QED
        BY <1>3, <2>5, <3>1, <3>5 DEF Ordered, Increasing, Before, BeforeQueue
    <2>11. QED
      BY <2>6, <2>7, <2>8, <2>9, <2>10 DEF Stream
  <1>4. QED
    BY <1>2, <1>3

\* A stream of a command's output shows its lines in the order of the log and none
\* twice, however the backlog, the queue and its overflow meet.
THEOREM InOrderCorrect ==
  Spec => []InOrder
  <1> DEFINE Inv == Base /\ (action = "process" => \A c \in Client : Ordered(streams[c]))
  <1>1. Init => Inv
    <2> SUFFICES ASSUME Init, NEW c \in Client PROVE Ordered(streams[c])
      BY InitBase
    <2>1. streams[c].shown = <<>> /\ streams[c].todo = <<>> /\ streams[c].queue = <<>>
      BY DEF Init, Closed
    <2>2. QED
      BY <2>1 DEF Ordered, Increasing, Before, Rising, BeforeQueue
  <1>2. Inv /\ [Next]_vars => Inv'
    <2> SUFFICES ASSUME Inv, [Next]_vars, action' = "process", NEW c \in Client
                 PROVE  Ordered(streams'[c])
      BY NextBase
    <2>1. action = "process"
      BY DEF Next, Task, StartRun, LogLine, LogInside, LogLater, Broadcast, LogQuietly, Finish,
             LogUnrecorded, FinishError, SweepStale, Requeue, Stream, Connect, Replay, CheckEnded, Forward,
             Disconnect, Over, vars, taskVars
    <2>2. Ordered(streams[c])
      BY <2>1
    <2>3. PICK n \in Nat : n = log
      BY BoundAssumption DEF Base
    <2>4. StreamOK(streams[c], n)
      BY <2>3 DEF Base
    <2>5. CASE StartRun \/ Finish \/ UnrecordedNow
      <3>1. PICK m \in Message :
               /\ Sent(m, n) /\ m.kind # "line"
               /\ Subscribed(c) => streams'[c] = Put(streams[c], m)
               /\ ~Subscribed(c) => streams'[c] = streams[c]
        BY <2>3, <2>5, StatusStep
      <3>2. Ordered(Put(streams[c], m))
        BY <2>2, <2>4, <3>1, PutOrdered
      <3>3. QED
        BY <2>2, <3>1, <3>2
    <2>6. CASE LogLine
      <3>1. /\ Line(n + 1) \in Message /\ Sent(Line(n + 1), n + 1)
            /\ Subscribed(c) => streams'[c] = Put(streams[c], Line(n + 1))
            /\ ~Subscribed(c) => streams'[c] = streams[c]
        BY <2>3, <2>6, LogLineStep
      <3>2. Line(n + 1).id = n + 1
        BY DEF Line
      <3>3. Ordered(Put(streams[c], Line(n + 1)))
        BY <2>2, <2>4, <3>1, <3>2, PutOrdered
      <3>4. QED
        BY <2>2, <3>1, <3>3
    <2>7. CASE LogInside \/ LogQuietly \/ FinishError \/ SweepStale \/ Requeue \/ Over
               \/ UNCHANGED vars
      <3>1. UNCHANGED streams
        BY <2>7 DEF LogInside, LogLater, LogQuietly, FinishError, SweepStale, Requeue, Over, vars
      <3>2. QED
        BY <2>2, <3>1
    <2>8. CASE Broadcast
      BY <2>1, <2>8, BroadcastStep
    <2>9. ASSUME NEW d \in Client, Stream(d)
          PROVE  Ordered(streams'[c])
      BY <2>2, <2>9, OrderedStream
    <2>10. QED
      BY <2>1, <2>5, <2>6, <2>7, <2>8, <2>9 DEF Next, Task, UnrecordedNow
  <1>3. Inv => InOrder
    <2> SUFFICES ASSUME Inv, action = "process", NEW c \in Client
                 PROVE  LET s       == streams[c]
                            backlog == s.shown \o s.todo
                            live    == {i \in 1..Len(s.queue) : s.queue[i].kind = "line"}
                        IN /\ \A i, j \in 1..Len(backlog) : i < j => backlog[i] < backlog[j]
                           /\ \A i, j \in live : i < j => s.queue[i].id < s.queue[j].id
                           /\ \A i \in 1..Len(backlog) : \A j \in live :
                                 backlog[i] < s.queue[j].id
      BY DEF InOrder
    <2>1. PICK n \in Nat : n = log
      BY BoundAssumption DEF Base
    <2>2. PICK s : s = streams[c] /\ StreamOK(s, n) /\ Ordered(s)
      BY <2>1 DEF Base
    <2>3. s.shown \in Seq(1..n) /\ s.todo \in Seq(1..n)
      BY <2>2 DEF StreamOK, Stream0
    <2>4. /\ Increasing(s.shown) /\ Increasing(s.todo) /\ Before(s.shown, s.todo)
          /\ Rising(s.queue) /\ BeforeQueue(s.shown, s.queue) /\ BeforeQueue(s.todo, s.queue)
      BY <2>2 DEF Ordered
    <2>5. Increasing(s.shown \o s.todo) /\ BeforeQueue(s.shown \o s.todo, s.queue)
      BY <2>3, <2>4, ConcatIncreasing
    <2>6. QED
      BY <2>2, <2>4, <2>5 DEF Increasing, Rising, BeforeQueue
  <1>4. QED
    BY <1>1, <1>2, <1>3, PTL DEF Spec
=============================================================================

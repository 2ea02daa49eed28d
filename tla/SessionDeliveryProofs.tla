----------------------- MODULE SessionDeliveryProofs -----------------------
(***************************************************************************)
(* For any number of requests, deaths and remounts: a conversation has one *)
(* watcher, the registered one (OneWatcher), and a result is posted again  *)
(* only where nobody could know that it was posted (NoRepeat).             *)
(*                                                                         *)
(* OneWatcher alone is not inductive. A watcher that starts cancels the    *)
(* one it finds registered and nobody else, so there must be no other: the *)
(* entry of a conversation leads to one of its own watchers that has begun *)
(* (Registered), what waits to start waits once (Queued), and a request    *)
(* mounts a watcher when it returns, which it does once (Mounts).          *)
(*                                                                         *)
(* NoRepeat needs, beside that, that a request reads behind everything     *)
(* posted before it began, from its start_step, and in a conversation it   *)
(* opens there was nothing to post (SeenBefore, Opened); and that nothing  *)
(* of the conversation is recorded while its row is active or a watcher    *)
(* mounted again is at work (Unrecorded): a watcher that records a         *)
(* delivery polls when no watcher waits to start (AllQueued), and is the   *)
(* only one of the conversation (OneWatcher).                              *)
(***************************************************************************)
EXTENDS SessionDelivery, SequenceTheorems, FiniteSetTheorems, TLAPS

Stage == {"waiting", "sending", "creating", "done"}
WatcherType(S) == [conv : Conversation \cup {Nobody}, start : S,
                   state : {"none", "created", "running", "cancelled"}]
TargetType(S)  == [conv : Conversation \cup {Nobody}, start : S]
RowType == [conv : Conversation, status : {"active", "completed", "failed"}] \cup {Nobody}

Begun(w) == watcher[w].state \in {"running", "cancelled"}

Queued ==
    /\ ready \in Seq(Watcher)
    /\ \A i \in 1..Len(ready) : watcher[ready[i]].state = "created"
    /\ \A i, j \in 1..Len(ready) : ready[i] = ready[j] => i = j

Registered ==
    /\ registry \in [Conversation -> Watcher \cup {Nobody}]
    /\ \A w \in Watcher : watcher[w].state # "none" => watcher[w].conv \in Conversation
    /\ \A c \in Conversation : registry[c] # Nobody =>
          Begun(registry[c]) /\ watcher[registry[c]].conv = c

Mounts ==
    /\ stage \in [Request -> Stage]
    /\ \A r \in Request : stage[r] = "sending" => target[r].conv \in Conversation
    /\ \A r \in Request : watcher[r].state # "none" => stage[r] = "done"

Shape == \E S : watcher \in [Watcher -> WatcherType(S)] /\ target \in [Request -> TargetType(S)]

WatchInv == Shape /\ row \in RowType /\ Queued /\ Registered /\ Mounts /\ OneWatcher

----------------------------------------------------------------------------
(* Cancelling, launching, ending *)

\* Cancelling the watcher of one conversation changes the state of a registered
\* watcher from begun to cancelled, and leaves none of the conversation running.
Softened(v) ==
    \A w \in Watcher :
        /\ v[w].conv = watcher[w].conv
        /\ v[w].state = watcher[w].state \/ (Begun(w) /\ v[w].state = "cancelled")

LEMMA CancelledSoftens ==
  ASSUME NEW S, watcher \in [Watcher -> WatcherType(S)], Registered, OneWatcher,
         NEW c \in Conversation
  PROVE  /\ Cancelled(c) \in [Watcher -> WatcherType(S)]
         /\ Softened(Cancelled(c))
         /\ \A w \in Watcher : Cancelled(c)[w].state = "running" => watcher[w].conv # c
  <1>1. CASE registry[c] = Nobody
    <2>1. Cancelled(c) = watcher
      BY <1>1 DEF Cancelled
    <2>2. ASSUME NEW w \in Watcher, watcher[w].state = "running"
          PROVE  watcher[w].conv # c
      BY <1>1, <2>2, NameAssumption DEF OneWatcher, Running
    <2>3. QED
      BY <2>1, <2>2 DEF Softened
  <1>2. CASE registry[c] # Nobody
    <2>1. PICK r \in Watcher : r = registry[c]
      BY <1>2 DEF Registered
    <2>2. Begun(r) /\ watcher[r].conv = c
      BY <1>2, <2>1 DEF Registered
    <2>3. watcher[r] \in WatcherType(S)
      BY <2>1
    <2>4. PICK rec \in WatcherType(S) : /\ rec.conv = watcher[r].conv /\ rec.state = "cancelled"
                                        /\ rec = [watcher[r] EXCEPT !.state = "cancelled"]
      BY <2>3 DEF WatcherType
    <2>5. Cancelled(c) = [watcher EXCEPT ![r] = rec]
      BY <1>2, <2>1, <2>4 DEF Cancelled
    <2>6. Cancelled(c) \in [Watcher -> WatcherType(S)]
      BY <2>1, <2>4, <2>5
    <2>7. \A w \in Watcher : Cancelled(c)[w] = IF w = r THEN rec ELSE watcher[w]
      BY <2>1, <2>5
    <2>8. Softened(Cancelled(c))
      BY <2>2, <2>4, <2>7 DEF Softened
    <2>9. ASSUME NEW w \in Watcher, Cancelled(c)[w].state = "running"
          PROVE  watcher[w].conv # c
      <3>1. w # r
        BY <2>4, <2>7, <2>9
      <3>2. Running(w)
        BY <2>7, <2>9, <3>1 DEF Running
      <3>3. QED
        BY <2>1, <3>1, <3>2 DEF OneWatcher
    <2>10. QED
      BY <2>6, <2>8, <2>9
  <1>3. QED
    BY <1>1, <1>2

\* Watchers that were softened and nothing else keep the invariant.
LEMMA SoftenedWatch ==
  ASSUME Queued, Registered, OneWatcher, Softened(watcher'), UNCHANGED <<ready, registry>>
  PROVE  /\ Queued' /\ Registered' /\ OneWatcher'
         /\ \A w \in Watcher : (watcher'[w].state # "none") = (watcher[w].state # "none")
  <1>1. \A w \in Watcher : (watcher'[w].state # "none") = (watcher[w].state # "none")
    BY DEF Softened, Begun
  <1>2. Queued'
    <2>1. ASSUME NEW i \in 1..Len(ready)
          PROVE  watcher'[ready[i]].state = "created"
      <3>1. PICK w \in Watcher : w = ready[i]
        BY DEF Queued
      <3>2. watcher[w].state = "created"
        BY <3>1 DEF Queued
      <3>3. QED
        BY <3>1, <3>2 DEF Softened, Begun
    <2>2. QED
      BY <2>1 DEF Queued
  <1>3. Registered'
    <2>1. \A w \in Watcher : watcher'[w].state # "none" => watcher'[w].conv \in Conversation
      BY <1>1 DEF Registered, Softened
    <2>2. ASSUME NEW c \in Conversation, registry[c] # Nobody
          PROVE  Begun(registry[c])' /\ watcher'[registry[c]].conv = c
      <3>1. PICK r \in Watcher : r = registry[c]
        BY <2>2 DEF Registered
      <3>2. Begun(r) /\ watcher[r].conv = c
        BY <2>2, <3>1 DEF Registered
      <3>3. watcher'[r].state \in {"running", "cancelled"} /\ watcher'[r].conv = c
        BY <3>2 DEF Softened, Begun
      <3>4. QED
        BY <3>1, <3>3 DEF Begun
    <2>3. QED
      BY <2>1, <2>2 DEF Registered
  <1>4. OneWatcher'
    BY DEF OneWatcher, Running, Softened
  <1>5. QED
    BY <1>1, <1>2, <1>3, <1>4

\* A watcher that did not exist is created and queued.
LEMMA Launched ==
  ASSUME NEW S, NEW v \in [Watcher -> WatcherType(S)], Softened(v),
         Queued, Registered, OneWatcher,
         NEW w \in Watcher, NEW c \in Conversation, NEW start,
         watcher[w].state = "none",
         Launch(w, c, start, v), UNCHANGED registry
  PROVE  /\ watcher' \in [Watcher -> WatcherType(S \cup {start})]
         /\ Queued' /\ Registered' /\ OneWatcher'
         /\ \A x \in Watcher \ {w} : (watcher'[x].state # "none") = (watcher[x].state # "none")
  <1>1. /\ watcher' = [v EXCEPT ![w] = Mounted(c, start)]
        /\ ready' = Append(ready, w)
    BY DEF Launch
  <1>2. /\ Mounted(c, start) \in WatcherType(S \cup {start})
        /\ Mounted(c, start).conv = c /\ Mounted(c, start).state = "created"
    BY DEF Mounted, WatcherType
  <1>3. watcher' \in [Watcher -> WatcherType(S \cup {start})]
    <2>1. ASSUME NEW x \in Watcher
          PROVE  v[x] \in WatcherType(S \cup {start})
      BY DEF WatcherType
    <2>2. v \in [Watcher -> WatcherType(S \cup {start})]
      BY <2>1
    <2>3. QED
      BY <1>1, <1>2, <2>2
  <1>4. /\ watcher'[w].conv = c /\ watcher'[w].state = "created"
        /\ \A x \in Watcher \ {w} : watcher'[x] = v[x]
    BY <1>1, <1>2
  <1>5. \A x \in Watcher \ {w} : (watcher'[x].state # "none") = (watcher[x].state # "none")
    BY <1>4 DEF Softened, Begun
  <1>6. Queued'
    <2>1. /\ ready \in Seq(Watcher) /\ ready' \in Seq(Watcher) /\ Len(ready') = Len(ready) + 1
          /\ \A i \in 1..Len(ready) : ready'[i] = ready[i]
          /\ ready'[Len(ready) + 1] = w
      BY <1>1 DEF Queued
    <2>2. ASSUME NEW i \in 1..Len(ready)
          PROVE  ready[i] # w /\ watcher'[ready[i]].state = "created"
      <3>1. PICK x \in Watcher : x = ready[i]
        BY <2>1
      <3>2. watcher[x].state = "created"
        BY <3>1 DEF Queued
      <3>3. x # w
        BY <3>2
      <3>4. watcher'[x].state = "created"
        BY <1>4, <3>2, <3>3 DEF Softened, Begun
      <3>5. QED
        BY <3>1, <3>3, <3>4
    <2>3. ASSUME NEW i \in 1..Len(ready')
          PROVE  watcher'[ready'[i]].state = "created"
      BY <1>4, <2>1, <2>2
    <2>4. ASSUME NEW i \in 1..Len(ready'), NEW j \in 1..Len(ready'), ready'[i] = ready'[j]
          PROVE  i = j
      <3>1. CASE i \in 1..Len(ready) /\ j \in 1..Len(ready)
        BY <2>1, <2>4, <3>1 DEF Queued
      <3>2. CASE i = Len(ready) + 1 \/ j = Len(ready) + 1
        BY <2>1, <2>2, <2>4, <3>2
      <3>3. QED
        BY <2>1, <3>1, <3>2
    <2>5. QED
      BY <2>1, <2>3, <2>4 DEF Queued
  <1>7. Registered'
    <2>1. \A x \in Watcher : watcher'[x].state # "none" => watcher'[x].conv \in Conversation
      <3>1. ASSUME NEW x \in Watcher \ {w}, watcher'[x].state # "none"
            PROVE  watcher'[x].conv \in Conversation
        BY <1>4, <1>5, <3>1 DEF Registered, Softened
      <3>2. QED
        BY <1>4, <3>1
    <2>2. ASSUME NEW d \in Conversation, registry[d] # Nobody
          PROVE  Begun(registry[d])' /\ watcher'[registry[d]].conv = d
      <3>1. PICK r \in Watcher : r = registry[d]
        BY <2>2 DEF Registered
      <3>2. Begun(r) /\ watcher[r].conv = d
        BY <2>2, <3>1 DEF Registered
      <3>3. r # w
        BY <3>2 DEF Begun
      <3>4. watcher'[r].state \in {"running", "cancelled"} /\ watcher'[r].conv = d
        BY <1>4, <3>2, <3>3 DEF Softened, Begun
      <3>5. QED
        BY <3>1, <3>4 DEF Begun
    <2>3. QED
      BY <2>1, <2>2 DEF Registered
  <1>8. OneWatcher'
    <2>1. ASSUME NEW x \in Watcher, watcher'[x].state = "running"
          PROVE  registry[watcher'[x].conv] = x
      <3>1. x # w
        BY <1>4, <2>1
      <3>2. v[x].state = "running" /\ watcher'[x].conv = v[x].conv
        BY <1>4, <2>1, <3>1
      <3>3. watcher[x].state = "running" /\ v[x].conv = watcher[x].conv
        BY <3>2 DEF Softened
      <3>4. QED
        BY <3>2, <3>3 DEF OneWatcher, Running
    <2>2. QED
      BY <2>1 DEF OneWatcher, Running
  <1>9. QED
    BY <1>3, <1>5, <1>6, <1>7, <1>8

\* A watcher that ends, having begun, removes its entry if it is its own.
LEMMA Ended ==
  ASSUME NEW S, watcher \in [Watcher -> WatcherType(S)], target \in [Request -> TargetType(S)],
         Queued, Registered, Mounts, OneWatcher, NEW w \in Watcher, Begun(w), End(w)
  PROVE  Shape' /\ Queued' /\ Registered' /\ Mounts' /\ OneWatcher'
  <1>1. /\ watcher' = [watcher EXCEPT ![w] = NoWatcher]
        /\ registry' = Pop(w) /\ UNCHANGED <<stage, target, ready>>
    BY DEF End
  <1>2. /\ watcher'[w] = NoWatcher
        /\ \A x \in Watcher \ {w} : watcher'[x] = watcher[x]
    BY <1>1
  <1>3. NoWatcher.state = "none" /\ NoWatcher \in WatcherType(S \cup {0})
    BY DEF NoWatcher, WatcherType
  <1>4. Shape'
    <2>1. watcher \in [Watcher -> WatcherType(S \cup {0})]
      <3>1. \A x \in Watcher : watcher[x] \in WatcherType(S \cup {0})
        BY DEF WatcherType
      <3>2. QED
        BY <3>1
    <2>2. watcher' \in [Watcher -> WatcherType(S \cup {0})]
      BY <1>1, <1>3, <2>1
    <2>3. target' \in [Request -> TargetType(S \cup {0})]
      <3>1. \A r \in Request : target[r] \in TargetType(S \cup {0})
        BY DEF TargetType
      <3>2. QED
        BY <1>1, <3>1
    <2>4. QED
      BY <2>2, <2>3 DEF Shape
  <1>5. PICK c \in Conversation : c = watcher[w].conv
    BY DEF Registered, Begun
  <1>6. /\ registry' \in [Conversation -> Watcher \cup {Nobody}]
        /\ \A d \in Conversation : registry'[d] # w
        /\ \A d \in Conversation : registry[d] # w => registry'[d] = registry[d]
        /\ \A d \in Conversation : registry'[d] # Nobody => registry'[d] = registry[d]
    <2>1. \A d \in Conversation : registry[d] = w => d = c
      BY <1>5, NameAssumption DEF Registered
    <2>2. CASE registry[c] = w
      <3>1. registry' = [registry EXCEPT ![c] = Nobody]
        BY <1>1, <1>5, <2>2 DEF Pop
      <3>2. QED
        BY <2>1, <2>2, <3>1, NameAssumption DEF Registered
    <2>3. CASE registry[c] # w
      <3>1. registry' = registry
        BY <1>1, <1>5, <2>3 DEF Pop
      <3>2. QED
        BY <2>1, <2>3, <3>1 DEF Registered
    <2>4. QED
      BY <2>2, <2>3
  <1>7. Queued'
    <2>1. ASSUME NEW i \in 1..Len(ready)
          PROVE  watcher'[ready[i]].state = "created"
      <3>1. PICK x \in Watcher : x = ready[i]
        BY DEF Queued
      <3>2. watcher[x].state = "created"
        BY <3>1 DEF Queued
      <3>3. x # w
        BY <3>2 DEF Begun
      <3>4. QED
        BY <1>2, <3>1, <3>2, <3>3
    <2>2. QED
      BY <1>1, <2>1 DEF Queued
  <1>8. Registered'
    <2>1. \A x \in Watcher : watcher'[x].state # "none" => watcher'[x].conv \in Conversation
      BY <1>2, <1>3 DEF Registered
    <2>2. ASSUME NEW d \in Conversation, registry'[d] # Nobody
          PROVE  Begun(registry[d])' /\ watcher'[registry'[d]].conv = d
      <3>1. PICK r \in Watcher : r = registry'[d] /\ r = registry[d] /\ r # w
        BY <1>6, <2>2
      <3>2. Begun(r) /\ watcher[r].conv = d
        BY <1>6, <2>2, <3>1 DEF Registered
      <3>3. watcher'[r].state \in {"running", "cancelled"} /\ watcher'[r].conv = d
        BY <1>2, <3>1, <3>2 DEF Begun
      <3>4. QED
        BY <3>1, <3>3 DEF Begun
    <2>3. QED
      BY <1>6, <2>1, <2>2 DEF Registered
  <1>9. Mounts'
    <2>1. Request \subseteq Watcher
      BY DEF Watcher
    <2>2. QED
      BY <1>1, <1>2, <1>3, <2>1 DEF Mounts
  <1>10. OneWatcher'
    <2>1. ASSUME NEW x \in Watcher, watcher'[x].state = "running"
          PROVE  registry'[watcher'[x].conv] = x
      <3>1. x # w
        BY <1>2, <1>3, <2>1
      <3>2. watcher[x].state = "running" /\ watcher'[x].conv = watcher[x].conv
        BY <1>2, <2>1, <3>1
      <3>3. registry[watcher[x].conv] = x /\ watcher[x].conv \in Conversation
        BY <3>2 DEF OneWatcher, Running, Registered
      <3>4. QED
        BY <1>6, <3>1, <3>2, <3>3
    <2>2. QED
      BY <2>1 DEF OneWatcher, Running
  <1>11. QED
    BY <1>4, <1>7, <1>8, <1>9, <1>10

----------------------------------------------------------------------------
(* The steps *)

LEMMA StartWatch ==
  ASSUME WatchInv, Start
  PROVE  WatchInv'
  <1>1. /\ ready # <<>> /\ ready' = Tail(ready)
        /\ watcher' = [Cancelled(watcher[Head(ready)].conv) EXCEPT ![Head(ready)].state = "running"]
        /\ registry' = [registry EXCEPT ![watcher[Head(ready)].conv] = Head(ready)]
        /\ UNCHANGED <<stage, target, row>>
    BY DEF Start
  <1>2. /\ ready \in Seq(Watcher) /\ Len(ready) >= 1 /\ Head(ready) = ready[1]
        /\ ready' \in Seq(Watcher) /\ Len(ready') = Len(ready) - 1
        /\ \A i \in 1..Len(ready') : ready'[i] = ready[i + 1] /\ i + 1 \in 1..Len(ready)
    BY <1>1 DEF WatchInv, Queued
  <1>3. PICK w \in Watcher : w = Head(ready)
    BY <1>2
  <1>4. watcher[w].state = "created"
    BY <1>2, <1>3 DEF WatchInv, Queued
  <1>5. PICK c \in Conversation : c = watcher[w].conv
    BY <1>4 DEF WatchInv, Registered
  <1>6. PICK S : watcher \in [Watcher -> WatcherType(S)] /\ target \in [Request -> TargetType(S)]
    BY DEF WatchInv, Shape
  <1>7. PICK v \in [Watcher -> WatcherType(S)] :
            /\ v = Cancelled(c) /\ Softened(v)
            /\ \A x \in Watcher : v[x].state = "running" => watcher[x].conv # c
    <2>1. /\ Cancelled(c) \in [Watcher -> WatcherType(S)]
          /\ Softened(Cancelled(c))
          /\ \A x \in Watcher : Cancelled(c)[x].state = "running" => watcher[x].conv # c
      BY <1>6, CancelledSoftens DEF WatchInv
    <2>2. QED
      BY <2>1
  <1>8. PICK rec \in WatcherType(S) : /\ rec.conv = c /\ rec.state = "running"
                                      /\ rec = [v[w] EXCEPT !.state = "running"]
    <2>1. v[w] \in WatcherType(S) /\ v[w].conv = c
      BY <1>5, <1>7 DEF Softened
    <2>2. QED
      BY <2>1 DEF WatcherType
  <1>9. watcher' = [v EXCEPT ![w] = rec] /\ registry' = [registry EXCEPT ![c] = w]
    <2>1. watcher' = [v EXCEPT ![w].state = "running"]
      BY <1>1, <1>3, <1>5, <1>7
    <2>2. QED
      BY <1>1, <1>3, <1>5, <1>8, <2>1
  <1>10. /\ watcher'[w] = rec /\ \A x \in Watcher \ {w} : watcher'[x] = v[x]
         /\ watcher' \in [Watcher -> WatcherType(S)]
    BY <1>8, <1>9
  <1>11. /\ registry' \in [Conversation -> Watcher \cup {Nobody}] /\ registry'[c] = w
         /\ \A d \in Conversation \ {c} : registry'[d] = registry[d]
    BY <1>9 DEF WatchInv, Registered
  <1>12. Queued'
    <2>1. ASSUME NEW i \in 1..Len(ready')
          PROVE  watcher'[ready'[i]].state = "created"
      <3>1. PICK x \in Watcher : x = ready'[i] /\ x = ready[i + 1]
        BY <1>2
      <3>2. watcher[x].state = "created" /\ x # w
        BY <1>2, <1>3, <3>1 DEF WatchInv, Queued
      <3>3. QED
        BY <1>7, <1>10, <3>1, <3>2 DEF Softened, Begun
    <2>2. ASSUME NEW i \in 1..Len(ready'), NEW j \in 1..Len(ready'), ready'[i] = ready'[j]
          PROVE  i = j
      BY <1>2, <2>2 DEF WatchInv, Queued
    <2>3. QED
      BY <1>2, <2>1, <2>2 DEF Queued
  <1>13. Registered'
    <2>1. \A x \in Watcher : watcher'[x].state # "none" => watcher'[x].conv \in Conversation
      <3>1. ASSUME NEW x \in Watcher \ {w}, watcher'[x].state # "none"
            PROVE  watcher'[x].conv \in Conversation
        BY <1>7, <1>10, <3>1 DEF WatchInv, Registered, Softened, Begun
      <3>2. QED
        BY <1>8, <1>10, <3>1
    <2>2. ASSUME NEW d \in Conversation, registry'[d] # Nobody
          PROVE  Begun(registry[d])' /\ watcher'[registry'[d]].conv = d
      <3>1. CASE d = c
        BY <1>8, <1>10, <1>11, <3>1 DEF Begun
      <3>2. CASE d # c
        <4>1. PICK r \in Watcher : r = registry'[d] /\ r = registry[d]
          BY <1>11, <2>2, <3>2 DEF WatchInv, Registered
        <4>2. Begun(r) /\ watcher[r].conv = d
          BY <1>11, <2>2, <3>2, <4>1 DEF WatchInv, Registered
        <4>3. r # w
          BY <1>4, <4>2 DEF Begun
        <4>4. watcher'[r].state \in {"running", "cancelled"} /\ watcher'[r].conv = d
          BY <1>7, <1>10, <4>2, <4>3 DEF Softened, Begun
        <4>5. QED
          BY <4>1, <4>4 DEF Begun
      <3>3. QED
        BY <3>1, <3>2
    <2>3. QED
      BY <1>11, <2>1, <2>2 DEF Registered
  <1>14. Mounts'
    <2>1. \A x \in Watcher : watcher'[x].state # "none" => watcher[x].state # "none"
      BY <1>4, <1>7, <1>10 DEF Softened, Begun
    <2>2. QED
      BY <1>1, <2>1 DEF WatchInv, Mounts, Watcher
  <1>15. OneWatcher'
    <2>1. ASSUME NEW x \in Watcher, watcher'[x].state = "running"
          PROVE  registry'[watcher'[x].conv] = x
      <3>1. CASE x = w
        BY <1>8, <1>10, <1>11, <3>1
      <3>2. CASE x # w
        <4>1. v[x].state = "running" /\ watcher'[x].conv = v[x].conv
          BY <1>10, <2>1, <3>2
        <4>2. /\ watcher[x].state = "running" /\ v[x].conv = watcher[x].conv
              /\ watcher[x].conv # c
          BY <1>7, <4>1 DEF Softened
        <4>3. registry[watcher[x].conv] = x /\ watcher[x].conv \in Conversation
          BY <4>2 DEF WatchInv, OneWatcher, Running, Registered
        <4>4. QED
          BY <1>11, <4>1, <4>2, <4>3
      <3>3. QED
        BY <3>1, <3>2
    <2>2. QED
      BY <2>1 DEF OneWatcher, Running
  <1>16. Shape' /\ row' \in RowType
    BY <1>1, <1>6, <1>10 DEF Shape, WatchInv
  <1>17. QED
    BY <1>12, <1>13, <1>14, <1>15, <1>16 DEF WatchInv

LEMMA EndWatch ==
  ASSUME WatchInv, NEW w \in Watcher, Unwind(w) \/ Deliver(w) \/ Report(w) \/ TimeOut(w)
  PROVE  WatchInv'
  <1>1. PICK S : watcher \in [Watcher -> WatcherType(S)] /\ target \in [Request -> TargetType(S)]
    BY DEF WatchInv, Shape
  <1>2. End(w) /\ Begun(w)
    BY DEF Unwind, Deliver, Report, TimeOut, Awake, Running, Begun
  <1>3. row' \in RowType
    <2>1. \A status \in {"completed", "failed"} :
              (row = Nobody \/ row \in [conv : Conversation, status : {"active", "completed", "failed"}])
              => (IF row = Nobody \/ w = "watchdog" THEN row ELSE [row EXCEPT !.status = status]) \in RowType
      BY DEF RowType
    <2>2. row \in RowType
      BY DEF WatchInv
    <2>3. CASE Unwind(w)
      BY <2>2, <2>3 DEF Unwind
    <2>4. CASE Deliver(w)
      BY <2>1, <2>2, <2>4 DEF Deliver, Mark, RowType
    <2>5. CASE Report(w)
      BY <2>1, <2>2, <2>5 DEF Report, Mark, RowType
    <2>6. CASE TimeOut(w)
      BY <2>2, <2>6 DEF TimeOut
    <2>7. QED
      BY <2>3, <2>4, <2>5, <2>6
  <1>4. QED
    BY <1>1, <1>2, <1>3, Ended DEF WatchInv

LEMMA BeginWatch ==
  ASSUME WatchInv, NEW r \in Request, Begin(r)
  PROVE  WatchInv'
  <1>1. stage[r] = "waiting" /\ UNCHANGED <<row, ready, registry>>
    BY DEF Begin
  <1>2. PICK S : watcher \in [Watcher -> WatcherType(S)] /\ target \in [Request -> TargetType(S)]
    BY DEF WatchInv, Shape
  <1>3. CASE r \in FollowUp /\ row # Nobody
    <2>1. /\ watcher' = Cancelled(row.conv)
          /\ target' = [target EXCEPT ![r] = [conv |-> row.conv, start |-> StartStep(row.conv)]]
          /\ stage' = [stage EXCEPT ![r] = "sending"]
      BY <1>3 DEF Begin
    <2>2. PICK c \in Conversation : c = row.conv
      BY <1>3 DEF WatchInv, RowType
    <2>3. PICK start : start = StartStep(c)
      OBVIOUS
    <2>4. watcher' \in [Watcher -> WatcherType(S)] /\ Softened(watcher')
      BY <1>2, <2>1, <2>2, CancelledSoftens DEF WatchInv
    <2>5. /\ Queued' /\ Registered' /\ OneWatcher'
          /\ \A w \in Watcher : (watcher'[w].state # "none") = (watcher[w].state # "none")
      BY <1>1, <2>4, SoftenedWatch DEF WatchInv
    <2>6. Shape'
      <3>1. watcher' \in [Watcher -> WatcherType(S \cup {start})]
        <4>1. \A w \in Watcher : watcher'[w] \in WatcherType(S \cup {start})
          BY <2>4 DEF WatcherType
        <4>2. QED
          BY <2>4, <4>1
      <3>2. target' \in [Request -> TargetType(S \cup {start})]
        <4>1. [conv |-> c, start |-> start] \in TargetType(S \cup {start})
          BY DEF TargetType
        <4>2. \A q \in Request : target[q] \in TargetType(S \cup {start})
          BY <1>2 DEF TargetType
        <4>3. target' = [target EXCEPT ![r] = [conv |-> c, start |-> start]]
          BY <2>1, <2>2, <2>3
        <4>4. QED
          BY <1>2, <4>1, <4>2, <4>3
      <3>3. QED
        BY <3>1, <3>2 DEF Shape
    <2>7. Mounts'
      <3>1. target'[r].conv = c /\ \A q \in Request \ {r} : target'[q] = target[q]
        BY <1>2, <2>1, <2>2
      <3>2. stage' \in [Request -> Stage] /\ \A q \in Request \ {r} : stage'[q] = stage[q]
        BY <2>1 DEF WatchInv, Mounts, Stage
      <3>3. \A q \in Request : watcher'[q].state # "none" => stage'[q] = "done"
        <4>1. \A q \in Request : watcher'[q].state # "none" => stage[q] = "done"
          BY <2>5 DEF WatchInv, Mounts, Watcher
        <4>2. QED
          BY <1>1, <3>2, <4>1
      <3>4. QED
        BY <3>1, <3>2, <3>3 DEF WatchInv, Mounts
    <2>8. QED
      BY <1>1, <2>5, <2>6, <2>7 DEF WatchInv
  <1>4. CASE ~(r \in FollowUp /\ row # Nobody)
    <2>1. stage' = [stage EXCEPT ![r] = "creating"] /\ UNCHANGED <<target, watcher>>
      BY <1>4 DEF Begin
    <2>2. Mounts'
      BY <1>1, <2>1 DEF WatchInv, Mounts, Stage
    <2>3. Queued' /\ Registered' /\ OneWatcher' /\ Shape'
      BY <1>1, <2>1 DEF WatchInv, Queued, Registered, OneWatcher, Running, Begun, Shape
    <2>4. QED
      BY <1>1, <2>2, <2>3 DEF WatchInv
  <1>5. QED
    BY <1>3, <1>4

\* A call that returns without a watcher.
LEMMA ReturnWatch ==
  ASSUME WatchInv, NEW r \in Request, SendNotFound(r) \/ SendFailed(r) \/ CreateFailed(r)
  PROVE  WatchInv'
  <1>1. PICK next \in {"creating", "done"} :
           /\ stage' = [stage EXCEPT ![r] = next]
           /\ target' = [target EXCEPT ![r] = NoTarget]
           /\ stage[r] \in {"sending", "creating"}
           /\ UNCHANGED <<row, watcher, ready, registry>>
    BY DEF SendNotFound, SendFailed, CreateFailed, Return
  <1>2. PICK S : watcher \in [Watcher -> WatcherType(S)] /\ target \in [Request -> TargetType(S)]
    BY DEF WatchInv, Shape
  <1>3. Shape'
    <2>1. watcher' \in [Watcher -> WatcherType(S \cup {0})]
      <3>1. \A w \in Watcher : watcher[w] \in WatcherType(S \cup {0})
        BY <1>2 DEF WatcherType
      <3>2. QED
        BY <1>1, <1>2, <3>1
    <2>2. target' \in [Request -> TargetType(S \cup {0})]
      <3>1. \A q \in Request : target[q] \in TargetType(S \cup {0})
        BY <1>2 DEF TargetType
      <3>2. NoTarget \in TargetType(S \cup {0})
        BY DEF NoTarget, TargetType
      <3>3. QED
        BY <1>1, <1>2, <3>1, <3>2
    <2>3. QED
      BY <2>1, <2>2 DEF Shape
  <1>4. Mounts'
    <2>1. \A q \in Request \ {r} : target'[q] = target[q] /\ stage'[q] = stage[q]
      BY <1>1, <1>2 DEF WatchInv, Mounts
    <2>2. stage' \in [Request -> Stage] /\ stage'[r] # "sending"
      BY <1>1 DEF WatchInv, Mounts, Stage
    <2>3. watcher'[r].state = "none"
      BY <1>1 DEF WatchInv, Mounts
    <2>4. QED
      BY <1>1, <2>1, <2>2, <2>3 DEF WatchInv, Mounts
  <1>5. QED
    BY <1>1, <1>3, <1>4 DEF WatchInv, Queued, Registered, OneWatcher, Running, Begun

\* A call that returns with a conversation to be watched.
LEMMA LaunchWatch ==
  ASSUME WatchInv, NEW r \in Request, SendOk(r) \/ CreateOk(r)
  PROVE  WatchInv'
  <1>1. PICK S : watcher \in [Watcher -> WatcherType(S)] /\ target \in [Request -> TargetType(S)]
    BY DEF WatchInv, Shape
  <1>2. PICK c, start, v :
           /\ c \in Conversation /\ v \in [Watcher -> WatcherType(S)]
           /\ Launch(r, c, start, v) /\ Softened(v)
           /\ stage[r] \in {"sending", "creating"}
           /\ stage' = [stage EXCEPT ![r] = "done"] /\ target' = [target EXCEPT ![r] = NoTarget]
           /\ UNCHANGED registry /\ row' \in RowType
    <2>1. CASE SendOk(r)
      <3>1. PICK start : start = target[r].start
        OBVIOUS
      <3>2. PICK c \in Conversation : c = target[r].conv
        BY <2>1 DEF SendOk, WatchInv, Mounts
      <3>3. Softened(watcher)
        BY DEF Softened
      <3>4. Launch(r, c, start, watcher)
        BY <2>1, <3>1, <3>2 DEF SendOk
      <3>5. /\ stage[r] \in {"sending", "creating"}
            /\ stage' = [stage EXCEPT ![r] = "done"] /\ target' = [target EXCEPT ![r] = NoTarget]
            /\ UNCHANGED registry /\ row' \in RowType
        BY <2>1 DEF SendOk, Return, WatchInv
      <3>6. PICK v \in [Watcher -> WatcherType(S)] : v = watcher
        BY <1>1
      <3>7. QED
        BY <3>3, <3>4, <3>5, <3>6
    <2>2. CASE CreateOk(r)
      <3>1. r \in Conversation
        BY DEF Conversation
      <3>2. Cancelled(r) \in [Watcher -> WatcherType(S)] /\ Softened(Cancelled(r))
        BY <1>1, <3>1, CancelledSoftens DEF WatchInv
      <3>3. PICK v \in [Watcher -> WatcherType(S)] : v = Cancelled(r) /\ Softened(v)
        BY <3>2
      <3>4. Launch(r, r, 0, v)
        BY <2>2, <3>3 DEF CreateOk
      <3>5. /\ stage[r] \in {"sending", "creating"}
            /\ stage' = [stage EXCEPT ![r] = "done"] /\ target' = [target EXCEPT ![r] = NoTarget]
            /\ UNCHANGED registry /\ row' = [conv |-> r, status |-> "active"]
        BY <2>2 DEF CreateOk, Return
      <3>6. row' \in RowType
        BY <3>1, <3>5 DEF RowType
      <3>7. QED
        BY <3>1, <3>3, <3>4, <3>5, <3>6
    <2>3. QED
      BY <2>1, <2>2
  <1>3. r \in Watcher /\ watcher[r].state = "none"
    BY <1>1, <1>2 DEF WatchInv, Mounts, Watcher, WatcherType
  <1>4. /\ watcher' \in [Watcher -> WatcherType(S \cup {start})]
        /\ Queued' /\ Registered' /\ OneWatcher'
        /\ \A x \in Watcher \ {r} : (watcher'[x].state # "none") = (watcher[x].state # "none")
    BY <1>2, <1>3, Launched DEF WatchInv
  <1>5. Shape'
    <2>1. watcher' \in [Watcher -> WatcherType(S \cup {start, 0})]
      <3>1. \A w \in Watcher : watcher'[w] \in WatcherType(S \cup {start, 0})
        BY <1>4 DEF WatcherType
      <3>2. QED
        BY <1>4, <3>1
    <2>2. target' \in [Request -> TargetType(S \cup {start, 0})]
      <3>1. \A q \in Request : target[q] \in TargetType(S \cup {start, 0})
        BY <1>1 DEF TargetType
      <3>2. NoTarget \in TargetType(S \cup {start, 0})
        BY DEF NoTarget, TargetType
      <3>3. QED
        BY <1>1, <1>2, <3>1, <3>2
    <2>3. QED
      BY <2>1, <2>2 DEF Shape
  <1>6. Mounts'
    <2>1. \A q \in Request \ {r} : target'[q] = target[q] /\ stage'[q] = stage[q]
      BY <1>1, <1>2 DEF WatchInv, Mounts
    <2>2. stage' \in [Request -> Stage] /\ stage'[r] = "done"
      BY <1>2 DEF WatchInv, Mounts, Stage
    <2>3. \A q \in Request \ {r} : watcher'[q].state # "none" => stage'[q] = "done"
      BY <1>4, <2>1 DEF WatchInv, Mounts, Watcher
    <2>4. \A q \in Request : stage'[q] = "sending" => target'[q].conv \in Conversation
      BY <2>1, <2>2 DEF WatchInv, Mounts
    <2>5. QED
      BY <2>2, <2>3, <2>4 DEF Mounts
  <1>7. QED
    BY <1>2, <1>4, <1>5, <1>6 DEF WatchInv

LEMMA RemountWatch ==
  ASSUME WatchInv, Remount
  PROVE  WatchInv'
  <1>1. PICK S : watcher \in [Watcher -> WatcherType(S)] /\ target \in [Request -> TargetType(S)]
    BY DEF WatchInv, Shape
  <1>2. PICK c \in Conversation : c = row.conv
    BY DEF Remount, Active, WatchInv, RowType
  <1>3. Cancelled(c) \in [Watcher -> WatcherType(S)] /\ Softened(Cancelled(c))
    BY <1>1, CancelledSoftens DEF WatchInv
  <1>4. PICK v \in [Watcher -> WatcherType(S)] : v = Cancelled(c) /\ Softened(v)
    BY <1>3
  <1>5. PICK w \in Watcher : w = "watchdog"
    BY DEF Watcher, Remounted
  <1>6. /\ Launch(w, c, 0, v) /\ watcher[w].state = "none"
        /\ UNCHANGED <<registry, stage, target, row>>
    BY <1>2, <1>4, <1>5 DEF Remount
  <1>7. /\ watcher' \in [Watcher -> WatcherType(S \cup {0})]
        /\ Queued' /\ Registered' /\ OneWatcher'
        /\ \A x \in Watcher \ {w} : (watcher'[x].state # "none") = (watcher[x].state # "none")
    BY <1>4, <1>6, Launched DEF WatchInv
  <1>8. Shape'
    <2>1. \A q \in Request : target[q] \in TargetType(S \cup {0})
      BY <1>1 DEF TargetType
    <2>2. target' \in [Request -> TargetType(S \cup {0})]
      BY <1>1, <1>6, <2>1
    <2>3. QED
      BY <1>7, <2>2 DEF Shape
  <1>9. Mounts'
    <2>1. \A q \in Request : q \in Watcher \ {w}
      BY <1>5, NameAssumption DEF Watcher, Remounted
    <2>2. QED
      BY <1>6, <1>7, <2>1 DEF WatchInv, Mounts
  <1>10. QED
    BY <1>6, <1>7, <1>8, <1>9 DEF WatchInv

\* A new process has the watcher that boots, waiting to start, or none.
\* The row a dead process leaves.
LEMMA RowLeftType ==
  ASSUME row \in RowType, NEW o \in Request \cup {Nobody}, Reboot(o)
  PROVE  /\ row' \in RowType
         /\ o = Nobody => row' = row
         /\ o # Nobody => row'.conv = o
  <1>1. row' = RowLeft(o)
    BY DEF Reboot
  <1>2. CASE o = Nobody
    BY <1>1, <1>2 DEF RowLeft
  <1>3. CASE o # Nobody
    <2>1. o \in Conversation /\ row' = [conv |-> o, status |-> "active"]
      BY <1>1, <1>3 DEF RowLeft, Conversation
    <2>2. row' \in [conv : Conversation, status : {"active", "completed", "failed"}]
      BY <2>1
    <2>3. QED
      BY <1>3, <2>1, <2>2 DEF RowType
  <1>4. QED
    BY <1>2, <1>3

LEMMA RebootWatch ==
  ASSUME WatchInv, NEW o \in Request \cup {Nobody}, Reboot(o)
  PROVE  WatchInv'
  <1>0. row' \in RowType
    BY RowLeftType DEF WatchInv
  <1>1. /\ stage' = [r \in Request |-> IF r = o THEN "done"
                                     ELSE IF InFlight(r) THEN "waiting" ELSE stage[r]]
        /\ target' = [r \in Request |-> NoTarget]
        /\ registry' = [c \in Conversation |-> Nobody]
    BY DEF Reboot
  <1>2. PICK dead \in [Watcher -> WatcherType({0})] : dead = [w \in Watcher |-> NoWatcher]
    BY DEF NoWatcher, WatcherType
  <1>3. PICK w \in Watcher : w = "boot"
    BY DEF Watcher, Remounted
  <1>4. /\ watcher' \in [Watcher -> WatcherType({0})]
        /\ \A x \in Watcher \ {w} : watcher'[x].state = "none"
        /\ \/ ready' = <<>> /\ watcher'[w].state = "none"
           \/ /\ ready' = <<w>> /\ watcher'[w].state = "created"
              /\ watcher'[w].conv \in Conversation
    <2>1. CASE Active(row')
      <3>1. PICK c \in Conversation : c = row'.conv
        BY <1>0, <2>1 DEF Active, RowType
      <3>2. /\ watcher' = [dead EXCEPT ![w] = Mounted(c, 0)]
            /\ ready' = <<w>>
        BY <1>2, <1>3, <2>1, <3>1 DEF Reboot, ResumeStep
      <3>3. /\ Mounted(c, 0) \in WatcherType({0})
            /\ Mounted(c, 0).state = "created" /\ Mounted(c, 0).conv = c
        BY DEF Mounted, WatcherType
      <3>4. \A x \in Watcher : dead[x].state = "none"
        BY <1>2 DEF NoWatcher
      <3>5. QED
        BY <3>2, <3>3, <3>4
    <2>2. CASE ~Active(row')
      <3>1. watcher' = dead /\ ready' = <<>>
        BY <1>2, <2>2 DEF Reboot
      <3>2. QED
        BY <1>2, <3>1 DEF NoWatcher
    <2>3. QED
      BY <2>1, <2>2
  <1>5. Shape'
    <2>1. target' \in [Request -> TargetType({0})]
      BY <1>1 DEF NoTarget, TargetType
    <2>2. QED
      BY <1>4, <2>1 DEF Shape
  <1>6. Queued'
    <2>1. CASE ready' = <<>>
      BY <2>1 DEF Queued
    <2>2. CASE ready' = <<w>> /\ watcher'[w].state = "created"
      <3>1. /\ ready' \in Seq(Watcher) /\ Len(ready') = 1 /\ ready'[1] = w
        BY <2>2
      <3>2. \A i \in 1..Len(ready') : i = 1
        BY <3>1
      <3>3. QED
        BY <2>2, <3>1, <3>2 DEF Queued
    <2>3. QED
      BY <1>4, <2>1, <2>2
  <1>7. Registered'
    BY <1>1, <1>4 DEF Registered
  <1>8. Mounts'
    <2>1. \A r \in Request : r \in Watcher \ {w}
      BY <1>3, NameAssumption DEF Watcher, Remounted
    <2>2. stage' \in [Request -> Stage] /\ \A r \in Request : stage'[r] # "sending"
      BY <1>1 DEF WatchInv, Mounts, Stage, InFlight
    <2>3. QED
      BY <1>4, <2>1, <2>2 DEF Mounts
  <1>9. OneWatcher'
    BY <1>4 DEF OneWatcher, Running
  <1>10. QED
    BY <1>0, <1>5, <1>6, <1>7, <1>8, <1>9 DEF WatchInv

\* The steps of Antigravity, and stuttering.
LEMMA OtherWatch ==
  ASSUME WatchInv, UNCHANGED <<daemon, row>>
  PROVE  WatchInv'
  BY DEF WatchInv, daemon, Shape, Queued, Registered, Mounts, OneWatcher, Running, Begun

LEMMA NextWatch ==
  ASSUME WatchInv, [Next]_vars
  PROVE  WatchInv'
  <1>1. CASE Start
    BY <1>1, StartWatch
  <1>2. ASSUME NEW w \in Watcher, Unwind(w) \/ Deliver(w) \/ Report(w) \/ TimeOut(w)
        PROVE  WatchInv'
    BY <1>2, EndWatch
  <1>3. ASSUME NEW r \in Request, Begin(r)
        PROVE  WatchInv'
    BY <1>3, BeginWatch
  <1>4. ASSUME NEW r \in Request, SendOk(r) \/ CreateOk(r)
        PROVE  WatchInv'
    BY <1>4, LaunchWatch
  <1>5. ASSUME NEW r \in Request, SendNotFound(r) \/ SendFailed(r) \/ CreateFailed(r)
        PROVE  WatchInv'
    BY <1>5, ReturnWatch
  <1>6. CASE Remount
    BY <1>6, RemountWatch
  <1>7. ASSUME \/ Restart \/ \E w \in Watcher : KilledAfterPost(w)
               \/ \E r \in Request : KilledAfterRow(r)
        PROVE  WatchInv'
    <2>1. \E o \in Request \cup {Nobody} : Reboot(o)
      BY <1>7 DEF Restart, KilledAfterPost, KilledAfterRow
    <2>2. QED
      BY <2>1, RebootWatch
  <1>8. ASSUME NEW c \in Conversation, CallTools(c) \/ Answer(c) \/ BreakOff(c)
        PROVE  WatchInv'
    <2>1. UNCHANGED <<daemon, row>>
      BY <1>8 DEF CallTools, Answer, BreakOff, Step
    <2>2. QED
      BY <2>1, OtherWatch
  <1>9. CASE UNCHANGED vars
    <2>1. UNCHANGED <<daemon, row>>
      BY <1>9 DEF vars
    <2>2. QED
      BY <2>1, OtherWatch
  <1>10. QED
    BY <1>1, <1>2, <1>3, <1>4, <1>5, <1>6, <1>7, <1>8, <1>9 DEF Next

LEMMA InitWatch == Init => WatchInv
  <1> SUFFICES ASSUME Init PROVE WatchInv
    OBVIOUS
  <1>1. Shape
    <2>1. watcher \in [Watcher -> WatcherType({0})]
      BY DEF Init, NoWatcher, WatcherType
    <2>2. target \in [Request -> TargetType({0})]
      BY DEF Init, NoTarget, TargetType
    <2>3. QED
      BY <2>1, <2>2 DEF Shape
  <1>2. \A w \in Watcher : watcher[w].state = "none"
    BY DEF Init, NoWatcher
  <1>3. row \in RowType /\ Queued /\ Registered
    BY <1>2 DEF Init, RowType, Queued, Registered
  <1>4. Mounts
    BY <1>2 DEF Init, Mounts, Stage, Watcher
  <1>5. OneWatcher
    BY <1>2 DEF OneWatcher, Running
  <1>6. QED
    BY <1>1, <1>3, <1>4, <1>5 DEF WatchInv

\* A conversation is watched by its registered watcher and no other, whatever order
\* requests, cancelled watchers, the boot and the watchdog come in
\* (_ACTIVE_WATCHERS and the finally clause of watch_and_deliver_result).
THEOREM OneWatcherCorrect == Spec => []OneWatcher
  <1>1. Init => WatchInv
    BY InitWatch
  <1>2. WatchInv /\ [Next]_vars => WatchInv'
    BY NextWatch
  <1>3. WatchInv => OneWatcher
    BY DEF WatchInv
  <1>4. QED
    BY <1>1, <1>2, <1>3, PTL DEF Spec

----------------------------------------------------------------------------
(* What is posted and recorded. The inductive invariant is DataInv beside   *)
(* WatchInv.                                                                *)

StepType == [req : Request, kind : {"tools", "answer", "error"}]

Texts ==
    /\ prompts \in [Conversation -> Seq(Request)]
    /\ transcript \in [Conversation -> Seq(StepType)]
    /\ \A c \in Conversation : Len(transcript[c]) <= MaxSteps

Results ==
    /\ posts \in [Conversation -> [1..MaxSteps -> Nat]]
    /\ \A c \in Conversation, i \in 1..MaxSteps :
          posts[c][i] > 0 => i \in Steps(c) /\ transcript[c][i].kind = "answer"
    /\ recorded \subseteq Conversation \X (1..MaxSteps)
    /\ \A c \in Conversation, i \in 1..MaxSteps : <<c, i>> \in recorded => i \in Steps(c)
    /\ told \subseteq Request

Times ==
    /\ seen \in [Request -> SUBSET (Conversation \X (1..MaxSteps))]
    /\ undisturbed \subseteq Request
    /\ deaths \in Nat /\ remounts \in Nat /\ deaths + remounts <= MaxCuts

Starts ==
    /\ \A r \in Request : target[r].start \in 0..MaxSteps
    /\ \A w \in Watcher : watcher[w].start \in 0..MaxSteps

\* A conversation has no text before the request that opens it is done.
Opened ==
    /\ \A r \in Request : stage[r] # "done" => prompts[r] = <<>> /\ transcript[r] = <<>>
    /\ row # Nobody => stage[row.conv] = "done"
    /\ \A r \in Request : stage[r] = "sending" => stage[target[r].conv] = "done"

\* What was posted when a request began lies before the steps its watcher reads.
SeenBefore ==
    \A r \in Request, c \in Conversation, i \in 1..MaxSteps : <<c, i>> \in seen[r] =>
        /\ stage[r] # "done" => c # r
        /\ stage[r] = "sending" /\ c = target[r].conv => i <= target[r].start
        /\ watcher[r].state # "none" /\ c = watcher[r].conv => i <= watcher[r].start

AllQueued ==
    \A w \in Watcher : watcher[w].state = "created" => \E i \in 1..Len(ready) : ready[i] = w

\* While the thread's row is active, or a watcher mounted again is at work, no
\* delivery of the conversation is recorded.
Open(w) == watcher[w].state \in {"created", "running"}
Unrecorded ==
    /\ Active(row) => \A i \in 1..MaxSteps : <<row.conv, i>> \notin recorded
    /\ \A w \in Remounted : Open(w) => \A i \in 1..MaxSteps : <<watcher[w].conv, i>> \notin recorded

DataInv == Texts /\ Results /\ Times /\ Starts /\ Opened /\ SeenBefore /\ AllQueued /\ Unrecorded

\* A set of step numbers that is not empty has a last one. The numbers up to some
\* member of T are as many as the last of them.
LEMMA LastExists ==
  ASSUME NEW n \in Nat, NEW T \in SUBSET (1..n), T # {}
  PROVE  \E m \in T : \A y \in T : y <= m
  <1> DEFINE D == {x \in 1..n : \E y \in T : y >= x}
  <1>1. IsFiniteSet(D) /\ Cardinality(D) \in Nat
    <2>1. IsFiniteSet(1..n) /\ D \in SUBSET (1..n)
      BY FS_Interval
    <2>2. IsFiniteSet(D)
      BY <2>1, FS_Subset
    <2>3. QED
      BY <2>2, FS_CardinalityType
  <1>2. PICK k \in Nat : k = Cardinality(D)
    BY <1>1
  <1>3. ASSUME NEW x \in D PROVE x \in 1..k
    <2>1. 1..x \in SUBSET D /\ Cardinality(1..x) = x
      BY FS_Interval
    <2>2. Cardinality(1..x) <= Cardinality(D)
      BY <1>1, <2>1, FS_Subset
    <2>3. QED
      BY <1>2, <2>1, <2>2
  <1>4. D \in SUBSET (1..k) /\ IsFiniteSet(1..k) /\ Cardinality(1..k) = k
    <2>1. D \in SUBSET (1..k)
      BY <1>3
    <2>2. 0 \in Int /\ 1 \in Int /\ k \in Int
      OBVIOUS
    <2>3. QED
      BY <2>1, <2>2, FS_Interval
  <1>5. D = 1..k
    BY <1>2, <1>4, FS_Subset
  <1>6. \A y \in T : y <= k
    BY <1>5
  <1>7. k \in D
    <2>1. PICK z \in T : z \in 1..k
      <3>1. T \subseteq D
        OBVIOUS
      <3>2. QED
        BY <1>5, <3>1
    <2>2. k \in 1..k
      BY <2>1
    <2>3. QED
      BY <1>5, <2>2
  <1>8. QED
    BY <1>6, <1>7

\* The final response a watcher finds is an answer after its first step.
LEMMA FinalContentFound ==
  ASSUME Texts, NEW c \in Conversation, NEW start \in 0..MaxSteps, FinalContent(c, start) # 0
  PROVE  /\ FinalContent(c, start) \in Steps(c) /\ FinalContent(c, start) \in 1..MaxSteps
         /\ FinalContent(c, start) > start
         /\ transcript[c][FinalContent(c, start)].kind = "answer"
  <1> DEFINE found == {i \in Steps(c) : i > start /\ transcript[c][i].kind = "answer"}
  <1>1. /\ Len(transcript[c]) \in Nat /\ Len(transcript[c]) <= MaxSteps
        /\ found \in SUBSET (1..Len(transcript[c]))
    BY DEF Texts, Steps
  <1>2. found # {}
    BY DEF FinalContent
  <1>3. \E m \in found : \A y \in found : y <= m
    BY <1>1, <1>2, LastExists
  <1>4. FinalContent(c, start) \in found
    BY <1>2, <1>3 DEF FinalContent
  <1>5. QED
    BY <1>1, <1>4, BoundAssumption DEF Steps

LEMMA DoneFound ==
  ASSUME NEW c, NEW start, IsDone(c, start)
  PROVE  FinalContent(c, start) # 0
  BY DEF IsDone

\* Cancelling changes no watcher's conversation or first step.
LEMMA CancelledStart ==
  ASSUME NEW S, watcher \in [Watcher -> WatcherType(S)], Registered, NEW c \in Conversation
  PROVE  \A w \in Watcher : Cancelled(c)[w].start = watcher[w].start
  <1>1. CASE registry[c] = Nobody
    BY <1>1 DEF Cancelled
  <1>2. CASE registry[c] # Nobody
    <2>1. PICK r \in Watcher : r = registry[c]
      BY <1>2 DEF Registered
    <2>2. watcher[r] \in WatcherType(S)
      BY <2>1
    <2>3. [watcher[r] EXCEPT !.state = "cancelled"].start = watcher[r].start
      BY <2>2 DEF WatcherType
    <2>4. Cancelled(c) = [watcher EXCEPT ![r] = [watcher[r] EXCEPT !.state = "cancelled"]]
      BY <1>2, <2>1 DEF Cancelled
    <2>5. QED
      BY <2>1, <2>3, <2>4
  <1>3. QED
    BY <1>1, <1>2

\* The sets that are put in order are those of the requests in flight.
LEMMA SetToSeqType ==
  ASSUME NEW S \in SUBSET Request
  PROVE  SetToSeq(S) \in Seq(Request) /\ (S = {} => SetToSeq(S) = <<>>)
  <1>1. IsFiniteSet(S)
    BY FiniteAssumption, FS_Subset DEF Request
  <1>2. Cardinality(S) \in Nat /\ ExistsBijection(1..Cardinality(S), S)
    BY <1>1, FS_CardinalityType
  <1>3. \E f \in [1..Cardinality(S) -> S] : IsInjective(f)
    BY <1>2 DEF ExistsBijection, Bijection, Injection
  <1>4. SetToSeq(S) \in [1..Cardinality(S) -> S]
    BY <1>3 DEF SetToSeq
  <1>5. SetToSeq(S) \in Seq(Request)
    BY <1>2, <1>4
  <1>6. S = {} => SetToSeq(S) = <<>>
    <2> HAVE S = {}
    <2>1. Cardinality(S) = 0
      BY FS_EmptySet
    <2>2. SetToSeq(S) \in Seq(Request) /\ DOMAIN SetToSeq(S) = 1..0
      BY <1>4, <1>5, <2>1
    <2>3. Len(SetToSeq(S)) = 0
      BY <2>2
    <2>4. QED
      BY <2>2, <2>3
  <1>7. QED
    BY <1>5, <1>6

\* Watchers keep their conversations and first steps; some may be cancelled.
Calm(v) ==
    \A w \in Watcher :
        /\ v[w].conv = watcher[w].conv /\ v[w].start = watcher[w].start
        /\ v[w].state = "none" <=> watcher[w].state = "none"
        /\ v[w].state \in {"created", "running"} => Open(w)
        /\ v[w].state = "created" => watcher[w].state = "created"

LEMMA CancelledCalm ==
  ASSUME NEW S, watcher \in [Watcher -> WatcherType(S)], Registered, OneWatcher,
         NEW c \in Conversation
  PROVE  Calm(Cancelled(c)) /\ Cancelled(c) \in [Watcher -> WatcherType(S)]
  <1>1. /\ Cancelled(c) \in [Watcher -> WatcherType(S)] /\ Softened(Cancelled(c))
        /\ \A w \in Watcher : Cancelled(c)[w].start = watcher[w].start
    BY CancelledSoftens, CancelledStart
  <1>2. QED
    BY <1>1 DEF Softened, Calm, Open, Begun

\* Watchers that are only calmed disturb nothing.
LEMMA CalmData ==
  ASSUME DataInv, Calm(watcher'), UNCHANGED <<stage, target, row, agent, history, deaths, remounts>>
  PROVE  Texts' /\ Results' /\ Times' /\ Starts' /\ Opened' /\ SeenBefore' /\ Unrecorded'
  <1>1. UNCHANGED <<prompts, transcript, posts, recorded, told, seen, undisturbed>>
    BY DEF agent, history
  <1>2. Texts' /\ Results' /\ Times' /\ Opened'
    BY <1>1 DEF DataInv, Texts, Results, Times, Opened, Steps
  <1>3. Starts' /\ SeenBefore'
    <2>1. \A r \in Request : r \in Watcher
      BY DEF Watcher
    <2>2. QED
      BY <1>1, <2>1 DEF DataInv, Starts, SeenBefore, Calm
  <1>4. Unrecorded'
    <2>1. \A w \in Remounted : w \in Watcher
      BY DEF Watcher
    <2>2. QED
      BY <1>1, <2>1 DEF DataInv, Unrecorded, Calm, Open, Active
  <1>5. QED
    BY <1>2, <1>3, <1>4

LEMMA StartData ==
  ASSUME WatchInv, DataInv, Start
  PROVE  DataInv'
  <1>1. /\ ready # <<>> /\ ready' = Tail(ready)
        /\ watcher' = [Cancelled(watcher[Head(ready)].conv) EXCEPT ![Head(ready)].state = "running"]
        /\ UNCHANGED <<stage, target, row, agent, history, deaths, remounts>>
    BY DEF Start
  <1>2. /\ ready \in Seq(Watcher) /\ Len(ready) >= 1 /\ Head(ready) = ready[1]
        /\ Len(ready') = Len(ready) - 1
        /\ \A i \in 1..Len(ready') : ready'[i] = ready[i + 1]
    BY <1>1 DEF WatchInv, Queued
  <1>3. PICK w \in Watcher : w = Head(ready)
    BY <1>2
  <1>4. watcher[w].state = "created"
    BY <1>2, <1>3 DEF WatchInv, Queued
  <1>5. PICK c \in Conversation : c = watcher[w].conv
    BY <1>4 DEF WatchInv, Registered
  <1>6. PICK S : watcher \in [Watcher -> WatcherType(S)]
    BY DEF WatchInv, Shape
  <1>7. PICK v \in [Watcher -> WatcherType(S)] : v = Cancelled(c) /\ Calm(v)
    BY <1>6, CancelledCalm DEF WatchInv
  <1>8. PICK rec \in WatcherType(S) :
            /\ rec = [v[w] EXCEPT !.state = "running"] /\ rec.state = "running"
            /\ rec.conv = v[w].conv /\ rec.start = v[w].start
    <2>1. v[w] \in WatcherType(S)
      BY <1>7
    <2>2. [v[w] EXCEPT !.state = "running"] \in WatcherType(S)
      BY <2>1 DEF WatcherType
    <2>3. /\ [v[w] EXCEPT !.state = "running"].state = "running"
          /\ [v[w] EXCEPT !.state = "running"].conv = v[w].conv
          /\ [v[w] EXCEPT !.state = "running"].start = v[w].start
      BY <2>1 DEF WatcherType
    <2>4. QED
      BY <2>2, <2>3
  <1>9. watcher' = [v EXCEPT ![w] = rec]
    BY <1>1, <1>3, <1>5, <1>7, <1>8
  <1>10. watcher'[w] = rec /\ \A x \in Watcher \ {w} : watcher'[x] = v[x]
    BY <1>7, <1>9
  <1>11. ASSUME NEW x \in Watcher
         PROVE  /\ watcher'[x].conv = watcher[x].conv /\ watcher'[x].start = watcher[x].start
                /\ watcher'[x].state = "none" <=> watcher[x].state = "none"
                /\ watcher'[x].state \in {"created", "running"} => Open(x)
                /\ watcher'[x].state = "created" => watcher[x].state = "created" /\ x # w
    <2>1. CASE x = w
      BY <1>4, <1>7, <1>8, <1>10, <2>1 DEF Calm, Open
    <2>2. CASE x # w
      BY <1>7, <1>10, <2>2 DEF Calm
    <2>3. QED
      BY <2>1, <2>2
  <1>12. AllQueued'
    <2> SUFFICES ASSUME NEW x \in Watcher, watcher'[x].state = "created"
                 PROVE  \E i \in 1..Len(ready') : ready'[i] = x
      BY DEF AllQueued
    <2>1. PICK i \in 1..Len(ready) : ready[i] = x
      BY <1>11 DEF DataInv, AllQueued
    <2>2. i # 1
      BY <1>2, <1>3, <1>11, <2>1
    <2>3. i - 1 \in 1..Len(ready') /\ ready'[i - 1] = x
      BY <1>2, <2>1, <2>2
    <2>4. QED
      BY <2>3
  <1>13. Texts' /\ Results' /\ Times' /\ Starts' /\ Opened' /\ SeenBefore' /\ Unrecorded'
    BY <1>1, <1>11, CalmData DEF Calm
  <1>14. QED
    BY <1>12, <1>13 DEF DataInv

\* A watcher that ends, whatever it leaves in the row and the thread.
LEMMA EndedData ==
  ASSUME WatchInv, DataInv, NEW w \in Watcher, End(w)
  PROVE  /\ Texts' /\ Times' /\ Starts' /\ SeenBefore' /\ AllQueued'
         /\ \A x \in Remounted : Open(x)' => Open(x) /\ x # w /\ watcher'[x] = watcher[x]
         /\ (row' = Nobody \/ (row # Nobody /\ row'.conv = row.conv)) => Opened'
  <1>1. /\ watcher' = [watcher EXCEPT ![w] = NoWatcher]
        /\ UNCHANGED <<stage, target, ready, prompts, transcript, seen, undisturbed, deaths, remounts>>
    BY DEF End, agent
  <1>2. PICK S : watcher \in [Watcher -> WatcherType(S)]
    BY DEF WatchInv, Shape
  <1>3. /\ watcher'[w].state = "none" /\ watcher'[w].start = 0
        /\ \A x \in Watcher \ {w} : watcher'[x] = watcher[x]
    BY <1>1, <1>2 DEF NoWatcher
  <1>4. Texts' /\ Times'
    BY <1>1 DEF DataInv, Texts, Times
  <1>5. Starts'
    <2>1. ASSUME NEW x \in Watcher PROVE watcher'[x].start \in 0..MaxSteps
      <3>1. CASE x = w
        BY <1>3, <3>1, BoundAssumption
      <3>2. CASE x # w
        BY <1>3, <3>2 DEF DataInv, Starts
      <3>3. QED
        BY <3>1, <3>2
    <2>2. QED
      BY <1>1, <2>1 DEF DataInv, Starts
  <1>6. SeenBefore'
    <2> SUFFICES ASSUME NEW r \in Request, NEW c \in Conversation, NEW i \in 1..MaxSteps,
                        <<c, i>> \in seen[r]
                 PROVE  /\ stage[r] # "done" => c # r
                        /\ stage[r] = "sending" /\ c = target[r].conv => i <= target[r].start
                        /\ watcher'[r].state # "none" /\ c = watcher'[r].conv => i <= watcher'[r].start
      BY <1>1 DEF SeenBefore
    <2>1. r \in Watcher
      BY DEF Watcher
    <2>2. watcher'[r].state # "none" => watcher'[r] = watcher[r]
      BY <1>3, <2>1
    <2>3. QED
      BY <2>2 DEF DataInv, SeenBefore
  <1>7. AllQueued'
    <2>1. \A x \in Watcher : watcher'[x].state = "created" => watcher[x].state = "created"
      BY <1>3
    <2>2. QED
      BY <1>1, <2>1 DEF DataInv, AllQueued
  <1>8. \A x \in Remounted : Open(x)' => Open(x) /\ x # w /\ watcher'[x] = watcher[x]
    <2>1. \A x \in Remounted : x \in Watcher
      BY DEF Watcher
    <2>2. QED
      BY <1>3, <2>1 DEF Open
  <1>9. (row' = Nobody \/ (row # Nobody /\ row'.conv = row.conv)) => Opened'
    BY <1>1 DEF DataInv, Opened
  <1>10. QED
    BY <1>4, <1>5, <1>6, <1>7, <1>8, <1>9

\* The status a watcher leaves in the row.
LEMMA MarkedRow ==
  ASSUME WatchInv, NEW w \in Watcher, NEW status \in {"completed", "failed"}, Mark(w, status)
  PROVE  /\ row' = Nobody \/ (row # Nobody /\ row'.conv = row.conv)
         /\ Active(row') => row' = row /\ w = "watchdog"
  <1>1. CASE row = Nobody \/ w = "watchdog"
    BY <1>1 DEF Mark, Active
  <1>2. CASE row # Nobody /\ w # "watchdog"
    <2>1. row \in [conv : Conversation, status : {"active", "completed", "failed"}]
      BY <1>2 DEF WatchInv, RowType
    <2>2. row' = [row EXCEPT !.status = status]
      BY <1>2 DEF Mark
    <2>3. row'.conv = row.conv /\ row'.status = status
      BY <2>1, <2>2
    <2>4. QED
      BY <1>2, <2>3 DEF Active
  <1>3. QED
    BY <1>1, <1>2

LEMMA TaskType ==
  ASSUME WatchInv, NEW w \in Watcher, Running(w)
  PROVE  Task(w) \in Request /\ watcher[w].conv \in Conversation
  <1>1. watcher[w].conv \in Conversation
    BY DEF WatchInv, Registered, Running
  <1>2. QED
    BY <1>1 DEF Task, Watcher, Conversation

\* One more post of an answer that is there.
LEMMA PostedData ==
  ASSUME Texts, Results, NEW c \in Conversation, NEW i \in 1..MaxSteps,
         i \in Steps(c), transcript[c][i].kind = "answer", Post(c, i),
         UNCHANGED <<transcript>>
  PROVE  /\ posts' \in [Conversation -> [1..MaxSteps -> Nat]]
         /\ \A d \in Conversation, j \in 1..MaxSteps :
               posts'[d][j] > 0 => j \in Steps(d)' /\ transcript'[d][j].kind = "answer"
         /\ \A d \in Conversation, j \in 1..MaxSteps :
               posts'[d][j] # posts[d][j] => d = c /\ j = i
  <1>1. posts \in [Conversation -> [1..MaxSteps -> Nat]]
    BY DEF Results
  <1>2. posts' = [posts EXCEPT ![c] = [posts[c] EXCEPT ![i] = @ + 1]]
    BY <1>1 DEF Post
  <1>3. posts[c] \in [1..MaxSteps -> Nat]
    BY <1>1
  <1>4. [posts[c] EXCEPT ![i] = @ + 1] \in [1..MaxSteps -> Nat]
    <2>1. PICK f \in [1..MaxSteps -> Nat] : f = posts[c]
      BY <1>3
    <2>2. f[i] + 1 \in Nat
      OBVIOUS
    <2>3. [f EXCEPT ![i] = f[i] + 1] \in [1..MaxSteps -> Nat]
      BY <2>2
    <2>4. QED
      BY <2>1, <2>3
  <1>5. posts' \in [Conversation -> [1..MaxSteps -> Nat]]
    BY <1>1, <1>2, <1>4
  <1>6. \A d \in Conversation, j \in 1..MaxSteps :
            ~(d = c /\ j = i) => posts'[d][j] = posts[d][j]
    BY <1>1, <1>2, <1>3
  <1>7. \A d \in Conversation, j \in 1..MaxSteps :
            posts'[d][j] > 0 => j \in Steps(d) /\ transcript[d][j].kind = "answer"
    BY <1>6 DEF Results
  <1>8. QED
    BY <1>5, <1>6, <1>7 DEF Steps

\* Without a post and a record, the results stay.
LEMMA StillResults ==
  ASSUME Results, UNCHANGED <<posts, recorded, transcript>>, told' \subseteq Request
  PROVE  Results'
  BY DEF Results, Steps

LEMMA UnwindData ==
  ASSUME WatchInv, DataInv, NEW w \in Watcher, Unwind(w)
  PROVE  DataInv'
  <1>1. End(w) /\ UNCHANGED <<row, posts, recorded, told, transcript>>
    BY DEF Unwind, End, agent
  <1>2. /\ Texts' /\ Times' /\ Starts' /\ SeenBefore' /\ AllQueued' /\ Opened'
        /\ \A x \in Remounted : Open(x)' => Open(x) /\ watcher'[x] = watcher[x]
    BY <1>1, EndedData
  <1>3. Results'
    BY <1>1 DEF DataInv, Results, Steps
  <1>4. Unrecorded'
    BY <1>1, <1>2 DEF DataInv, Unrecorded, Active
  <1>5. QED
    BY <1>2, <1>3, <1>4 DEF DataInv

LEMMA ReportData ==
  ASSUME WatchInv, DataInv, NEW w \in Watcher, Report(w)
  PROVE  DataInv'
  <1>1. /\ End(w) /\ Running(w) /\ Mark(w, "failed") /\ told' = told \cup {Task(w)}
        /\ UNCHANGED <<posts, recorded, transcript>>
    BY DEF Report, End, agent, Awake
  <1>2. /\ row' = Nobody \/ (row # Nobody /\ row'.conv = row.conv)
        /\ Active(row') => row' = row
    BY <1>1, MarkedRow
  <1>3. /\ Texts' /\ Times' /\ Starts' /\ SeenBefore' /\ AllQueued' /\ Opened'
        /\ \A x \in Remounted : Open(x)' => Open(x) /\ watcher'[x] = watcher[x]
    BY <1>1, <1>2, EndedData
  <1>4. told' \subseteq Request
    BY <1>1, TaskType DEF DataInv, Results
  <1>5. Results'
    BY <1>1, <1>4, StillResults DEF DataInv
  <1>6. Unrecorded'
    BY <1>1, <1>2, <1>3 DEF DataInv, Unrecorded, Active
  <1>7. QED
    BY <1>3, <1>5, <1>6 DEF DataInv

LEMMA TimeOutData ==
  ASSUME WatchInv, DataInv, NEW w \in Watcher, TimeOut(w)
  PROVE  DataInv'
  <1>1. /\ End(w) /\ Running(w) /\ w \in Watcher
        /\ UNCHANGED <<row, recorded, transcript>>
    BY DEF TimeOut, End, agent, Awake
  <1>2. /\ Texts' /\ Times' /\ Starts' /\ SeenBefore' /\ AllQueued' /\ Opened'
        /\ \A x \in Remounted : Open(x)' => Open(x) /\ watcher'[x] = watcher[x]
    BY <1>1, EndedData
  <1>3. PICK c \in Conversation, s \in 0..MaxSteps : c = watcher[w].conv /\ s = watcher[w].start
    BY <1>1, TaskType DEF DataInv, Starts
  <1>4. CASE told' = told \cup {Task(w)} /\ posts' = posts
    <2>1. told' \subseteq Request
      BY <1>1, <1>4, TaskType DEF DataInv, Results
    <2>2. Results'
      BY <1>1, <1>4, <2>1, StillResults DEF DataInv
    <2>3. Unrecorded'
      BY <1>1, <1>2 DEF DataInv, Unrecorded, Active
    <2>4. QED
      BY <1>2, <2>2, <2>3 DEF DataInv
  <1>5. CASE FinalContent(c, s) # 0 /\ Post(c, FinalContent(c, s)) /\ told' = told
    <2>1. PICK i \in 1..MaxSteps : /\ i = FinalContent(c, s) /\ i \in Steps(c)
                                   /\ transcript[c][i].kind = "answer"
      BY <1>5, FinalContentFound DEF DataInv
    <2>2. Post(c, i)
      BY <1>5, <2>1
    <2>3. /\ posts' \in [Conversation -> [1..MaxSteps -> Nat]]
          /\ \A d \in Conversation, j \in 1..MaxSteps :
                posts'[d][j] > 0 => j \in Steps(d)' /\ transcript'[d][j].kind = "answer"
      BY <1>1, <2>1, <2>2, PostedData DEF DataInv
    <2>4. Results'
      BY <1>1, <1>5, <2>3 DEF DataInv, Results, Steps
    <2>5. Unrecorded'
      BY <1>1, <1>2 DEF DataInv, Unrecorded, Active
    <2>6. QED
      BY <1>2, <2>4, <2>5 DEF DataInv
  <1>6. QED
    BY <1>3, <1>4, <1>5 DEF TimeOut, ToldOnTimeOut

LEMMA DeliverData ==
  ASSUME WatchInv, DataInv, NEW w \in Watcher, Deliver(w)
  PROVE  DataInv'
  <1>1. /\ End(w) /\ Running(w) /\ ready = <<>> /\ Mark(w, "completed")
        /\ UNCHANGED <<told, transcript>>
    BY DEF Deliver, End, agent, Awake
  <1>2. PICK c \in Conversation, s \in 0..MaxSteps : c = watcher[w].conv /\ s = watcher[w].start
    BY <1>1, TaskType DEF DataInv, Starts
  <1>3. PICK i \in 1..MaxSteps : /\ i = FinalContent(c, s) /\ i \in Steps(c)
                                 /\ transcript[c][i].kind = "answer"
    BY <1>2, FinalContentFound, DoneFound DEF DataInv, Deliver
  <1>4. /\ Post(c, i)
        /\ recorded' = IF w = "watchdog" THEN recorded ELSE recorded \cup {<<c, i>>}
    BY <1>2, <1>3 DEF Deliver
  <1>5. /\ row' = Nobody \/ (row # Nobody /\ row'.conv = row.conv)
        /\ Active(row') => row' = row /\ w = "watchdog"
    BY <1>1, MarkedRow
  <1>6. /\ Texts' /\ Times' /\ Starts' /\ SeenBefore' /\ AllQueued' /\ Opened'
        /\ \A x \in Remounted : Open(x)' => Open(x) /\ x # w /\ watcher'[x] = watcher[x]
    BY <1>1, <1>5, EndedData
  <1>7. /\ posts' \in [Conversation -> [1..MaxSteps -> Nat]]
        /\ \A d \in Conversation, j \in 1..MaxSteps :
              posts'[d][j] > 0 => j \in Steps(d)' /\ transcript'[d][j].kind = "answer"
    BY <1>1, <1>3, <1>4, PostedData DEF DataInv
  <1>8. Results'
    <2>1. recorded' \subseteq Conversation \X (1..MaxSteps)
      BY <1>4 DEF DataInv, Results
    <2>2. \A d \in Conversation, j \in 1..MaxSteps : <<d, j>> \in recorded' => j \in Steps(d)'
      BY <1>1, <1>3, <1>4 DEF DataInv, Results, Steps
    <2>3. QED
      BY <1>1, <1>7, <2>1, <2>2 DEF DataInv, Results
  <1>9. Unrecorded'
    <2>1. Active(row') => \A j \in 1..MaxSteps : <<row'.conv, j>> \notin recorded'
      BY <1>4, <1>5 DEF DataInv, Unrecorded, Active
    <2>2. ASSUME NEW x \in Remounted, Open(x)', NEW j \in 1..MaxSteps
          PROVE  <<watcher'[x].conv, j>> \notin recorded'
      <3>1. Open(x) /\ x # w /\ watcher'[x] = watcher[x] /\ x \in Watcher
        BY <1>6, <2>2 DEF Watcher
      <3>2. watcher[x].state # "created"
        BY <1>1, <3>1 DEF DataInv, AllQueued
      <3>3. Running(x)
        BY <3>1, <3>2 DEF Open, Running
      <3>4. watcher[x].conv # c
        BY <1>1, <1>2, <3>1, <3>3 DEF WatchInv, OneWatcher
      <3>5. <<watcher[x].conv, j>> \notin recorded
        BY <3>1 DEF DataInv, Unrecorded
      <3>6. QED
        BY <1>4, <3>1, <3>4, <3>5
    <2>3. QED
      BY <2>1, <2>2 DEF Unrecorded
  <1>10. QED
    BY <1>6, <1>8, <1>9 DEF DataInv

\* A request begins: what was posted so far lies before the steps it will read.
LEMMA BeginData ==
  ASSUME WatchInv, DataInv, NEW r \in Request, Begin(r)
  PROVE  DataInv'
  <1>1. /\ stage[r] = "waiting" /\ r \in Watcher /\ r \in Conversation
        /\ UNCHANGED <<row, ready, prompts, transcript, posts, recorded, told, deaths, remounts>>
        /\ seen' = [seen EXCEPT ![r] = {ci \in Conversation \X (1..MaxSteps) : posts[ci[1]][ci[2]] > 0}]
    BY DEF Begin, agent, Watcher, Conversation
  <1>2. PICK S : watcher \in [Watcher -> WatcherType(S)] /\ target \in [Request -> TargetType(S)]
    BY DEF WatchInv, Shape
  <1>3. \/ /\ r \in FollowUp /\ row # Nobody
           /\ watcher' = Cancelled(row.conv)
           /\ target' = [target EXCEPT ![r] = [conv |-> row.conv, start |-> StartStep(row.conv)]]
           /\ stage' = [stage EXCEPT ![r] = "sending"]
        \/ /\ stage' = [stage EXCEPT ![r] = "creating"]
           /\ UNCHANGED <<target, watcher>>
    BY DEF Begin
  <1>4. Calm(watcher')
    <2>1. CASE row # Nobody /\ watcher' = Cancelled(row.conv)
      <3>1. PICK c \in Conversation : c = row.conv
        BY <2>1 DEF WatchInv, RowType
      <3>2. QED
        BY <1>2, <2>1, <3>1, CancelledCalm DEF WatchInv
    <2>2. CASE UNCHANGED watcher
      BY <2>2 DEF Calm, Open
    <2>3. QED
      BY <1>3, <2>1, <2>2
  <1>5. /\ \A q \in Request \ {r} : stage'[q] = stage[q] /\ target'[q] = target[q] /\ seen'[q] = seen[q]
        /\ stage'[r] \in {"sending", "creating"}
        /\ stage'[r] = "sending" =>
              row # Nobody /\ target'[r].conv = row.conv /\ target'[r].start = StartStep(row.conv)
        /\ stage'[r] = "creating" => target'[r] = target[r]
    <2>1. DOMAIN stage = Request /\ DOMAIN target = Request /\ DOMAIN seen = Request
      BY <1>2 DEF WatchInv, Mounts, DataInv, Times
    <2>2. \A q \in Request \ {r} : seen'[q] = seen[q]
      BY <1>1, <2>1
    <2>3. CASE /\ row # Nobody
               /\ target' = [target EXCEPT ![r] = [conv |-> row.conv, start |-> StartStep(row.conv)]]
               /\ stage' = [stage EXCEPT ![r] = "sending"]
      <3>1. /\ stage'[r] = "sending"
            /\ target'[r] = [conv |-> row.conv, start |-> StartStep(row.conv)]
            /\ \A q \in Request \ {r} : stage'[q] = stage[q] /\ target'[q] = target[q]
        BY <2>1, <2>3
      <3>2. QED
        BY <2>2, <2>3, <3>1
    <2>4. CASE stage' = [stage EXCEPT ![r] = "creating"] /\ UNCHANGED <<target, watcher>>
      BY <2>1, <2>2, <2>4
    <2>5. QED
      BY <1>3, <2>3, <2>4
  <1>6. Texts' /\ Results'
    BY <1>1 DEF DataInv, Texts, Results, Steps
  <1>7. Times'
    <2>1. undisturbed' \subseteq undisturbed \cup {r}
      BY DEF Begin
    <2>2. {ci \in Conversation \X (1..MaxSteps) : posts[ci[1]][ci[2]] > 0}
             \in SUBSET (Conversation \X (1..MaxSteps))
      OBVIOUS
    <2>3. QED
      BY <1>1, <2>1, <2>2 DEF DataInv, Times
  <1>8. row # Nobody => row.conv \in Conversation /\ StartStep(row.conv) \in 0..MaxSteps
    <2>1. row # Nobody => row.conv \in Conversation
      BY DEF WatchInv, RowType
    <2>2. \A c \in Conversation : Len(transcript[c]) \in Nat /\ Len(transcript[c]) <= MaxSteps
      BY DEF DataInv, Texts
    <2>3. QED
      BY <2>1, <2>2, BoundAssumption DEF StartStep
  <1>9. Starts'
    BY <1>4, <1>5, <1>8 DEF DataInv, Starts, Calm
  <1>10. Opened'
    <2>1. /\ \A q \in Request : stage'[q] # "done" => stage[q] # "done"
          /\ \A q \in Request : stage[q] = "done" => stage'[q] = "done"
      BY <1>1, <1>5
    <2>2. row # Nobody => row.conv \in Request /\ stage[row.conv] = "done"
      BY <1>8 DEF DataInv, Opened, Conversation
    <2>3. ASSUME NEW q \in Request, stage'[q] = "sending"
          PROVE  stage'[target'[q].conv] = "done"
      <3>1. CASE q = r
        BY <1>5, <2>1, <2>2, <2>3, <3>1
      <3>2. CASE q # r
        <4>1. stage[q] = "sending" /\ target'[q] = target[q]
          BY <1>5, <2>3, <3>2
        <4>2. target[q].conv \in Request /\ stage[target[q].conv] = "done"
          BY <4>1 DEF DataInv, Opened, WatchInv, Mounts, Conversation
        <4>3. QED
          BY <2>1, <4>1, <4>2
      <3>3. QED
        BY <3>1, <3>2
    <2>4. \A q \in Request : stage'[q] # "done" => prompts'[q] = <<>> /\ transcript'[q] = <<>>
      BY <1>1, <2>1 DEF DataInv, Opened
    <2>5. row' # Nobody => stage'[row'.conv] = "done"
      BY <1>1, <2>1, <2>2
    <2>6. QED
      BY <2>3, <2>4, <2>5 DEF Opened
  <1>11. SeenBefore'
    <2> SUFFICES ASSUME NEW q \in Request, NEW c \in Conversation, NEW i \in 1..MaxSteps,
                        <<c, i>> \in seen'[q]
                 PROVE  /\ stage'[q] # "done" => c # q
                        /\ stage'[q] = "sending" /\ c = target'[q].conv => i <= target'[q].start
                        /\ watcher'[q].state # "none" /\ c = watcher'[q].conv => i <= watcher'[q].start
      BY DEF SeenBefore
    <2>1. CASE q # r
      <3>1. q \in Watcher /\ stage'[q] = stage[q] /\ target'[q] = target[q] /\ <<c, i>> \in seen[q]
        BY <1>5, <2>1 DEF Watcher
      <3>2. /\ watcher'[q].conv = watcher[q].conv /\ watcher'[q].start = watcher[q].start
            /\ watcher'[q].state = "none" <=> watcher[q].state = "none"
        BY <1>4, <3>1 DEF Calm
      <3>3. QED
        BY <3>1, <3>2 DEF DataInv, SeenBefore
    <2>2. CASE q = r
      <3>1. posts[c][i] > 0
        BY <1>1, <2>2 DEF DataInv, Times
      <3>2. i \in Steps(c)
        BY <3>1 DEF DataInv, Results
      <3>3. c # r
        <4>1. transcript[r] = <<>>
          BY <1>1 DEF DataInv, Opened
        <4>2. QED
          BY <3>2, <4>1 DEF Steps
      <3>4. watcher'[r].state = "none"
        BY <1>1, <1>4 DEF WatchInv, Mounts, Calm
      <3>5. i <= StartStep(c)
        BY <3>2 DEF Steps, StartStep
      <3>6. QED
        BY <1>5, <2>2, <3>3, <3>4, <3>5
    <2>3. QED
      BY <2>1, <2>2
  <1>12. AllQueued'
    BY <1>1, <1>4 DEF DataInv, AllQueued, Calm
  <1>13. Unrecorded'
    <2>1. \A w \in Remounted : w \in Watcher
      BY DEF Watcher
    <2>2. QED
      BY <1>1, <1>4, <2>1 DEF DataInv, Unrecorded, Calm, Open, Active
  <1>14. QED
    BY <1>6, <1>7, <1>9, <1>10, <1>11, <1>12, <1>13 DEF DataInv

\* A call that returns without a watcher. A prompt that arrived all the same is in
\* a conversation that is open.
LEMMA ReturnData ==
  ASSUME WatchInv, DataInv, NEW r \in Request, SendNotFound(r) \/ SendFailed(r) \/ CreateFailed(r)
  PROVE  DataInv'
  <1>1. PICK next \in {"creating", "done"} :
           /\ stage' = [stage EXCEPT ![r] = next]
           /\ target' = [target EXCEPT ![r] = NoTarget]
           /\ stage[r] \in {"sending", "creating"}
           /\ told' \subseteq told \cup {r}
           /\ UNCHANGED <<row, watcher, ready, registry, transcript, posts, recorded, seen,
                          undisturbed, deaths, remounts>>
           /\ \/ prompts' = prompts
              \/ /\ stage[r] = "sending"
                 /\ prompts' = [prompts EXCEPT ![target[r].conv] = Append(@, r)]
    BY DEF SendNotFound, SendFailed, CreateFailed, Return, agent, history
  <1>2. PICK S : target \in [Request -> TargetType(S)]
    BY DEF WatchInv, Shape
  <1>3. /\ \A q \in Request \ {r} : stage'[q] = stage[q] /\ target'[q] = target[q]
        /\ stage'[r] = next /\ stage'[r] # "sending" /\ target'[r].start = 0
    BY <1>1, <1>2 DEF WatchInv, Mounts, NoTarget
  <1>4. prompts' \in [Conversation -> Seq(Request)]
        /\ \A q \in Request : stage[q] # "done" => prompts'[q] = <<>>
    <2>1. CASE prompts' = prompts
      BY <2>1 DEF DataInv, Texts, Opened
    <2>2. CASE stage[r] = "sending" /\ prompts' = [prompts EXCEPT ![target[r].conv] = Append(@, r)]
      <3>1. PICK c \in Conversation : c = target[r].conv /\ stage[c] = "done"
        BY <2>2 DEF WatchInv, Mounts, DataInv, Opened
      <3>2. prompts \in [Conversation -> Seq(Request)] /\ Append(prompts[c], r) \in Seq(Request)
        BY DEF DataInv, Texts
      <3>3. prompts' = [prompts EXCEPT ![c] = Append(prompts[c], r)]
        BY <2>2, <3>1
      <3>4. \A q \in Request : q \in Conversation
        BY DEF Conversation
      <3>5. QED
        BY <3>1, <3>2, <3>3, <3>4 DEF DataInv, Opened
    <2>3. QED
      BY <1>1, <2>1, <2>2
  <1>5. Texts'
    BY <1>1, <1>4 DEF DataInv, Texts
  <1>6. Results'
    BY <1>1, StillResults DEF DataInv, Results
  <1>7. Times' /\ AllQueued' /\ Unrecorded'
    BY <1>1 DEF DataInv, Times, AllQueued, Unrecorded, Open, Active
  <1>8. Starts'
    BY <1>1, <1>3, BoundAssumption DEF DataInv, Starts
  <1>9. Opened'
    <2>1. \A c \in Request : stage[c] = "done" => stage'[c] = "done"
      BY <1>1, <1>3
    <2>2. row # Nobody => row.conv \in Request
      BY DEF WatchInv, RowType, Conversation
    <2>3. \A q \in Request : stage[q] = "sending" => target[q].conv \in Request
      BY DEF WatchInv, Mounts, Conversation
    <2>4. \A q \in Request : stage'[q] # "done" => stage[q] # "done"
      BY <2>1
    <2>5. QED
      BY <1>1, <1>3, <1>4, <2>1, <2>2, <2>3, <2>4 DEF DataInv, Opened
  <1>10. SeenBefore'
    <2>1. \A q \in Request : stage'[q] # "done" => stage[q] # "done"
      BY <1>1, <1>3
    <2>2. QED
      BY <1>1, <1>3, <2>1 DEF DataInv, SeenBefore
  <1>11. QED
    BY <1>5, <1>6, <1>7, <1>8, <1>9, <1>10 DEF DataInv

\* What is launched waits to start behind everything that was created.
LEMMA CalmQueued ==
  ASSUME Queued, AllQueued, NEW v, Calm(v), NEW w \in Watcher,
         \A x \in Watcher \ {w} : watcher'[x] = v[x],
         ready' = Append(ready, w)
  PROVE  AllQueued'
  <1>1. /\ Len(ready) \in Nat /\ Len(ready') = Len(ready) + 1 /\ ready'[Len(ready) + 1] = w
        /\ \A i \in 1..Len(ready) : ready'[i] = ready[i]
    BY DEF Queued
  <1> SUFFICES ASSUME NEW x \in Watcher, watcher'[x].state = "created"
               PROVE  \E i \in 1..Len(ready') : ready'[i] = x
    BY DEF AllQueued
  <1>2. CASE x = w
    <2>1. Len(ready) + 1 \in 1..Len(ready')
      BY <1>1
    <2>2. QED
      BY <1>1, <1>2, <2>1
  <1>3. CASE x # w
    <2>1. PICK i \in 1..Len(ready) : ready[i] = x
      BY <1>3 DEF Calm, AllQueued
    <2>2. i \in 1..Len(ready')
      BY <1>1
    <2>3. QED
      BY <1>1, <2>1, <2>2
  <1>4. QED
    BY <1>2, <1>3

\* A call that returns with a conversation to be watched: one that is open, or the
\* one the call opened.
LEMMA LaunchData ==
  ASSUME WatchInv, DataInv, NEW r \in Request, SendOk(r) \/ CreateOk(r)
  PROVE  DataInv'
  <1>1. PICK S : watcher \in [Watcher -> WatcherType(S)] /\ target \in [Request -> TargetType(S)]
    BY DEF WatchInv, Shape
  <1>2. /\ r \in Watcher /\ r \in Conversation
        /\ stage[r] \in {"sending", "creating"}
        /\ stage' = [stage EXCEPT ![r] = "done"] /\ target' = [target EXCEPT ![r] = NoTarget]
        /\ UNCHANGED <<registry, transcript, posts, recorded, told, seen, undisturbed, deaths, remounts>>
    BY DEF SendOk, CreateOk, Return, history, Watcher, Conversation
  <1>3. PICK c \in Conversation, start \in 0..MaxSteps, v \in [Watcher -> WatcherType(S)] :
           /\ Calm(v) /\ Launch(r, c, start, v)
           /\ prompts' = [prompts EXCEPT ![c] = Append(prompts[c], r)]
           /\ stage[c] = "done" \/ c = r
           /\ \A i \in 1..MaxSteps : <<c, i>> \in seen[r] => i <= start
           /\ row' = row \/ row' = [conv |-> r, status |-> "active"]
    <2>1. CASE SendOk(r)
      <3>1. stage[r] = "sending"
        BY <2>1 DEF SendOk
      <3>2. PICK c \in Conversation, start \in 0..MaxSteps : c = target[r].conv /\ start = target[r].start
        BY <3>1 DEF WatchInv, Mounts, DataInv, Starts
      <3>3. PICK v \in [Watcher -> WatcherType(S)] : v = watcher /\ Calm(v)
        BY <1>1 DEF Calm, Open
      <3>4. /\ Launch(r, c, start, v) /\ row' = row
            /\ prompts' = [prompts EXCEPT ![c] = Append(prompts[c], r)]
        BY <2>1, <3>2, <3>3 DEF SendOk
      <3>5. stage[c] = "done" /\ \A i \in 1..MaxSteps : <<c, i>> \in seen[r] => i <= start
        BY <3>1, <3>2 DEF DataInv, Opened, SeenBefore
      <3>6. QED
        BY <3>3, <3>4, <3>5
    <2>2. CASE CreateOk(r)
      <3>1. stage[r] = "creating"
        BY <2>2 DEF CreateOk
      <3>2. PICK v \in [Watcher -> WatcherType(S)] : v = Cancelled(r) /\ Calm(v)
        BY <1>1, <1>2, CancelledCalm DEF WatchInv
      <3>3. /\ Launch(r, r, 0, v) /\ row' = [conv |-> r, status |-> "active"]
            /\ prompts' = [prompts EXCEPT ![r] = Append(prompts[r], r)]
        BY <2>2, <3>2 DEF CreateOk
      <3>4. \A i \in 1..MaxSteps : <<r, i>> \notin seen[r]
        BY <1>2, <3>1 DEF DataInv, SeenBefore
      <3>5. 0 \in 0..MaxSteps
        BY BoundAssumption
      <3>6. QED
        BY <1>2, <3>2, <3>3, <3>4, <3>5
    <2>3. QED
      BY <2>1, <2>2
  <1>4. watcher' = [v EXCEPT ![r] = Mounted(c, start)] /\ ready' = Append(ready, r)
    BY <1>3 DEF Launch
  <1>5. /\ watcher'[r].conv = c /\ watcher'[r].start = start /\ watcher'[r].state = "created"
        /\ \A x \in Watcher \ {r} : watcher'[x] = v[x]
    BY <1>2, <1>4 DEF Mounted
  <1>6. /\ stage'[r] = "done" /\ target'[r].start = 0
        /\ \A q \in Request \ {r} : stage'[q] = stage[q] /\ target'[q] = target[q]
    BY <1>1, <1>2 DEF WatchInv, Mounts, NoTarget
  <1>7. \A q \in Request : stage[q] = "done" => stage'[q] = "done"
    BY <1>6
  <1>8. stage'[c] = "done"
    BY <1>3, <1>6, <1>7 DEF Conversation
  <1>9. prompts' \in [Conversation -> Seq(Request)]
        /\ \A q \in Request : stage'[q] # "done" => prompts'[q] = <<>>
    <2>1. prompts \in [Conversation -> Seq(Request)] /\ Append(prompts[c], r) \in Seq(Request)
      BY DEF DataInv, Texts
    <2>2. \A q \in Request \ {c} : prompts'[q] = prompts[q]
      BY <1>3, <2>1 DEF Conversation
    <2>3. QED
      BY <1>3, <1>7, <1>8, <2>1, <2>2 DEF DataInv, Opened
  <1>10. Texts'
    BY <1>2, <1>9 DEF DataInv, Texts
  <1>11. Results'
    BY <1>2, StillResults DEF DataInv, Results
  <1>12. Times'
    BY <1>2 DEF DataInv, Times
  <1>13. Starts'
    <2>1. \A x \in Watcher : watcher'[x].start \in 0..MaxSteps
      BY <1>3, <1>5 DEF DataInv, Starts, Calm
    <2>2. \A q \in Request : target'[q].start \in 0..MaxSteps
      BY <1>6, BoundAssumption DEF DataInv, Starts
    <2>3. QED
      BY <2>1, <2>2 DEF Starts
  <1>14. Opened'
    <2>1. \A q \in Request : stage'[q] # "done" => prompts'[q] = <<>> /\ transcript'[q] = <<>>
      BY <1>2, <1>7, <1>9 DEF DataInv, Opened
    <2>2. row' # Nobody => stage'[row'.conv] = "done"
      <3>1. CASE row' = row
        <4>1. row # Nobody => row.conv \in Request /\ stage[row.conv] = "done"
          BY DEF WatchInv, RowType, DataInv, Opened, Conversation
        <4>2. QED
          BY <1>7, <3>1, <4>1
      <3>2. CASE row' = [conv |-> r, status |-> "active"]
        BY <1>6, <3>2
      <3>3. QED
        BY <1>3, <3>1, <3>2
    <2>3. ASSUME NEW q \in Request, stage'[q] = "sending"
          PROVE  stage'[target'[q].conv] = "done"
      <3>1. stage[q] = "sending" /\ target'[q] = target[q]
        BY <1>6, <2>3
      <3>2. target[q].conv \in Request /\ stage[target[q].conv] = "done"
        BY <3>1 DEF WatchInv, Mounts, DataInv, Opened, Conversation
      <3>3. QED
        BY <1>7, <3>1, <3>2
    <2>4. QED
      BY <2>1, <2>2, <2>3 DEF Opened
  <1>15. SeenBefore'
    <2> SUFFICES ASSUME NEW q \in Request, NEW d \in Conversation, NEW i \in 1..MaxSteps,
                        <<d, i>> \in seen[q]
                 PROVE  /\ stage'[q] # "done" => d # q
                        /\ stage'[q] = "sending" /\ d = target'[q].conv => i <= target'[q].start
                        /\ watcher'[q].state # "none" /\ d = watcher'[q].conv => i <= watcher'[q].start
      BY <1>2 DEF SeenBefore
    <2>1. CASE q = r
      BY <1>3, <1>5, <1>6, <2>1
    <2>2. CASE q # r
      <3>1. q \in Watcher /\ stage'[q] = stage[q] /\ target'[q] = target[q] /\ watcher'[q] = v[q]
        BY <1>5, <1>6, <2>2 DEF Watcher
      <3>2. /\ v[q].conv = watcher[q].conv /\ v[q].start = watcher[q].start
            /\ v[q].state = "none" <=> watcher[q].state = "none"
        BY <1>3, <3>1 DEF Calm
      <3>3. QED
        BY <3>1, <3>2 DEF DataInv, SeenBefore
    <2>3. QED
      BY <2>1, <2>2
  <1>16. AllQueued'
    BY <1>2, <1>3, <1>4, <1>5, CalmQueued DEF WatchInv, DataInv
  <1>17. Unrecorded'
    <2>1. Active(row') => \A i \in 1..MaxSteps : <<row'.conv, i>> \notin recorded
      <3>1. CASE row' = row
        BY <3>1 DEF DataInv, Unrecorded, Active
      <3>2. CASE row' = [conv |-> r, status |-> "active"]
        <4>1. transcript[r] = <<>>
          BY <1>2 DEF DataInv, Opened
        <4>2. Steps(r) = {} /\ row'.conv = r
          BY <3>2, <4>1 DEF Steps
        <4>3. QED
          BY <1>2, <4>2 DEF DataInv, Results
      <3>3. QED
        BY <1>3, <3>1, <3>2
    <2>2. \A w \in Remounted : w \in Watcher \ {r}
      BY NameAssumption DEF Watcher
    <2>3. ASSUME NEW w \in Remounted, Open(w)'
          PROVE  Open(w) /\ watcher'[w].conv = watcher[w].conv
      BY <1>3, <1>5, <2>2, <2>3 DEF Calm, Open
    <2>4. QED
      BY <1>2, <2>1, <2>3 DEF DataInv, Unrecorded
  <1>18. QED
    BY <1>10, <1>11, <1>12, <1>13, <1>14, <1>15, <1>16, <1>17 DEF DataInv

LEMMA RemountData ==
  ASSUME WatchInv, DataInv, Remount
  PROVE  DataInv'
  <1>1. PICK S : watcher \in [Watcher -> WatcherType(S)]
    BY DEF WatchInv, Shape
  <1>2. PICK c \in Conversation : c = row.conv /\ Active(row)
    BY DEF Remount, Active, WatchInv, RowType
  <1>3. PICK v \in [Watcher -> WatcherType(S)] : v = Cancelled(c) /\ Calm(v)
    BY <1>1, CancelledCalm DEF WatchInv
  <1>4. PICK w \in Watcher : w = "watchdog" /\ w \notin Request
    BY NameAssumption DEF Watcher, Remounted
  <1>5. /\ Launch(w, c, 0, v)
        /\ UNCHANGED <<stage, target, row, prompts, transcript, posts, recorded, told, seen, deaths>>
        /\ deaths + remounts < MaxCuts /\ remounts' = remounts + 1
        /\ undisturbed' \subseteq undisturbed
    BY <1>2, <1>3, <1>4 DEF Remount, agent
  <1>6. watcher' = [v EXCEPT ![w] = Mounted(c, 0)] /\ ready' = Append(ready, w)
    BY <1>5 DEF Launch
  <1>7. /\ watcher'[w].conv = c /\ watcher'[w].start = 0 /\ watcher'[w].state = "created"
        /\ \A x \in Watcher \ {w} : watcher'[x] = v[x]
    BY <1>4, <1>6 DEF Mounted
  <1>8. Texts' /\ Opened'
    BY <1>5 DEF DataInv, Texts, Opened
  <1>9. Results'
    BY <1>5, StillResults DEF DataInv, Results
  <1>10. Times'
    BY <1>5, BoundAssumption DEF DataInv, Times
  <1>11. Starts'
    <2>1. \A x \in Watcher : watcher'[x].start \in 0..MaxSteps
      BY <1>3, <1>7, BoundAssumption DEF DataInv, Starts, Calm
    <2>2. QED
      BY <1>5, <2>1 DEF DataInv, Starts
  <1>12. SeenBefore'
    <2>1. \A q \in Request : q \in Watcher \ {w}
      BY <1>4 DEF Watcher
    <2>2. \A q \in Request : /\ watcher'[q].conv = watcher[q].conv
                             /\ watcher'[q].start = watcher[q].start
                             /\ watcher'[q].state = "none" <=> watcher[q].state = "none"
      BY <1>3, <1>7, <2>1 DEF Calm
    <2>3. QED
      BY <1>5, <2>2 DEF DataInv, SeenBefore
  <1>13. AllQueued'
    BY <1>3, <1>4, <1>6, <1>7, CalmQueued DEF WatchInv, DataInv
  <1>14. Unrecorded'
    <2>1. \A x \in Remounted : x \in Watcher
      BY DEF Watcher
    <2>2. \A i \in 1..MaxSteps : <<c, i>> \notin recorded
      BY <1>2 DEF DataInv, Unrecorded
    <2>3. ASSUME NEW x \in Remounted, Open(x)', NEW i \in 1..MaxSteps
          PROVE  <<watcher'[x].conv, i>> \notin recorded
      <3>1. CASE x = w
        BY <1>7, <2>2, <3>1
      <3>2. CASE x # w
        <4>1. Open(x) /\ watcher'[x].conv = watcher[x].conv
          BY <1>3, <1>7, <2>1, <2>3, <3>2 DEF Calm, Open
        <4>2. QED
          BY <4>1 DEF DataInv, Unrecorded
      <3>3. QED
        BY <3>1, <3>2
    <2>4. QED
      BY <1>2, <1>5, <2>2, <2>3 DEF Unrecorded
  <1>15. QED
    BY <1>8, <1>9, <1>10, <1>11, <1>12, <1>13, <1>14 DEF DataInv

\* A new process takes over the row, the conversations and what was recorded.
LEMMA RebootData ==
  ASSUME WatchInv, DataInv, Results', NEW o \in Request \cup {Nobody}, Reboot(o),
         o # Nobody => stage[o] = "creating"
  PROVE  DataInv'
  <1>1. /\ deaths + remounts < MaxCuts /\ deaths' = deaths + 1
        /\ stage' = [r \in Request |-> IF r = o THEN "done"
                                     ELSE IF InFlight(r) THEN "waiting" ELSE stage[r]]
        /\ target' = [r \in Request |-> NoTarget]
        /\ undisturbed' \subseteq undisturbed
        /\ UNCHANGED <<transcript, recorded, seen, remounts>>
    BY DEF Reboot
  <1>2. PICK arrived \in SUBSET {r \in Request : stage[r] = "sending"} :
           prompts' = [c \in Conversation |->
                          IF c = o THEN <<c>>
                          ELSE prompts[c] \o SetToSeq({r \in arrived : target[r].conv = c})]
    BY DEF Reboot
  <1>3. \A q \in Request : /\ stage'[q] = "done" <=> stage[q] = "done" \/ q = o
                           /\ stage'[q] # "sending" /\ target'[q].start = 0
    BY <1>1 DEF InFlight, NoTarget
  <1>4. PICK w \in Watcher : w = "boot" /\ w \notin Request /\ w \in Remounted
    BY NameAssumption DEF Watcher, Remounted
  <1>5. /\ \A x \in Watcher \ {w} : watcher'[x].state = "none" /\ watcher'[x].start = 0
        /\ watcher'[w].start = 0
        /\ \/ watcher'[w].state = "none"
           \/ /\ Active(row') /\ ready' = <<w>> /\ watcher'[w].conv = row'.conv
    <2>1. PICK dead : dead = [x \in Watcher |-> NoWatcher]
      OBVIOUS
    <2>2. \A x \in Watcher : dead[x].state = "none" /\ dead[x].start = 0
      BY <2>1 DEF NoWatcher
    <2>3. CASE Active(row')
      <3>1. watcher' = [dead EXCEPT ![w] = Mounted(row'.conv, 0)] /\ ready' = <<w>>
        BY <1>4, <2>1, <2>3 DEF Reboot, ResumeStep
      <3>2. watcher'[w] = Mounted(row'.conv, 0) /\ \A x \in Watcher \ {w} : watcher'[x] = dead[x]
        BY <2>1, <3>1
      <3>3. QED
        BY <2>2, <2>3, <3>1, <3>2 DEF Mounted
    <2>4. CASE ~Active(row')
      BY <2>1, <2>2, <2>4 DEF Reboot
    <2>5. QED
      BY <2>3, <2>4
  <1>6. /\ prompts' \in [Conversation -> Seq(Request)]
        /\ \A q \in Request : stage'[q] # "done" => prompts'[q] = <<>>
    <2>1. ASSUME NEW c \in Conversation, c # o
          PROVE  /\ prompts'[c] \in Seq(Request)
                 /\ {r \in arrived : target[r].conv = c} = {} => prompts'[c] = prompts[c]
      <3>1. PICK A \in SUBSET Request : A = {r \in arrived : target[r].conv = c}
        OBVIOUS
      <3>2. SetToSeq(A) \in Seq(Request) /\ (A = {} => SetToSeq(A) = <<>>)
        BY SetToSeqType
      <3>3. PICK s \in Seq(Request), p \in Seq(Request) :
                s = SetToSeq(A) /\ p = prompts[c] /\ prompts'[c] = p \o s
        BY <1>2, <2>1, <3>1, <3>2 DEF DataInv, Texts
      <3>4. p \o s \in Seq(Request) /\ (s = <<>> => p \o s = p)
        OBVIOUS
      <3>5. QED
        BY <3>1, <3>2, <3>3, <3>4
    <2>2. prompts' \in [Conversation -> Seq(Request)]
      <3>1. ASSUME NEW c \in Conversation, c = o PROVE prompts'[c] \in Seq(Request)
        BY <1>2, <3>1 DEF Conversation
      <3>2. QED
        BY <1>2, <2>1, <3>1
    <2>3. ASSUME NEW q \in Request, stage'[q] # "done"
          PROVE  prompts'[q] = <<>>
      <3>1. stage[q] # "done" /\ q # o
        BY <1>3, <2>3
      <3>2. {r \in arrived : target[r].conv = q} = {}
        BY <3>1 DEF DataInv, Opened
      <3>3. QED
        BY <2>1, <3>1, <3>2 DEF DataInv, Opened, Conversation
    <2>4. QED
      BY <2>2, <2>3
  <1>7. Texts'
    BY <1>1, <1>6 DEF DataInv, Texts
  <1>8. Times'
    BY <1>1, BoundAssumption DEF DataInv, Times
  <1>9. Starts'
    BY <1>3, <1>5, BoundAssumption DEF Starts
  <1>10. Opened'
    <2>1. /\ row # Nobody => row.conv \in Request
          /\ o = Nobody => row' = row
          /\ o # Nobody => row'.conv = o
      BY RowLeftType DEF WatchInv, RowType, Conversation
    <2>2. row' # Nobody => stage'[row'.conv] = "done"
      BY <1>3, <2>1 DEF DataInv, Opened
    <2>3. QED
      BY <1>1, <1>3, <1>6, <2>2 DEF DataInv, Opened
  <1>11. SeenBefore'
    <2>1. \A q \in Request : q \in Watcher \ {w}
      BY <1>4 DEF Watcher
    <2>2. \A q \in Request : watcher'[q].state = "none"
      BY <1>5, <2>1
    <2>3. QED
      BY <1>1, <1>3, <2>2 DEF DataInv, SeenBefore
  <1>12. AllQueued'
    <2> SUFFICES ASSUME NEW x \in Watcher, watcher'[x].state = "created"
                 PROVE  \E i \in 1..Len(ready') : ready'[i] = x
      BY DEF AllQueued
    <2>1. x = w /\ ready' = <<w>>
      BY <1>5
    <2>2. 1 \in 1..Len(ready') /\ ready'[1] = x
      BY <2>1
    <2>3. QED
      BY <2>2
  <1>13. Unrecorded'
    <2>1. \A x \in Remounted : x \in Watcher
      BY DEF Watcher
    <2>2. \A x \in Remounted : Open(x)' => Active(row') /\ watcher'[x].conv = row'.conv
      BY <1>5, <2>1 DEF Open
    <2>3. ASSUME Active(row'), NEW i \in 1..MaxSteps PROVE <<row'.conv, i>> \notin recorded
      <3>1. CASE o = Nobody
        BY <2>3, <3>1, RowLeftType DEF WatchInv, DataInv, Unrecorded
      <3>2. CASE o # Nobody
        <4>1. row'.conv = o /\ o \in Conversation
          BY <3>2, RowLeftType DEF WatchInv, Conversation
        <4>2. Steps(o) = {}
          BY <3>2 DEF DataInv, Opened, Steps
        <4>3. QED
          BY <4>1, <4>2 DEF DataInv, Results
      <3>3. QED
        BY <3>1, <3>2
    <2>4. QED
      BY <1>1, <2>2, <2>3 DEF Unrecorded
  <1>14. QED
    BY <1>7, <1>8, <1>9, <1>10, <1>11, <1>12, <1>13 DEF DataInv

LEMMA KilledData ==
  ASSUME WatchInv, DataInv, NEW w \in Watcher, KilledAfterPost(w)
  PROVE  DataInv'
  <1>1. /\ Running(w) /\ Reboot(Nobody) /\ UNCHANGED <<told, transcript, recorded>>
    BY DEF KilledAfterPost, Awake, Reboot
  <1>2. PICK c \in Conversation, s \in 0..MaxSteps : c = watcher[w].conv /\ s = watcher[w].start
    BY <1>1, TaskType DEF DataInv, Starts
  <1>3. PICK i \in 1..MaxSteps : /\ i = FinalContent(c, s) /\ i \in Steps(c)
                                 /\ transcript[c][i].kind = "answer"
    BY <1>2, FinalContentFound, DoneFound DEF DataInv, KilledAfterPost
  <1>4. Post(c, i)
    BY <1>2, <1>3 DEF KilledAfterPost
  <1>5. /\ posts' \in [Conversation -> [1..MaxSteps -> Nat]]
        /\ \A d \in Conversation, j \in 1..MaxSteps :
              posts'[d][j] > 0 => j \in Steps(d)' /\ transcript'[d][j].kind = "answer"
    BY <1>1, <1>3, <1>4, PostedData DEF DataInv
  <1>6. Results'
    BY <1>1, <1>5 DEF DataInv, Results, Steps
  <1>7. QED
    BY <1>1, <1>6, RebootData

\* A death that posts nothing: in no particular place, or just after a row.
LEMMA QuietDeathData ==
  ASSUME WatchInv, DataInv, Restart \/ \E r \in Request : KilledAfterRow(r)
  PROVE  DataInv'
  <1>1. PICK o \in Request \cup {Nobody} :
           /\ Reboot(o)
           /\ o # Nobody => stage[o] = "creating"
           /\ UNCHANGED <<posts, told>>
    BY DisjointAssumption DEF Restart, KilledAfterRow, Request
  <1>2. UNCHANGED <<posts, told, recorded, transcript>>
    BY <1>1 DEF Reboot
  <1>3. Results'
    BY <1>2, StillResults DEF DataInv, Results
  <1>4. QED
    BY <1>1, <1>3, RebootData

\* Antigravity writes a step for a prompt that is there.
LEMMA AgentData ==
  ASSUME WatchInv, DataInv, NEW c \in Conversation, NEW kind \in {"tools", "answer", "error"},
         Step(c, kind), prompts' = prompts \/ prompts' = [prompts EXCEPT ![c] = Tail(prompts[c])]
  PROVE  DataInv'
  <1>1. /\ prompts[c] # <<>> /\ Len(transcript[c]) < MaxSteps
        /\ UNCHANGED <<stage, target, row, watcher, ready, posts, recorded, told, seen,
                       undisturbed, deaths, remounts>>
    BY DEF Step, daemon, history
  <1>2. PICK p \in Seq(Request) : p = prompts[c] /\ p # <<>>
    BY <1>1 DEF DataInv, Texts
  <1>3. PICK t \in Seq(StepType) : t = transcript[c] /\ Len(t) < MaxSteps
    BY <1>1 DEF DataInv, Texts
  <1>4. PICK step \in StepType : step = [req |-> Head(p), kind |-> kind]
    <2>1. Head(p) \in Request
      BY <1>2
    <2>2. QED
      BY <2>1 DEF StepType
  <1>5. transcript' = [transcript EXCEPT ![c] = Append(t, step)]
    BY <1>2, <1>3, <1>4 DEF Step
  <1>6. /\ Append(t, step) \in Seq(StepType) /\ Len(Append(t, step)) = Len(t) + 1
        /\ \A i \in 1..Len(t) : Append(t, step)[i] = t[i]
    OBVIOUS
  <1>7. /\ transcript' \in [Conversation -> Seq(StepType)] /\ transcript'[c] = Append(t, step)
        /\ \A d \in Conversation \ {c} : transcript'[d] = transcript[d]
    BY <1>5, <1>6 DEF DataInv, Texts
  <1>8. /\ prompts' \in [Conversation -> Seq(Request)]
        /\ \A d \in Conversation \ {c} : prompts'[d] = prompts[d]
    <2>1. Tail(p) \in Seq(Request)
      BY <1>2
    <2>2. QED
      BY <1>2, <2>1 DEF DataInv, Texts
  <1>9. Texts'
    <2>1. ASSUME NEW d \in Conversation
          PROVE  Len(transcript'[d]) <= MaxSteps
      <3>1. CASE d = c
        BY <1>3, <1>6, <1>7, <3>1, BoundAssumption
      <3>2. CASE d # c
        BY <1>7, <3>2 DEF DataInv, Texts
      <3>3. QED
        BY <3>1, <3>2
    <2>2. QED
      BY <1>7, <1>8, <2>1 DEF Texts
  <1>10. Results'
    <2>1. ASSUME NEW d \in Conversation, NEW i \in Steps(d)
          PROVE  i \in Steps(d)' /\ transcript'[d][i] = transcript[d][i]
      <3>1. CASE d = c
        <4>1. i \in 1..Len(t) /\ Len(t) \in Nat
          BY <1>3, <3>1 DEF Steps
        <4>2. i \in 1..Len(Append(t, step)) /\ Append(t, step)[i] = t[i]
          BY <1>6, <4>1
        <4>3. transcript'[d] = Append(t, step) /\ transcript[d] = t
          BY <1>3, <1>7, <3>1
        <4>4. QED
          BY <4>2, <4>3 DEF Steps
      <3>2. CASE d # c
        BY <1>7, <3>2 DEF Steps
      <3>3. QED
        BY <3>1, <3>2
    <2>2. QED
      BY <1>1, <2>1 DEF DataInv, Results
  <1>11. Opened'
    <2>1. stage[c] = "done"
      BY <1>1 DEF DataInv, Opened, Conversation
    <2>2. \A q \in Request : stage[q] # "done" => q \in Conversation \ {c}
      BY <2>1 DEF Conversation
    <2>3. \A q \in Request : stage[q] # "done" => prompts'[q] = prompts[q] /\ transcript'[q] = transcript[q]
      BY <1>7, <1>8, <2>2
    <2>4. QED
      BY <1>1, <2>3 DEF DataInv, Opened
  <1>12. Times' /\ Starts' /\ SeenBefore' /\ AllQueued' /\ Unrecorded'
    BY <1>1 DEF DataInv, Times, Starts, SeenBefore, AllQueued, Unrecorded, Open, Active
  <1>13. QED
    BY <1>9, <1>10, <1>11, <1>12 DEF DataInv

\* No watcher runs in a new process yet.
LEMMA RebootStops ==
  ASSUME NEW o, Reboot(o), NEW w \in Watcher
  PROVE  watcher'[w].state # "running"
  <1>1. PICK dead : dead = [x \in Watcher |-> NoWatcher]
    OBVIOUS
  <1>2. watcher' = dead \/ watcher' = [dead EXCEPT !["boot"] = Mounted(row'.conv, ResumeStep(row'.conv))]
    BY <1>1 DEF Reboot
  <1>3. watcher'[w] = NoWatcher \/ watcher'[w] = Mounted(row'.conv, ResumeStep(row'.conv))
    BY <1>1, <1>2
  <1>4. QED
    BY <1>3 DEF NoWatcher, Mounted

LEMMA NextData ==
  ASSUME WatchInv, DataInv, [Next]_vars
  PROVE  DataInv'
  <1>1. CASE Start
    BY <1>1, StartData
  <1>2. ASSUME NEW w \in Watcher,
               Unwind(w) \/ Deliver(w) \/ Report(w) \/ TimeOut(w) \/ KilledAfterPost(w)
        PROVE  DataInv'
    BY <1>2, UnwindData, DeliverData, ReportData, TimeOutData, KilledData
  <1>3. ASSUME NEW r \in Request, Begin(r)
        PROVE  DataInv'
    BY <1>3, BeginData
  <1>4. ASSUME NEW r \in Request, SendOk(r) \/ CreateOk(r)
        PROVE  DataInv'
    BY <1>4, LaunchData
  <1>5. ASSUME NEW r \in Request, SendNotFound(r) \/ SendFailed(r) \/ CreateFailed(r)
        PROVE  DataInv'
    BY <1>5, ReturnData
  <1>6. CASE Remount
    BY <1>6, RemountData
  <1>7. CASE Restart \/ \E r \in Request : KilledAfterRow(r)
    BY <1>7, QuietDeathData
  <1>8. ASSUME NEW c \in Conversation, CallTools(c) \/ Answer(c) \/ BreakOff(c)
        PROVE  DataInv'
    <2>1. PICK kind \in {"tools", "answer", "error"} :
             /\ Step(c, kind)
             /\ prompts' = prompts \/ prompts' = [prompts EXCEPT ![c] = Tail(prompts[c])]
      BY <1>8 DEF CallTools, Answer, BreakOff
    <2>2. QED
      BY <2>1, AgentData
  <1>9. CASE UNCHANGED vars
    <2>1. UNCHANGED <<stage, target, row, watcher, ready, prompts, transcript, posts, recorded,
                      told, seen, undisturbed, deaths, remounts>>
      BY <1>9 DEF vars, daemon, agent, history
    <2>2. Texts' /\ Results' /\ Times' /\ Starts' /\ Opened'
      BY <2>1 DEF DataInv, Texts, Results, Times, Starts, Opened, Steps
    <2>3. SeenBefore' /\ AllQueued' /\ Unrecorded'
      BY <2>1 DEF DataInv, SeenBefore, AllQueued, Unrecorded, Open, Active
    <2>4. QED
      BY <2>2, <2>3 DEF DataInv
  <1>10. QED
    BY <1>1, <1>2, <1>3, <1>4, <1>5, <1>6, <1>7, <1>8, <1>9 DEF Next

LEMMA InitData == Init => DataInv
  <1> SUFFICES ASSUME Init PROVE DataInv
    OBVIOUS
  <1>1. Texts /\ Results /\ Times
    BY BoundAssumption DEF Init, Texts, Results, Times, Steps
  <1>2. /\ \A w \in Watcher : watcher[w].state = "none" /\ watcher[w].start = 0
        /\ \A r \in Request : target[r].start = 0
    BY DEF Init, NoWatcher, NoTarget
  <1>3. Starts
    BY <1>2, BoundAssumption DEF Starts
  <1>4. Opened
    BY DEF Init, Opened, Conversation
  <1>5. SeenBefore
    BY DEF Init, SeenBefore
  <1>6. AllQueued /\ Unrecorded
    <2>1. \A w \in Remounted : w \in Watcher
      BY DEF Watcher
    <2>2. QED
      BY <1>2, <2>1 DEF Init, AllQueued, Unrecorded, Open, Active
  <1>7. QED
    BY <1>1, <1>3, <1>4, <1>5, <1>6 DEF DataInv

LEMMA InvariantType ==
  ASSUME WatchInv, DataInv
  PROVE  TypeOK
  <1>1. PICK S : watcher \in [Watcher -> WatcherType(S)] /\ target \in [Request -> TargetType(S)]
    BY DEF WatchInv, Shape
  <1>2. target \in [Request -> [conv : Conversation \cup {Nobody}, start : 0..MaxSteps]]
    <2>1. \A r \in Request : target[r] \in [conv : Conversation \cup {Nobody}, start : 0..MaxSteps]
      BY <1>1 DEF DataInv, Starts, TargetType
    <2>2. QED
      BY <1>1, <2>1
  <1>3. watcher \in [Watcher -> [conv : Conversation \cup {Nobody}, start : 0..MaxSteps,
                                 state : {"none", "created", "running", "cancelled"}]]
    <2>1. \A w \in Watcher : watcher[w] \in [conv : Conversation \cup {Nobody}, start : 0..MaxSteps,
                                             state : {"none", "created", "running", "cancelled"}]
      BY <1>1 DEF DataInv, Starts, WatcherType
    <2>2. QED
      BY <1>1, <2>1
  <1>4. ToSet(ready) = {w \in Watcher : watcher[w].state = "created"}
    <2>1. ready \in Seq(Watcher) /\ DOMAIN ready = 1..Len(ready)
      BY DEF WatchInv, Queued
    <2>2. ToSet(ready) = {ready[i] : i \in 1..Len(ready)}
      BY <2>1 DEF ToSet
    <2>3. \A i \in 1..Len(ready) : ready[i] \in Watcher /\ watcher[ready[i]].state = "created"
      BY <2>1 DEF WatchInv, Queued
    <2>4. QED
      BY <2>2, <2>3 DEF DataInv, AllQueued
  <1>5. \A c \in Conversation : /\ prompts[c] \in Seq(Request)
                                /\ \A i \in Steps(c) : transcript[c][i] \in
                                      [req : Request, kind : {"tools", "answer", "error"}]
    <2>1. ASSUME NEW c \in Conversation, NEW i \in Steps(c)
          PROVE  transcript[c][i] \in StepType
      <3>1. PICK t \in Seq(StepType) : t = transcript[c]
        BY DEF DataInv, Texts
      <3>2. i \in 1..Len(t) => t[i] \in StepType
        BY <3>1
      <3>3. QED
        BY <3>1, <3>2 DEF Steps
    <2>2. QED
      BY <2>1 DEF DataInv, Texts, StepType
  <1>6. /\ stage \in [Request -> {"waiting", "sending", "creating", "done"}]
        /\ row \in [conv : Conversation, status : {"active", "completed", "failed"}] \cup {Nobody}
        /\ registry \in [Conversation -> Watcher \cup {Nobody}]
    BY DEF WatchInv, Mounts, Registered, Stage, RowType
  <1>7. /\ \A c \in Conversation, i \in 1..MaxSteps :
              posts[c][i] > 0 => i \in Steps(c) /\ transcript[c][i].kind = "answer"
        /\ recorded \subseteq Conversation \X (1..MaxSteps)
        /\ told \subseteq Request /\ undisturbed \subseteq Request
        /\ deaths \in Nat /\ remounts \in Nat /\ deaths + remounts <= MaxCuts
    BY DEF DataInv, Results, Times
  <1>8. QED
    BY <1>2, <1>3, <1>4, <1>5, <1>6, <1>7 DEF TypeOK

\* Every variable has its type; only answers are posted, and what waits to start
\* is what was created.
THEOREM TypeCorrect == Spec => []TypeOK
  <1>1. Init => WatchInv /\ DataInv
    BY InitWatch, InitData
  <1>2. WatchInv /\ DataInv /\ [Next]_vars => WatchInv' /\ DataInv'
    BY NextWatch, NextData
  <1>3. WatchInv /\ DataInv => TypeOK
    BY InvariantType
  <1>4. QED
    BY <1>1, <1>2, <1>3, PTL DEF Spec

----------------------------------------------------------------------------
(* Repeated posts *)

Repeated ==
    \A c \in Conversation, i \in 1..MaxSteps :
       posts'[c][i] > posts[c][i] /\ posts[c][i] > 0 =>
          \E w \in Watcher :
             /\ Running(w) /\ watcher[w].conv = c /\ watcher'[w].state # "running"
             /\ IF w \in Remounted THEN <<c, i>> \notin recorded ELSE <<c, i>> \notin seen[w]

\* A running watcher that posts and ends.
LEMMA PostRepeated ==
  ASSUME WatchInv, DataInv, NEW w \in Watcher, Running(w), UNCHANGED transcript,
         FinalContent(watcher[w].conv, watcher[w].start) # 0,
         Post(watcher[w].conv, FinalContent(watcher[w].conv, watcher[w].start)),
         watcher'[w].state # "running"
  PROVE  Repeated
  <1>1. PICK d \in Conversation, s \in 0..MaxSteps : d = watcher[w].conv /\ s = watcher[w].start
    BY TaskType DEF DataInv, Starts
  <1>2. PICK j \in 1..MaxSteps : /\ j = FinalContent(d, s) /\ j \in Steps(d) /\ j > s
                                 /\ transcript[d][j].kind = "answer"
    BY <1>1, FinalContentFound DEF DataInv
  <1>3. Post(d, j)
    BY <1>1, <1>2
  <1>4. \A c \in Conversation, i \in 1..MaxSteps : posts'[c][i] # posts[c][i] => c = d /\ i = j
    BY <1>2, <1>3, PostedData DEF DataInv
  <1>5. posts[d][j] \in Nat
    BY DEF DataInv, Results
  <1>6. IF w \in Remounted THEN <<d, j>> \notin recorded ELSE <<d, j>> \notin seen[w]
    <2>1. CASE w \in Remounted
      BY <1>1, <2>1 DEF DataInv, Unrecorded, Open, Running
    <2>2. CASE w \notin Remounted
      <3>1. w \in Request
        BY <2>2 DEF Watcher
      <3>2. <<d, j>> \in seen[w] => j <= s
        BY <1>1, <3>1 DEF DataInv, SeenBefore, Running
      <3>3. QED
        BY <1>2, <2>2, <3>2
    <2>3. QED
      BY <2>1, <2>2
  <1> SUFFICES ASSUME NEW c \in Conversation, NEW i \in 1..MaxSteps, posts'[c][i] > posts[c][i]
               PROVE  \E x \in Watcher :
                         /\ Running(x) /\ watcher[x].conv = c /\ watcher'[x].state # "running"
                         /\ IF x \in Remounted THEN <<c, i>> \notin recorded ELSE <<c, i>> \notin seen[x]
    BY DEF Repeated
  <1>7. posts[c][i] \in Nat
    BY DEF DataInv, Results
  <1>8. c = d /\ i = j
    BY <1>4, <1>7
  <1>9. QED
    BY <1>1, <1>6, <1>8

LEMMA NextRepeated ==
  ASSUME WatchInv, DataInv, [Next]_vars
  PROVE  Repeated
  <1>1. ASSUME UNCHANGED posts
        PROVE  Repeated
    <2>1. \A c \in Conversation, i \in 1..MaxSteps : posts[c][i] \in Nat
      BY DEF DataInv, Results
    <2>2. QED
      BY <1>1, <2>1 DEF Repeated
  <1>2. ASSUME NEW w \in Watcher, End(w)
        PROVE  watcher'[w].state # "running" /\ UNCHANGED transcript
    <2>1. PICK S : watcher \in [Watcher -> WatcherType(S)]
      BY DEF WatchInv, Shape
    <2>2. watcher'[w] = NoWatcher
      BY <1>2, <2>1 DEF End
    <2>3. QED
      BY <1>2, <2>2 DEF End, NoWatcher, agent
  <1>3. ASSUME NEW w \in Watcher, Deliver(w)
        PROVE  Repeated
    <2>1. /\ Running(w) /\ End(w)
          /\ FinalContent(watcher[w].conv, watcher[w].start) # 0
          /\ Post(watcher[w].conv, FinalContent(watcher[w].conv, watcher[w].start))
      BY <1>3, DoneFound DEF Deliver, Awake
    <2>2. QED
      BY <1>2, <2>1, PostRepeated
  <1>4. ASSUME NEW w \in Watcher, TimeOut(w)
        PROVE  Repeated
    <2>1. /\ Running(w) /\ End(w)
          /\ \/ posts' = posts
             \/ /\ FinalContent(watcher[w].conv, watcher[w].start) # 0
                /\ Post(watcher[w].conv, FinalContent(watcher[w].conv, watcher[w].start))
      BY <1>4 DEF TimeOut, Awake
    <2>2. QED
      BY <1>1, <1>2, <2>1, PostRepeated
  <1>5. ASSUME NEW w \in Watcher, KilledAfterPost(w)
        PROVE  Repeated
    <2>1. /\ Running(w) /\ Reboot(Nobody) /\ UNCHANGED transcript
          /\ FinalContent(watcher[w].conv, watcher[w].start) # 0
          /\ Post(watcher[w].conv, FinalContent(watcher[w].conv, watcher[w].start))
      BY <1>5, DoneFound DEF KilledAfterPost, Awake, Reboot
    <2>2. watcher'[w].state # "running"
      BY <2>1, RebootStops
    <2>3. QED
      BY <2>1, <2>2, PostRepeated
  <1>6. ASSUME NEW w \in Watcher, Unwind(w) \/ Report(w)
        PROVE  Repeated
    BY <1>1, <1>6 DEF Unwind, Report
  <1>7. ASSUME NEW r \in Request, \/ Begin(r) \/ SendOk(r) \/ SendNotFound(r) \/ SendFailed(r)
                                  \/ CreateOk(r) \/ CreateFailed(r)
        PROVE  Repeated
    BY <1>1, <1>7 DEF Begin, SendOk, SendNotFound, SendFailed, CreateOk, CreateFailed, history
  <1>8. ASSUME Start \/ Remount \/ Restart \/ \E r \in Request : KilledAfterRow(r)
        PROVE  Repeated
    BY <1>1, <1>8 DEF Start, Remount, Restart, KilledAfterRow, history
  <1>9. ASSUME NEW c \in Conversation, CallTools(c) \/ Answer(c) \/ BreakOff(c)
        PROVE  Repeated
    BY <1>1, <1>9 DEF CallTools, Answer, BreakOff, Step, history
  <1>10. CASE UNCHANGED vars
    BY <1>1, <1>10 DEF vars, history
  <1>11. QED
    BY <1>3, <1>4, <1>5, <1>6, <1>7, <1>8, <1>9, <1>10 DEF Next

\* A result that was posted is posted again only by a watcher mounted again before
\* the delivery was recorded, or for a request that began before the result was
\* there; never as the reply to a later request (start_step of
\* watch_and_deliver_result, resume_active_watchers).
THEOREM NoRepeatCorrect == Spec => NoRepeat
  <1>1. Init => WatchInv /\ DataInv
    BY InitWatch, InitData
  <1>2. WatchInv /\ DataInv /\ [Next]_vars => WatchInv' /\ DataInv'
    BY NextWatch, NextData
  <1>3. WatchInv /\ DataInv /\ [Next]_vars => Repeated
    BY NextRepeated
  <1>4. [][Repeated]_vars => NoRepeat
    <2>1. Repeated => \A c \in Conversation, i \in 1..MaxSteps :
             posts'[c][i] > posts[c][i] /\ posts[c][i] > 0 =>
                \E w \in Watcher :
                   /\ Running(w) /\ watcher[w].conv = c /\ watcher'[w].state # "running"
                   /\ IF w \in Remounted THEN <<c, i>> \notin recorded ELSE <<c, i>> \notin seen[w]
      BY DEF Repeated
    <2>2. QED
      BY <2>1, PTL DEF NoRepeat
  <1>5. QED
    BY <1>1, <1>2, <1>3, <1>4, PTL DEF Spec
=============================================================================

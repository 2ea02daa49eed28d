------------------------- MODULE AlertIngressProofs -------------------------
(***************************************************************************)
(* What is proved of AlertIngress for every set of handlers and monitors   *)
(* and every length of the cooldown. The inductive invariant is CoolInv:   *)
(* the cooldown the code keeps and the time since the last alert run in    *)
(* step, and a running cooldown has its alert.                             *)
(***************************************************************************)
EXTENDS AlertIngress, TLAPS

InStep == cooldown = quiet

CoolInv == TypeOK /\ InStep /\ NotSwallowed

\* The initial state: every cooldown is over.
LEMMA InitCool == Init => CoolInv
  BY MonitorAssumption, NothingAssumption, BoundAssumption
  DEF Init, CoolInv, InStep, NotSwallowed, TypeOK

\* Answering a request frees the handler and nothing else.
LEMMA DoneTypes ==
  ASSUME TypeOK, NEW h \in Handler, Done(h)
  PROVE  /\ pc' \in [Handler -> {"idle", "probe", "alive", "dead", "filter"}]
         /\ monitor' \in [Handler -> Monitor \cup {Nothing}]
         /\ again' \in [Handler -> BOOLEAN]
         /\ \A g \in Handler : pc'[g] = "idle" <=> monitor'[g] = Nothing
         /\ \A g \in Handler \ {h} : pc'[g] = pc[g] /\ monitor'[g] = monitor[g]
         /\ pc'[h] = "idle"
  BY DEF TypeOK, Done

\* A request that starts to wait, for the probe or the filter.
LEMMA WaitTypes ==
  ASSUME TypeOK, NEW h \in Handler, NEW m \in Monitor, NEW repeats \in BOOLEAN,
         NEW place \in {"probe", "filter"},
         pc' = [pc EXCEPT ![h] = place],
         monitor' = [monitor EXCEPT ![h] = m],
         again' = [again EXCEPT ![h] = repeats]
  PROVE  /\ pc' \in [Handler -> {"idle", "probe", "alive", "dead", "filter"}]
         /\ monitor' \in [Handler -> Monitor \cup {Nothing}]
         /\ again' \in [Handler -> BOOLEAN]
         /\ \A g \in Handler : pc'[g] = "idle" <=> monitor'[g] = Nothing
         /\ \A g \in Handler \ {h} : pc'[g] = pc[g] /\ monitor'[g] = monitor[g]
         /\ pc'[h] = place /\ monitor'[h] = m
  BY NothingAssumption DEF TypeOK

\* Both ways past the probe keep the invariant, for a handler that does not
\* wait for the filter.
LEMMA JudgedCool ==
  ASSUME CoolInv, NEW h \in Handler, NEW m \in Monitor, NEW repeats \in BOOLEAN,
         pc[h] # "filter",
         Coalesce(h, m) \/ Confirm(h, m, repeats),
         UNCHANGED <<down, stored, answered>>, faults' \in 0..MaxFaults
  PROVE  CoolInv'
  <1>1. CASE Coalesce(h, m)
    <2>1. UNCHANGED <<cooldown, quiet, fate>>
      BY <1>1 DEF Coalesce
    <2>2. TypeOK'
      BY <1>1, <2>1, DoneTypes DEF Coalesce, CoolInv, TypeOK
    <2>3. NotSwallowed'
      BY <1>1, <2>1, DoneTypes DEF Coalesce, CoolInv, NotSwallowed
    <2>4. QED
      BY <2>1, <2>2, <2>3 DEF CoolInv, InStep
  <1>2. CASE Confirm(h, m, repeats)
    <2>1. /\ cooldown' = [cooldown EXCEPT ![m] = Window]
          /\ quiet' = [quiet EXCEPT ![m] = Window]
          /\ fate' = [fate EXCEPT ![m] = "open"]
      BY <1>2 DEF Confirm
    <2>2. /\ pc' \in [Handler -> {"idle", "probe", "alive", "dead", "filter"}]
          /\ monitor' \in [Handler -> Monitor \cup {Nothing}]
          /\ again' \in [Handler -> BOOLEAN]
          /\ \A g \in Handler : pc'[g] = "idle" <=> monitor'[g] = Nothing
          /\ \A g \in Handler \ {h} : pc'[g] = pc[g] /\ monitor'[g] = monitor[g]
          /\ pc'[h] = "filter" /\ monitor'[h] = m
      BY <1>2, WaitTypes DEF Confirm, CoolInv
    <2>3. TypeOK'
      BY <2>1, <2>2, BoundAssumption DEF CoolInv, TypeOK
    <2>4. NotSwallowed'
      <3> SUFFICES ASSUME NEW n \in Monitor, cooldown'[n] > 0
                   PROVE  \/ fate'[n] \in {"recorded", "noise", "lost"}
                          \/ \E g \in Handler : pc'[g] = "filter" /\ monitor'[g] = n
        BY DEF NotSwallowed
      <3>1. CASE n = m
        BY <2>2, <3>1
      <3>2. CASE n # m
        <4>1. cooldown[n] > 0 /\ fate'[n] = fate[n]
          BY <2>1, <3>2 DEF CoolInv, TypeOK
        <4>2. QED
          BY <2>2, <4>1 DEF CoolInv, NotSwallowed
      <3>3. QED
        BY <3>1, <3>2
    <2>5. QED
      BY <2>1, <2>3, <2>4 DEF CoolInv, InStep
  <1>3. QED
    BY <1>1, <1>2

\* A report that comes in.
LEMMA ReceiveCool ==
  ASSUME CoolInv, NEW h \in Handler, NEW m \in Monitor, NEW repeats \in BOOLEAN,
         Receive(h, m, repeats), faults' \in 0..MaxFaults
  PROVE  CoolInv'
  <1>1. pc[h] = "idle" /\ UNCHANGED <<down, stored, answered>>
    BY DEF Receive
  <1>2. CASE m \in Url
    <2>1. StartProbe(h, m, repeats)
      BY <1>2 DEF Receive
    <2>2. UNCHANGED <<cooldown, quiet, fate>>
      BY <2>1 DEF StartProbe
    <2>3. /\ pc' \in [Handler -> {"idle", "probe", "alive", "dead", "filter"}]
          /\ monitor' \in [Handler -> Monitor \cup {Nothing}]
          /\ again' \in [Handler -> BOOLEAN]
          /\ \A g \in Handler : pc'[g] = "idle" <=> monitor'[g] = Nothing
          /\ \A g \in Handler \ {h} : pc'[g] = pc[g] /\ monitor'[g] = monitor[g]
      BY <2>1, WaitTypes DEF StartProbe, CoolInv
    <2>4. TypeOK'
      BY <1>1, <2>2, <2>3 DEF CoolInv, TypeOK
    <2>5. NotSwallowed'
      BY <1>1, <2>2, <2>3 DEF CoolInv, NotSwallowed
    <2>6. QED
      BY <2>2, <2>4, <2>5 DEF CoolInv, InStep
  <1>3. CASE m \notin Url
    BY <1>1, <1>3, JudgedCool DEF Receive
  <1>4. QED
    BY <1>2, <1>3

\* A handler that is done with the filter, or found the service alive: the
\* cooldown's alert has a fate, or is another handler's.
LEMMA DecidedCool ==
  ASSUME CoolInv, NEW h \in Handler, pc[h] # "idle", Done(h),
         \/ fate' = fate /\ pc[h] # "filter"
         \/ \E f \in {"recorded", "noise", "lost"} : fate' = [fate EXCEPT ![monitor[h]] = f],
         answered' \in [Monitor -> BOOLEAN], stored' \subseteq Monitor,
         faults' \in 0..MaxFaults, UNCHANGED <<down, cooldown, quiet>>
  PROVE  CoolInv'
  <1>1. monitor[h] \in Monitor
    BY DEF CoolInv, TypeOK
  <1>2. fate' \in [Monitor -> {"none", "open", "recorded", "noise", "lost"}]
    BY <1>1 DEF CoolInv, TypeOK
  <1>3. TypeOK'
    BY <1>2, DoneTypes DEF CoolInv, TypeOK
  <1>4. NotSwallowed'
    <2> SUFFICES ASSUME NEW n \in Monitor, cooldown[n] > 0
                 PROVE  \/ fate'[n] \in {"recorded", "noise", "lost"}
                        \/ \E g \in Handler : pc'[g] = "filter" /\ monitor'[g] = n
      BY DEF NotSwallowed
    <2>1. \/ fate[n] \in {"recorded", "noise", "lost"}
          \/ \E g \in Handler : pc[g] = "filter" /\ monitor[g] = n
      BY DEF CoolInv, NotSwallowed
    <2>2. CASE fate' = fate /\ pc[h] # "filter"
      BY <2>1, <2>2, DoneTypes DEF CoolInv
    <2>3. CASE \E f \in {"recorded", "noise", "lost"} : fate' = [fate EXCEPT ![monitor[h]] = f]
      <3>1. CASE n = monitor[h]
        BY <1>1, <2>3, <3>1 DEF CoolInv, TypeOK
      <3>2. CASE n # monitor[h]
        <4>1. fate'[n] = fate[n]
          BY <1>1, <2>3, <3>2 DEF CoolInv, TypeOK
        <4>2. QED
          BY <2>1, <3>2, <4>1, DoneTypes DEF CoolInv
      <3>3. QED
        BY <3>1, <3>2
    <2>4. QED
      BY <2>2, <2>3
  <1>5. QED
    BY <1>3, <1>4 DEF CoolInv, InStep

\* Every step keeps the invariant.
LEMMA NextCool == CoolInv /\ [Next]_vars => CoolInv'
  <1> SUFFICES ASSUME CoolInv, [Next]_vars PROVE CoolInv'
    OBVIOUS
  <1> USE MonitorAssumption, BoundAssumption
  <1>1. ASSUME NEW m \in Monitor, Fail(m) \/ Recover(m) PROVE CoolInv'
    <2>1. /\ UNCHANGED <<cooldown, pc, monitor, again, stored, quiet, fate, faults>>
          /\ down' \in [Monitor -> BOOLEAN] /\ answered' \in [Monitor -> BOOLEAN]
      BY <1>1 DEF CoolInv, TypeOK, Fail, Recover
    <2>2. QED
      BY <2>1 DEF CoolInv, TypeOK, InStep, NotSwallowed
  <1>2. CASE Tick
    <2>1. TypeOK'
      BY <1>2 DEF CoolInv, TypeOK, Tick, Pass
    <2>2. NotSwallowed'
      <3> SUFFICES ASSUME NEW n \in Monitor, cooldown'[n] > 0
                   PROVE  \/ fate'[n] \in {"recorded", "noise", "lost"}
                          \/ \E g \in Handler : pc[g] = "filter" /\ monitor[g] = n
        BY <1>2 DEF NotSwallowed, Tick
      <3>1. cooldown[n] > 1
        BY <1>2 DEF Tick, Pass, CoolInv, TypeOK
      <3>2. fate'[n] = fate[n]
        BY <1>2, <3>1 DEF Tick, CoolInv, TypeOK
      <3>3. QED
        BY <3>1, <3>2 DEF CoolInv, TypeOK, NotSwallowed
    <2>3. QED
      BY <1>2, <2>1, <2>2 DEF CoolInv, InStep, Tick
  <1>3. ASSUME NEW m \in Monitor, PostUp(m) PROVE CoolInv'
    <2>1. TypeOK'
      BY <1>3 DEF CoolInv, TypeOK, PostUp, Fault
    <2>2. NotSwallowed'
      BY <1>3 DEF CoolInv, TypeOK, NotSwallowed, PostUp
    <2>3. QED
      BY <1>3, <2>1, <2>2 DEF CoolInv, InStep, PostUp
  <1>4. ASSUME NEW h \in Handler, NEW m \in Monitor, PostDown(h, m) PROVE CoolInv'
    BY <1>4, ReceiveCool DEF PostDown, CoolInv, TypeOK
  <1>5. ASSUME NEW h \in Handler, NEW m \in Monitor, PostDownAgain(h, m) PROVE CoolInv'
    <2>1. faults' \in 0..MaxFaults
      BY <1>5 DEF PostDownAgain, Fault, CoolInv, TypeOK
    <2>2. QED
      BY <1>5, <2>1, ReceiveCool DEF PostDownAgain
  <1>6. ASSUME NEW h \in Handler, Probe(h) PROVE CoolInv'
    BY <1>6 DEF Probe, CoolInv, TypeOK, InStep, NotSwallowed
  <1>7. ASSUME NEW h \in Handler, Probed(h) PROVE CoolInv'
    <2>1. monitor[h] \in Monitor /\ again[h] \in BOOLEAN /\ pc[h] # "filter"
      BY <1>7 DEF Probed, CoolInv, TypeOK
    <2>2. faults' \in 0..MaxFaults /\ UNCHANGED <<down, stored, answered>>
      BY <1>7 DEF Probed, CoolInv, TypeOK
    <2>3. PICK m \in Monitor, r \in BOOLEAN : m = monitor[h] /\ r = again[h]
      BY <2>1
    <2>4. Coalesce(h, m) \/ Confirm(h, m, r)
      BY <1>7, <2>3 DEF Probed
    <2>5. QED
      BY <2>1, <2>2, <2>4, JudgedCool
  <1>8. ASSUME NEW h \in Handler,
               Flap(h) \/ Suppress(h) \/ Escalate(h) \/ EscalateKnown(h) \/ EscalateError(h)
        PROVE  CoolInv'
    <2>1. pc[h] # "idle" /\ Done(h) /\ UNCHANGED <<down, cooldown, quiet>>
      BY <1>8 DEF Flap, Suppress, Escalate, EscalateKnown, EscalateError
    <2>2. monitor[h] \in Monitor
      BY <2>1 DEF CoolInv, TypeOK
    <2>3. stored' \subseteq Monitor
      BY <1>8, <2>2 DEF Flap, Suppress, Escalate, EscalateKnown, EscalateError, Store, CoolInv, TypeOK
    <2>4. answered' \in [Monitor -> BOOLEAN]
      BY <1>8, <2>2 DEF Flap, Suppress, Escalate, EscalateKnown, EscalateError, CoolInv, TypeOK
    <2>5. faults' \in 0..MaxFaults
      BY <1>8 DEF Flap, Suppress, Escalate, EscalateKnown, EscalateError, Fault, CoolInv, TypeOK
    <2>6. \/ fate' = fate /\ pc[h] # "filter"
          \/ \E f \in {"recorded", "noise", "lost"} : fate' = [fate EXCEPT ![monitor[h]] = f]
      BY <1>8 DEF Flap, Suppress, Escalate, EscalateKnown, EscalateError
    <2>7. QED
      BY <2>1, <2>3, <2>4, <2>5, <2>6, DecidedCool
  <1>9. CASE Crash
    <2>1. /\ cooldown' = [m \in Monitor |-> 0] /\ quiet' = [m \in Monitor |-> 0]
          /\ fate' = [m \in Monitor |-> "none"] /\ UNCHANGED down
          /\ pc' = [h \in Handler |-> "idle"] /\ monitor' = [h \in Handler |-> Nothing]
          /\ again' = [h \in Handler |-> FALSE]
      BY <1>9 DEF Crash
    <2>2. faults' \in 0..MaxFaults
      BY <1>9 DEF Crash, Fault, CoolInv, TypeOK
    <2>3. stored' \subseteq Monitor /\ answered' \in [Monitor -> BOOLEAN]
      BY <1>9 DEF Crash, Store, CoolInv, TypeOK
    <2>4. TypeOK'
      BY <2>1, <2>2, <2>3 DEF CoolInv, TypeOK
    <2>5. NotSwallowed'
      BY <2>1 DEF NotSwallowed
    <2>6. QED
      BY <2>1, <2>4, <2>5 DEF CoolInv, InStep
  <1>10. CASE UNCHANGED vars
    BY <1>10 DEF vars, CoolInv, TypeOK, InStep, NotSwallowed
  <1>11. QED
    BY <1>1, <1>2, <1>3, <1>4, <1>5, <1>6, <1>7, <1>8, <1>9, <1>10
    DEF Next, Service, Posts, Handle

\* Every request keeps its place in the filter and its types, the cooldown kept per
\* monitor included: TypeOK of run alerts, for any number of requests and monitors.
THEOREM TypeCorrect == Spec => []TypeOK
  <1>1. CoolInv => TypeOK
    BY DEF CoolInv
  <1>2. QED
    BY InitCool, NextCool, <1>1, PTL DEF Spec

\* The cooldown never swallows a monitor's alerts without an alert of its own:
\* NotSwallowed of run alerts, for any number of requests and monitors.
THEOREM NotSwallowedCorrect == Spec => []NotSwallowed
  <1>1. CoolInv => NotSwallowed
    BY DEF CoolInv
  <1>2. QED
    BY InitCool, NextCool, <1>1, PTL DEF Spec

\* At most one alert of a monitor per window gets past the cooldown, however
\* probes and model calls overlap: OncePerWindow of run alerts.
THEOREM OncePerWindowCorrect == Spec => OncePerWindow
  <1> DEFINE Entered == \A h \in Handler : pc[h] # "filter" /\ pc'[h] = "filter"
                                             => quiet[monitor'[h]] = 0
  <1>1. CoolInv /\ [Next]_vars => [Entered]_vars
    <2> SUFFICES ASSUME CoolInv, Next, NEW h \in Handler,
                        pc[h] # "filter", pc'[h] = "filter"
                 PROVE  quiet[monitor'[h]] = 0
      BY DEF vars
    <2>1. ASSUME NEW g \in Handler, NEW m, NEW r, Confirm(g, m, r)
          PROVE  quiet[monitor'[h]] = 0
      <3>1. h = g
        BY <2>1 DEF Confirm, CoolInv, TypeOK
      <3>2. monitor'[h] = m /\ cooldown[m] = 0
        BY <2>1, <3>1 DEF Confirm, CoolInv, TypeOK
      <3>3. QED
        BY <3>2 DEF CoolInv, InStep
    <2>2. \E g \in Handler : \E m, r : Confirm(g, m, r)
      <3>1. ASSUME NEW g \in Handler, Done(g) PROVE FALSE
        BY <3>1, DoneTypes DEF CoolInv
      <3>2. ASSUME NEW g \in Handler, Probe(g) PROVE FALSE
        BY <3>2 DEF Probe, CoolInv, TypeOK
      <3>3. ASSUME NEW g \in Handler, NEW m, NEW r, Receive(g, m, r)
            PROVE  \E m1, r1 : Confirm(g, m1, r1)
        <4>1. CASE StartProbe(g, m, r)
          BY <4>1 DEF StartProbe, CoolInv, TypeOK
        <4>2. CASE Coalesce(g, m)
          BY <4>2, <3>1 DEF Coalesce
        <4>3. QED
          BY <3>3, <4>1, <4>2 DEF Receive
      <3>4. pc' # pc
        OBVIOUS
      <3>5. ~Tick /\ \A m \in Monitor : ~Fail(m) /\ ~Recover(m) /\ ~PostUp(m)
        BY <3>4 DEF Tick, Fail, Recover, PostUp
      <3>6. ~Crash
        BY DEF Crash
      <3>7. PICK g \in Handler : \/ \E m \in Monitor : PostDown(g, m) \/ PostDownAgain(g, m)
                                 \/ Handle(g) \/ EscalateError(g)
        BY <3>5, <3>6 DEF Next, Service, Posts
      <3>8. CASE \E m \in Monitor : PostDown(g, m) \/ PostDownAgain(g, m)
        <4>1. \E m, r : Receive(g, m, r)
          BY <3>8 DEF PostDown, PostDownAgain
        <4>2. QED
          BY <3>3, <4>1
      <3>9. CASE Handle(g) \/ EscalateError(g)
        <4>1. ~Done(g) /\ ~Probe(g)
          BY <3>1, <3>2
        <4>2. Probed(g)
          BY <3>9, <4>1 DEF Handle, Flap, Suppress, Escalate, EscalateKnown, EscalateError
        <4>3. QED
          BY <4>1, <4>2 DEF Probed, Coalesce
      <3>10. QED
        BY <3>7, <3>8, <3>9
    <2>3. QED
      BY <2>1, <2>2
  <1>2. QED
    BY InitCool, NextCool, <1>1, PTL DEF Spec, OncePerWindow
==============================================================================

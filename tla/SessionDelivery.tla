-------------------------- MODULE SessionDelivery --------------------------
(***************************************************************************)
(* The Antigravity sessions of one Slack thread: tasks that open a         *)
(* conversation or send a follow-up into it                                *)
(* (hub/antigravity/session_manager.py), the watchers that read its        *)
(* transcript and post the reply (hub/antigravity/result_delivery.py), the *)
(* row of the thread in session_threads (hub/db.py), and the two places    *)
(* that mount a watcher again: the boot of the daemon and the watchdog.    *)
(*                                                                         *)
(* A watcher and a task give way to each other only where they await: a    *)
(* watcher in its sleep between two polls, a task in its call of agentapi. *)
(* Posting to Slack and writing the row are synchronous, so nothing comes  *)
(* between them but the death of the process. A task created by            *)
(* create_task runs in the next turn of the loop, in order of creation,    *)
(* and cannot be found in the registry before.                             *)
(*                                                                         *)
(* Antigravity itself is external: it takes prompts in order, writes steps *)
(* and owes nobody an answer. A conversation has the name of the request   *)
(* that opened it. Stress tests and muted requests mount no watcher and    *)
(* are left out, as are progress notes and the model's downgrade, whose    *)
(* second attempt is part of the call that returns.                        *)
(*                                                                         *)
(* NextOfLatest, PopAlways, ResumeAtLatest, ToldOnError and AnyContent are *)
(* wrong on purpose: slips the properties must notice.                     *)
(***************************************************************************)
EXTENDS Integers, Sequences, FiniteSets, SequencesExt

CONSTANTS
    Root,         \* requests that open the thread: a first message, its rerun
    FollowUp,     \* requests under the thread (is_follow_up)
    Nobody,
    MaxSteps,     \* bound: steps of a transcript
    MaxCuts       \* bound: deaths of the process and remounts by the watchdog

ASSUME DisjointAssumption == Root \cap FollowUp = {} /\ Nobody \notin Root \cup FollowUp
ASSUME BoundAssumption == MaxSteps \in Nat /\ MaxCuts \in Nat
ASSUME FiniteAssumption == IsFiniteSet(Root \cup FollowUp)

Request      == Root \cup FollowUp
Conversation == Request

\* Who mounts a watcher: a request, the boot, the watchdog.
Remounted == {"boot", "watchdog"}
Watcher   == Request \cup Remounted

ASSUME NameAssumption == Remounted \cap Request = {} /\ Nobody \notin Watcher

VARIABLES
    stage,       \* where execute_antigravity_task is with a request
    target,      \* its convo_id and start_step while it sends
    row,         \* the thread's row of session_threads, or Nobody
    watcher,     \* the watcher tasks
    ready,       \* the watchers created and not started, in order
    registry,    \* _ACTIVE_WATCHERS
    prompts,     \* prompts a conversation has yet to work off
    transcript,  \* the steps it has written
    posts,       \* how often each step was posted as the result
    recorded,    \* steps whose delivery was recorded in the row
    told,        \* requests that were told of a failure
    seen,        \* the steps already posted when a request began
    undisturbed, \* the requests nothing has cut across (see Begin)
    deaths, remounts

daemon   == <<stage, target, watcher, ready, registry>>
agent    == <<prompts, transcript>>
history  == <<posts, recorded, told, seen, undisturbed>>
vars     == <<daemon, row, agent, history, deaths, remounts>>

----------------------------------------------------------------------------
(* What a watcher reads in the transcript *)

Steps(c) == 1..Len(transcript[c])

\* parse_transcript_events: the last planner response from start_step on that
\* calls no tool (0: none), whether the response is final, whether the last
\* step is an error. The check of created_at rejects nothing start_step keeps.
AnyContent(c, start) ==
    LET found == {i \in Steps(c) : i > start /\ transcript[c][i].kind # "error"}
    IN  IF found = {} THEN 0 ELSE CHOOSE i \in found : \A j \in found : j <= i
FinalContent(c, start) ==
    LET found == {i \in Steps(c) : i > start /\ transcript[c][i].kind = "answer"}
    IN  IF found = {} THEN 0 ELSE CHOOSE i \in found : \A j \in found : j <= i

IsDone(c, start) ==
    /\ FinalContent(c, start) # 0
    /\ \A i \in Steps(c) : i > FinalContent(c, start) => transcript[c][i].kind # "tools"

HasError(c, start) ==
    /\ FinalContent(c, start) = 0
    /\ Len(transcript[c]) > start
    /\ transcript[c][Len(transcript[c])].kind = "error"

\* start_step of a follow-up: one past get_latest_step_index, steps counted from 0.
NextOfLatest(c) == IF Len(transcript[c]) = 0 THEN 0 ELSE Len(transcript[c]) - 1
StartStep(c) == Len(transcript[c])

\* start_step of a watcher mounted at boot.
ResumeAtLatest(c) == Len(transcript[c])
ResumeStep(c) == 0

----------------------------------------------------------------------------
(* Tasks of the event loop *)

NoWatcher == [conv |-> Nobody, start |-> 0, state |-> "none"]

Mounted(c, start) == [conv |-> c, start |-> start, state |-> "created"]

Running(w) == watcher[w].state = "running"

\* cancel_active_watcher: only a watcher that has registered is found.
Cancelled(c) ==
    IF registry[c] = Nobody THEN watcher
    ELSE [watcher EXCEPT ![registry[c]].state = "cancelled"]

\* The finally clause: a watcher removes its own entry, not its successor's.
PopAlways(w) == [registry EXCEPT ![watcher[w].conv] = Nobody]
Pop(w) ==
    IF registry[watcher[w].conv] = w
    THEN [registry EXCEPT ![watcher[w].conv] = Nobody] ELSE registry

End(w) ==
    /\ watcher' = [watcher EXCEPT ![w] = NoWatcher]
    /\ registry' = Pop(w)
    /\ UNCHANGED <<stage, target, ready, agent, seen, undisturbed, deaths, remounts>>

\* The loop starts what was created, first come first served. A watcher that
\* starts cancels the one it finds registered and takes its entry.
Start ==
    /\ ready # <<>>
    /\ LET w == Head(ready)
           c == watcher[w].conv
       IN  /\ watcher' = [Cancelled(c) EXCEPT ![w].state = "running"]
           /\ registry' = [registry EXCEPT ![c] = w]
    /\ ready' = Tail(ready)
    /\ UNCHANGED <<stage, target, row, agent, history, deaths, remounts>>

\* CancelledError reaches the watcher in its sleep.
Unwind(w) ==
    /\ watcher[w].state = "cancelled"
    /\ End(w)
    /\ UNCHANGED <<row, posts, recorded, told>>

----------------------------------------------------------------------------
(* Delivery *)

\* A poll follows a sleep, so everything created before it has started.
Awake(w) == Running(w) /\ ready = <<>>

Post(c, i) == posts' = [posts EXCEPT ![c][i] = @ + 1]

\* The request a notice of the watcher is about: task_id of the row when mounted
\* again; only the task opens a row, so it is the conversation.
Task(w) == IF w \in Remounted THEN watcher[w].conv ELSE w

\* The status of the thread's row, whatever conversation the row has by now.
\* The watchdog mounts its watchers without a database.
Mark(w, status) ==
    row' = IF row = Nobody \/ w = "watchdog" THEN row ELSE [row EXCEPT !.status = status]

\* A poll that finds the final response posts it and records the delivery.
Deliver(w) ==
    /\ Awake(w)
    /\ LET c == watcher[w].conv
           i == FinalContent(c, watcher[w].start)
       IN  /\ IsDone(c, watcher[w].start)
           /\ Post(c, i)
           /\ recorded' = IF w = "watchdog" THEN recorded ELSE recorded \cup {<<c, i>>}
    /\ Mark(w, "completed")
    /\ End(w)
    /\ UNCHANGED told

\* A poll that finds an error and no response says so.
Report(w) ==
    /\ Awake(w)
    /\ HasError(watcher[w].conv, watcher[w].start)
    /\ told' = told \cup {Task(w)}
    /\ Mark(w, "failed")
    /\ End(w)
    /\ UNCHANGED <<posts, recorded>>

\* Fifteen minutes, or five without a step: the transcript is read once more and
\* what there is goes out, a response, final or not, or a notice. The row stays as
\* it is.
ToldOnError(w) == told
ToldOnTimeOut(w) == told \cup {Task(w)}
TimeOut(w) ==
    /\ Awake(w)
    /\ LET c == watcher[w].conv
           i == FinalContent(c, watcher[w].start)
       IN  \/ i # 0 /\ Post(c, i) /\ told' = told
           \/ i = 0 /\ told' = ToldOnTimeOut(w) /\ posts' = posts
    /\ End(w)
    /\ UNCHANGED <<row, recorded>>

----------------------------------------------------------------------------
(* Requests *)

InFlight(r) == stage[r] \in {"sending", "creating"}

\* Launch a watcher from the task's coroutine.
Launch(w, c, start, watchers) ==
    /\ watcher' = [watchers EXCEPT ![w] = Mounted(c, start)]
    /\ ready' = Append(ready, w)

\* execute_antigravity_task up to its first await. A follow-up to a thread with a
\* row, whatever its status, stops the conversation's watcher and notes where the
\* transcript ends; anything else opens a conversation.
\*
\* History: a request is undisturbed until a follow-up begins after it, and a
\* follow-up if none is in flight, nothing is unanswered in the thread and no
\* earlier attempt of its own has been worked off.
Begin(r) ==
    /\ stage[r] = "waiting"
    /\ \/ /\ r \in FollowUp /\ row # Nobody
          /\ watcher' = Cancelled(row.conv)
          /\ target' = [target EXCEPT ![r] = [conv |-> row.conv, start |-> StartStep(row.conv)]]
          /\ stage' = [stage EXCEPT ![r] = "sending"]
       \/ /\ ~(r \in FollowUp /\ row # Nobody)
          /\ stage' = [stage EXCEPT ![r] = "creating"]
          /\ UNCHANGED <<target, watcher>>
    /\ seen' = [seen EXCEPT ![r] = {ci \in Conversation \X (1..MaxSteps) : posts[ci[1]][ci[2]] > 0}]
    /\ LET first == \/ r \in Root
                    \/ /\ \A q \in FollowUp : ~InFlight(q)
                       /\ \A c \in Conversation :
                             prompts[c] = <<>> /\ \A i \in Steps(c) : transcript[c][i].req # r
       IN  undisturbed' = (IF r \in FollowUp THEN {} ELSE undisturbed)
                          \cup (IF first THEN {r} ELSE {})
    /\ UNCHANGED <<row, ready, registry, agent, posts, recorded, told, deaths, remounts>>

NoTarget == [conv |-> Nobody, start |-> 0]

Return(r, next) ==
    /\ stage' = [stage EXCEPT ![r] = next]
    /\ target' = [target EXCEPT ![r] = NoTarget]

\* send_message succeeded: the row is touched, its status is not.
SendOk(r) ==
    /\ stage[r] = "sending"
    /\ Return(r, "done")
    /\ prompts' = [prompts EXCEPT ![target[r].conv] = Append(@, r)]
    /\ Launch(r, target[r].conv, target[r].start, watcher)
    /\ UNCHANGED <<row, registry, transcript, history, deaths, remounts>>

\* The error text says "not found" or "invalid": open a new conversation. The
\* row is left alone: the database has no update_session_thread_status.
SendNotFound(r) ==
    /\ stage[r] = "sending"
    /\ Return(r, "creating")
    /\ UNCHANGED <<row, watcher, ready, registry, agent, history, deaths, remounts>>

\* Any other error, the call's own time-out included: the prompt may have arrived.
SendFailed(r) ==
    /\ stage[r] = "sending"
    /\ Return(r, "done")
    /\ told' = told \cup {r}
    /\ \/ prompts' = [prompts EXCEPT ![target[r].conv] = Append(@, r)]
       \/ prompts' = prompts
    /\ UNCHANGED <<row, watcher, ready, registry, transcript, posts, recorded,
                   seen, undisturbed, deaths, remounts>>

\* new_conversation succeeded: the thread's row now leads to it.
CreateOk(r) ==
    /\ stage[r] = "creating"
    /\ Return(r, "done")
    /\ prompts' = [prompts EXCEPT ![r] = Append(@, r)]
    /\ row' = [conv |-> r, status |-> "active"]
    /\ Launch(r, r, 0, Cancelled(r))
    /\ UNCHANGED <<registry, transcript, history, deaths, remounts>>

CreateFailed(r) ==
    /\ stage[r] = "creating"
    /\ Return(r, "done")
    /\ told' = told \cup {r}
    /\ UNCHANGED <<row, watcher, ready, registry, agent, posts, recorded,
                   seen, undisturbed, deaths, remounts>>

----------------------------------------------------------------------------
(* Mounted again *)

Active(thread) == thread # Nobody /\ thread.status = "active"

\* The watchdog has sent its prompt into a stalled session and remounts the
\* watcher of a thread whose row is active.
Remount ==
    /\ deaths + remounts < MaxCuts /\ remounts' = remounts + 1
    /\ Active(row)
    /\ watcher["watchdog"].state = "none"  \* bound: one such watcher at a time
    /\ Launch("watchdog", row.conv, 0, Cancelled(row.conv))
    /\ undisturbed' = undisturbed \cap {row.conv}
    /\ UNCHANGED <<stage, target, row, registry, agent, posts, recorded, told, seen, deaths>>

\* The row a process leaves that dies when opener, if anybody, has just written it.
RowLeft(opener) == IF opener = Nobody THEN row ELSE [conv |-> opener, status |-> "active"]

\* The process dies and boots: tasks in flight are run again (the task store sees
\* to it), a prompt being sent may have arrived; resume_active_watchers mounts
\* one watcher if the row is active. The opener has its conversation; run again it
\* opens a second one, and is another request here.
Reboot(opener) ==
    /\ deaths + remounts < MaxCuts /\ deaths' = deaths + 1
    /\ row' = RowLeft(opener)
    /\ stage' = [r \in Request |-> IF r = opener THEN "done"
                                 ELSE IF InFlight(r) THEN "waiting" ELSE stage[r]]
    /\ \E arrived \in SUBSET {r \in Request : stage[r] = "sending"} :
          prompts' = [c \in Conversation |->
                         IF c = opener THEN <<c>>
                         ELSE prompts[c] \o SetToSeq({r \in arrived : target[r].conv = c})]
    /\ target' = [r \in Request |-> NoTarget]
    /\ registry' = [c \in Conversation |-> Nobody]
    /\ LET dead == [w \in Watcher |-> NoWatcher]
       IN  IF Active(row')
           THEN /\ watcher' = [dead EXCEPT !["boot"] = Mounted(row'.conv, ResumeStep(row'.conv))]
                /\ ready' = <<"boot">>
           ELSE watcher' = dead /\ ready' = <<>>
    /\ undisturbed' = IF Active(row') THEN undisturbed \cap {row'.conv} ELSE {}
    /\ UNCHANGED <<transcript, recorded, seen, remounts>>

Restart == Reboot(Nobody) /\ UNCHANGED <<posts, told>>

\* ... or it dies between the post and the row.
KilledAfterPost(w) ==
    /\ Awake(w)
    /\ IsDone(watcher[w].conv, watcher[w].start)
    /\ Post(watcher[w].conv, FinalContent(watcher[w].conv, watcher[w].start))
    /\ Reboot(Nobody)
    /\ UNCHANGED told

\* ... or between the row of a new conversation and the end of its task.
KilledAfterRow(r) ==
    /\ stage[r] = "creating"
    /\ Reboot(r)
    /\ UNCHANGED <<posts, told>>

----------------------------------------------------------------------------
(* Antigravity, as far as its transcripts show: it may call tools, answer or *)
(* break off, and need not do anything.                                      *)

Step(c, kind) ==
    /\ prompts[c] # <<>> /\ Len(transcript[c]) < MaxSteps
    /\ transcript' = [transcript EXCEPT ![c] = Append(@, [req |-> Head(prompts[c]), kind |-> kind])]
    /\ UNCHANGED <<daemon, row, history, deaths, remounts>>

CallTools(c) == Step(c, "tools") /\ UNCHANGED prompts
Answer(c)    == Step(c, "answer") /\ prompts' = [prompts EXCEPT ![c] = Tail(@)]
BreakOff(c)  == Step(c, "error") /\ prompts' = [prompts EXCEPT ![c] = Tail(@)]

----------------------------------------------------------------------------
Init ==
    /\ stage = [r \in Request |-> "waiting"]
    /\ target = [r \in Request |-> NoTarget]
    /\ row = Nobody
    /\ watcher = [w \in Watcher |-> NoWatcher]
    /\ ready = <<>>
    /\ registry = [c \in Conversation |-> Nobody]
    /\ prompts = [c \in Conversation |-> <<>>]
    /\ transcript = [c \in Conversation |-> <<>>]
    /\ posts = [c \in Conversation |-> [i \in 1..MaxSteps |-> 0]]
    /\ recorded = {}
    /\ told = {}
    /\ seen = [r \in Request |-> {}]
    /\ undisturbed = {}
    /\ deaths = 0 /\ remounts = 0

Next ==
    \/ Start
    \/ \E w \in Watcher : Unwind(w) \/ Deliver(w) \/ Report(w) \/ TimeOut(w) \/ KilledAfterPost(w)
    \/ \E r \in Request : Begin(r) \/ SendOk(r) \/ SendNotFound(r) \/ SendFailed(r)
                          \/ CreateOk(r) \/ CreateFailed(r) \/ KilledAfterRow(r)
    \/ Remount \/ Restart
    \/ \E c \in Conversation : CallTools(c) \/ Answer(c) \/ BreakOff(c)

\* The loop runs what is ready, a sleep ends, the watcher's clocks run out, and a
\* call of agentapi returns or times out. Nothing is assumed of Antigravity.
Fairness ==
    /\ WF_vars(Start)
    /\ \A w \in Watcher : WF_vars(Unwind(w)) /\ WF_vars(Deliver(w) \/ Report(w) \/ TimeOut(w))
    /\ \A r \in Request : WF_vars(SendOk(r) \/ SendNotFound(r) \/ SendFailed(r)
                                  \/ CreateOk(r) \/ CreateFailed(r))

Spec     == Init /\ [][Next]_vars
FairSpec == Spec /\ Fairness

----------------------------------------------------------------------------
(* Properties *)

\* Every variable has its type; what is posted is a step with an answer.
TypeOK ==
    /\ stage \in [Request -> {"waiting", "sending", "creating", "done"}]
    /\ target \in [Request -> [conv : Conversation \cup {Nobody}, start : 0..MaxSteps]]
    /\ row \in [conv : Conversation, status : {"active", "completed", "failed"}] \cup {Nobody}
    /\ watcher \in [Watcher -> [conv : Conversation \cup {Nobody}, start : 0..MaxSteps,
                                state : {"none", "created", "running", "cancelled"}]]
    /\ ToSet(ready) = {w \in Watcher : watcher[w].state = "created"}
    /\ registry \in [Conversation -> Watcher \cup {Nobody}]
    /\ \A c \in Conversation : /\ prompts[c] \in Seq(Request)
                               /\ \A i \in Steps(c) : transcript[c][i] \in
                                     [req : Request, kind : {"tools", "answer", "error"}]
    /\ \A c \in Conversation, i \in 1..MaxSteps :
          posts[c][i] > 0 => i \in Steps(c) /\ transcript[c][i].kind = "answer"
    /\ recorded \subseteq Conversation \X (1..MaxSteps)
    /\ told \subseteq Request /\ undisturbed \subseteq Request
    /\ deaths \in Nat /\ remounts \in Nat /\ deaths + remounts <= MaxCuts

\* A conversation is watched by the registered watcher and no other, whatever
\* order cancelled watchers unwind and new ones start in: the next follow-up
\* finds the one it has to stop (_ACTIVE_WATCHERS, cancel_active_watcher).
OneWatcher ==
    \A w \in Watcher : Running(w) => registry[watcher[w].conv] = w

\* A result that was posted is posted again only by a watcher mounted again
\* before the delivery was recorded, or for a follow-up that began before the
\* result was there; never as the reply to a later request (start_step).
NoRepeat ==
    [][\A c \in Conversation, i \in 1..MaxSteps :
          posts'[c][i] > posts[c][i] /\ posts[c][i] > 0 =>
             \E w \in Watcher :
                /\ Running(w) /\ watcher[w].conv = c /\ watcher'[w].state # "running"
                /\ IF w \in Remounted THEN <<c, i>> \notin recorded ELSE <<c, i>> \notin seen[w]]_vars

Answered(r) == \E c \in Conversation : \E i \in Steps(c) :
                  transcript[c][i] = [req |-> r, kind |-> "answer"]
Replied(r)  == \E c \in Conversation : \E i \in Steps(c) :
                  transcript[c][i].req = r /\ posts[c][i] > 0

\* No thread is abandoned in silence: a request that nothing cuts across is
\* replied to or told that there is no reply, even if Antigravity hangs, and a
\* first message also over restarts and remounts.
ReplyComes ==
    \A r \in Request : r \in undisturbed ~> (Replied(r) \/ r \in told \/ r \notin undisturbed)

\* An answer Antigravity gives while somebody is to be answered reaches the
\* thread: over a restart, the watcher mounted at boot also finds the answers
\* that were written before it.
NothingLost ==
    \A r \in Request :
        (r \in undisturbed /\ Answered(r) /\ r \notin told) ~> (Replied(r) \/ r \notin undisturbed)
==============================================================================

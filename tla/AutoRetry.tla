------------------------------ MODULE AutoRetry ------------------------------
(***************************************************************************)
(* Automatic retries of one session (application/autoretry/engine.go,      *)
(* state.go) with what they race against: the completion of a turn, the    *)
(* user's /stop and /new (application/conversation/controls.go), the       *)
(* switch of the setting and ordinary input.                               *)
(*                                                                         *)
(* Turns are numbered.  A retry timer is its sequence number; a timer that *)
(* has fired waits for the session's actor and then for the dispatch lock  *)
(* that /stop holds.  /stop and input run on the chat's actor.  How a      *)
(* submission becomes a turn is the business of SubmissionQueue: here a    *)
(* start is one step.  BackoffStep and RetryCount only choose delay and    *)
(* wording and are left out.                                               *)
(***************************************************************************)
EXTENDS Integers, FiniteSets

CONSTANTS
  MaxTurns,    \* bound: turns, retries included
  MaxInputs,   \* bound: messages of the user
  MaxStops,    \* bound: /stop
  MaxToggles,  \* bound: switches of the setting
  MaxThreads,  \* bound: conversations (/new)
  MaxTimers,   \* bound: timers armed
  Steering,    \* messages steer a running turn instead of queueing
  Anywhere     \* the setting is switched by a command, not on the session's card

ASSUME RetryAssumption ==
  /\ MaxTurns \in Nat /\ MaxInputs \in Nat /\ MaxTimers \in Nat
  /\ MaxThreads \in Nat \ {0}
  /\ Steering \in BOOLEAN /\ Anywhere \in BOOLEAN

VARIABLES
  enabled,   \* the setting
  st,        \* tracker.States[key]
  seq,       \* tracker.nextTimerSeq
  armed,     \* timers that run
  fired,     \* timers whose callback waits for the actor
  actor,     \* holder of the session's actor: "none", "timer" or "events"
  lock,      \* holder of the dispatch lock: "none", "timer" or "stop"
  sess,      \* the stored session
  timer,     \* RunAutoRetryTimer: pc and locals
  fin,       \* FinishTurn: pc and locals
  chat,      \* Stop and Fresh: pc and locals
  wake,      \* a posted StartNextSubmissionAsync
  interrupt, \* turns the backend was asked to interrupt
  count,     \* bounds: turns, inputs, stops, toggles
  origin,    \* history: the failed turn a timer retries
  stopped    \* history: turns a /stop found running or waiting for a retry and
             \* whose mark has not been taken away since

retryVars == <<enabled, st, seq, armed, fired, actor, lock, sess, timer, fin, chat,
          wake, interrupt, count, origin, stopped>>

tracker == <<st, seq, armed, origin>>

Turns == 1 .. MaxTurns
Timers == 1 .. MaxTimers
NoState == [on |-> FALSE, canceled |-> FALSE, timer |-> 0, thread |-> 0]
NoTimer == [pc |-> "idle", n |-> 0, thread |-> 0]
NoFin == [pc |-> "idle", k |-> 0, status |-> "none", thread |-> 0, busy |-> FALSE]
NoChat == [pc |-> "idle", k |-> 0, round |-> 0]

RetryTypeOK ==
  /\ enabled \in BOOLEAN /\ seq \in 0 .. MaxTimers
  /\ st \in [on : BOOLEAN, canceled : BOOLEAN, timer : 0 .. MaxTimers,
             thread : 0 .. MaxThreads]
  /\ armed \subseteq Timers /\ fired \subseteq Timers
  /\ actor \in {"none", "timer", "events"} /\ lock \in {"none", "timer", "stop"}
  /\ sess \in [thread : 1 .. MaxThreads, active : SUBSET Turns, steer : BOOLEAN,
               queue : 0 .. MaxInputs]
  /\ wake \in BOOLEAN /\ interrupt \subseteq Turns /\ stopped \subseteq Turns
  /\ origin \in [Timers -> 0 .. MaxTurns]

RetryInit ==
  /\ enabled = TRUE /\ st = NoState /\ seq = 0 /\ armed = {} /\ fired = {}
  /\ actor = "none" /\ lock = "none"
  /\ sess = [thread |-> 1, active |-> {}, steer |-> FALSE, queue |-> 0]
  /\ timer = NoTimer /\ fin = NoFin /\ chat = NoChat
  /\ wake = FALSE /\ interrupt = {} /\ stopped = {}
  /\ count = [turns |-> 0, inputs |-> 0, stops |-> 0, toggles |-> 0]
  /\ origin = [n \in Timers |-> 0]

HasActiveWork == sess.active # {} \/ sess.steer

\* Mutant of Blocks: only a loop that waits for its timer holds the queue back
BlocksWaiting == st.on /\ ~st.canceled /\ st.timer # 0

\* StateBlocksQueue
Blocks == st.on /\ ~st.canceled
-----------------------------------------------------------------------------
(* The tracker.                                                            *)

\* ScheduleDelayedTask for the failure of turn k
Arm(r, k) ==
  /\ seq < MaxTimers
  /\ seq' = seq + 1
  /\ st' = [r EXCEPT !.timer = seq + 1]
  /\ armed' = armed \cup {seq + 1}
  /\ origin' = [origin EXCEPT ![seq + 1] = k]

\* The state goes, with its timer
Drop == st' = NoState /\ armed' = armed \ {st.timer} /\ UNCHANGED <<seq, origin>>

\* Mutant of Schedule: a late failure starts the loop again
ScheduleAgain(thread, busy, k) ==
  IF ~enabled \/ sess.thread # thread \/ busy THEN UNCHANGED tracker
  ELSE IF st.timer = 0
       THEN Arm([NoState EXCEPT !.on = TRUE, !.thread = thread], k)
       ELSE UNCHANGED tracker

\* ScheduleAutoRetryAfterFailure: the thread must still be the session's and the
\* session idle; a canceled state is consumed
Schedule(thread, busy, k) ==
  IF ~enabled \/ sess.thread # thread \/ busy THEN UNCHANGED tracker
  ELSE IF st.canceled THEN Drop
  ELSE IF st.timer = 0
       THEN Arm([st EXCEPT !.on = TRUE, !.thread = thread], k)
       ELSE st' = [st EXCEPT !.thread = thread] /\ UNCHANGED <<seq, armed, origin>>

\* FinishAutoRetryOnTerminal
FinishOnTerminal(thread) ==
  IF st.on /\ st.thread = thread THEN Drop ELSE UNCHANGED tracker

\* ObserveAutoRetryTerminal
Observe(status, thread, busy, k) ==
  IF status = "failed" THEN Schedule(thread, busy, k) ELSE FinishOnTerminal(thread)

\* CancelAutoRetry: with keep, a marker stays until the running turn ends, also
\* for a turn that has not failed yet
Cancel(keep) ==
  CASE st.on /\ st.canceled -> UNCHANGED tracker
    [] st.on /\ ~st.canceled ->
         /\ st' = IF keep THEN [st EXCEPT !.canceled = TRUE, !.timer = 0] ELSE NoState
         /\ armed' = armed \ {st.timer}
         /\ UNCHANGED <<seq, origin>>
    [] OTHER ->
         /\ st' = IF keep /\ enabled
                  THEN [NoState EXCEPT !.on = TRUE, !.canceled = TRUE,
                                       !.thread = sess.thread]
                  ELSE st
         /\ UNCHANGED <<seq, armed, origin>>
-----------------------------------------------------------------------------
(* Input, and the start of a queued submission.                            *)

StartTurn(r) == [r EXCEPT !.active = @ \cup {count.turns + 1}]

CanStart(r) == ~Blocks /\ r.active = {} /\ ~r.steer /\ r.queue > 0
                 /\ count.turns < MaxTurns

\* A message steers the running turn or is queued, and the queue is tried
Input ==
  /\ chat.pc = "idle" /\ count.inputs < MaxInputs
  /\ LET queued == [sess EXCEPT !.queue = @ + 1] IN
       IF Steering /\ sess.active # {}
       THEN /\ sess' = [sess EXCEPT !.steer = TRUE]
            /\ count' = [count EXCEPT !.inputs = @ + 1]
       ELSE IF CanStart(queued)
       THEN /\ sess' = StartTurn(sess)
            /\ count' = [count EXCEPT !.inputs = @ + 1, !.turns = @ + 1]
       ELSE /\ sess' = queued
            /\ count' = [count EXCEPT !.inputs = @ + 1]
  /\ UNCHANGED <<enabled, tracker, fired, actor, lock, timer, fin, chat, wake,
                 interrupt, stopped>>

\* StartNextSubmissionAsync on the session's actor
StartNext ==
  /\ wake /\ actor = "none"
  /\ wake' = FALSE
  /\ IF CanStart(sess)
     THEN /\ sess' = [StartTurn(sess) EXCEPT !.queue = @ - 1]
          /\ count' = [count EXCEPT !.turns = @ + 1]
     ELSE UNCHANGED <<sess, count>>
  /\ UNCHANGED <<enabled, tracker, fired, actor, lock, timer, fin, chat,
                 interrupt, stopped>>

\* UpdateAutoRetryEnabled; switching it off drops every state
Toggle ==
  /\ count.toggles < MaxToggles /\ chat.pc = "idle"
  /\ Anywhere \/ actor = "none"
  /\ enabled' = ~enabled
  /\ count' = [count EXCEPT !.toggles = @ + 1]
  /\ IF enabled THEN Drop ELSE UNCHANGED tracker
  /\ stopped' = {}
  /\ UNCHANGED <<fired, actor, lock, sess, timer, fin, chat, wake, interrupt>>
-----------------------------------------------------------------------------
(* FinishTurn, on the session's actor.                                     *)

\* The operation is removed; the updated session is kept as a snapshot
TurnEnds(k, status) ==
  /\ actor = "none" /\ k \in sess.active
  /\ status = "interrupted" => k \in interrupt
  /\ actor' = "events"
  /\ sess' = [sess EXCEPT !.active = @ \ {k}]
  /\ fin' = [pc |-> "observe", k |-> k, status |-> status, thread |-> sess.thread,
             busy |-> sess.active # {k} \/ sess.steer]
  /\ UNCHANGED <<enabled, tracker, fired, lock, timer, chat, wake, interrupt,
                 count, stopped>>

FinishObserve ==
  /\ fin.pc = "observe"
  /\ Observe(fin.status, fin.thread, fin.busy, fin.k)
  /\ stopped' = IF st.canceled /\ ~st'.on THEN stopped \ sess.active ELSE stopped
  /\ fin' = [fin EXCEPT !.pc = "next"]
  /\ UNCHANGED <<enabled, fired, actor, lock, sess, timer, chat, wake, interrupt,
                 count>>

\* The steers of the thread end with the turn; the next start is posted if
\* NextQueuedSessionKey finds one
FinishNext ==
  /\ fin.pc = "next"
  /\ sess' = [sess EXCEPT !.steer = FALSE]
  /\ wake' = (wake \/ (~Blocks /\ sess.active = {} /\ sess.queue > 0))
  /\ fin' = NoFin /\ actor' = "none"
  /\ UNCHANGED <<enabled, tracker, fired, lock, timer, chat, interrupt, count,
                 stopped>>
-----------------------------------------------------------------------------
(* RunAutoRetryTimer.                                                      *)

TimerFires(n) ==
  /\ n \in armed
  /\ armed' = armed \ {n} /\ fired' = fired \cup {n}
  /\ UNCHANGED <<enabled, st, seq, origin, actor, lock, sess, timer, fin, chat,
                 wake, interrupt, count, stopped>>

TimerBegin(n) ==
  /\ n \in fired /\ actor = "none"
  /\ fired' = fired \ {n} /\ actor' = "timer"
  /\ timer' = [pc |-> "lock", n |-> n, thread |-> 0]
  /\ UNCHANGED <<enabled, tracker, lock, sess, fin, chat, wake, interrupt, count,
                 stopped>>

TimerLock ==
  /\ timer.pc = "lock" /\ lock = "none"
  /\ lock' = "timer" /\ timer' = [timer EXCEPT !.pc = "check"]
  /\ UNCHANGED <<enabled, tracker, fired, actor, sess, fin, chat, wake, interrupt,
                 count, stopped>>

\* The callback is over
TimerDone == timer' = NoTimer /\ actor' = "none" /\ lock' = "none"

\* The timer is still the one the state waits for
Current(n) == st.on /\ ~st.canceled /\ st.timer = n

TimerCheck ==
  /\ timer.pc = "check"
  /\ IF Current(timer.n)
     THEN /\ st' = [st EXCEPT !.timer = 0]
          /\ timer' = [timer EXCEPT !.pc = "session", !.thread = st.thread]
          /\ UNCHANGED <<actor, lock>>
     ELSE TimerDone /\ UNCHANGED st
  /\ UNCHANGED <<enabled, seq, armed, origin, fired, sess, fin, chat, wake,
                 interrupt, count, stopped>>

\* The setting, the thread and the activity of the session are checked; a
\* runtime that recovers makes it wait again
TimerSession ==
  /\ timer.pc = "session"
  /\ \/ /\ ~enabled \/ sess.thread # timer.thread \/ HasActiveWork
        /\ timer' = [timer EXCEPT !.pc = "finish"]
        /\ UNCHANGED <<tracker, actor, lock>>
     \/ /\ enabled /\ sess.thread = timer.thread /\ ~HasActiveWork
        /\ \/ timer' = [timer EXCEPT !.pc = "start"] /\ UNCHANGED <<tracker, actor, lock>>
           \/ /\ IF Blocks THEN Arm(st, origin[timer.n]) ELSE UNCHANGED tracker
              /\ TimerDone
  /\ UNCHANGED <<enabled, fired, sess, fin, chat, wake, interrupt, count, stopped>>

\* StartAutoRetrySubmission: the thread must be live; the operation is stored
TimerStart ==
  /\ timer.pc = "start" /\ count.turns < MaxTurns
  /\ IF sess.thread # timer.thread
     THEN timer' = [timer EXCEPT !.pc = "finish"] /\ UNCHANGED <<sess, count>>
     ELSE /\ sess' = StartTurn(sess)
          /\ count' = [count EXCEPT !.turns = @ + 1]
          /\ timer' = [timer EXCEPT !.pc = "started"]
  /\ UNCHANGED <<enabled, tracker, fired, actor, lock, fin, chat, wake, interrupt,
                 stopped>>

\* StartQueuedSubmission returns.  After an error (HandleSubmissionStartFailure)
\* the failure is observed like that of a turn.
TimerStarted ==
  /\ timer.pc = "started"
  /\ \/ TimerDone /\ UNCHANGED <<tracker, sess, wake>>
     \/ /\ sess' = [sess EXCEPT !.active = @ \ {count.turns}]
        /\ Schedule(timer.thread, sess.active # {count.turns} \/ sess.steer, count.turns)
        /\ wake' = (wake \/ (~Blocks' /\ sess'.active = {} /\ sess.queue > 0))
        /\ IF st'.on /\ ~st'.canceled /\ st'.timer # 0
           THEN TimerDone
           ELSE timer' = [timer EXCEPT !.pc = "finish"] /\ UNCHANGED <<actor, lock>>
  /\ UNCHANGED <<enabled, fired, fin, chat, interrupt, count, stopped>>

\* FinishAutoRetryWithMessage: nobody is told that the queue may go on
TimerFinish ==
  /\ timer.pc = "finish"
  /\ Drop /\ TimerDone
  /\ UNCHANGED <<enabled, fired, sess, fin, chat, wake, interrupt, count, stopped>>
-----------------------------------------------------------------------------
(* Controls.Stop and Controls.Fresh, on the chat's actor.                  *)

StopLock ==
  /\ chat.pc = "idle" /\ lock = "none" /\ count.stops < MaxStops
  /\ lock' = "stop"
  /\ chat' = [NoChat EXCEPT !.pc = "target", !.round = 1]
  /\ count' = [count EXCEPT !.stops = @ + 1]
  /\ sess' = [sess EXCEPT !.queue = 0]     \* DiscardSessionPendingInputs
  /\ UNCHANGED <<enabled, tracker, fired, actor, timer, fin, wake, interrupt,
                 stopped>>

\* target: the running turn, if there is one
StopTarget ==
  /\ chat.pc = "target"
  /\ \E k \in sess.active \cup {0} :
       /\ k = 0 <=> sess.active = {}
       /\ chat' = [chat EXCEPT !.pc = "cancel", !.k = k]
  /\ UNCHANGED <<enabled, tracker, fired, actor, lock, sess, timer, fin, wake,
                 interrupt, count, stopped>>

\* cancelRetries, twice: what is running may end in between
StopCancel ==
  /\ chat.pc = "cancel"
  /\ Cancel(chat.k # 0)
  /\ chat' = [chat EXCEPT !.pc = IF @ = "cancel" /\ chat.round = 1 THEN "target"
                                 ELSE "interrupt",
                          !.round = 2]
  /\ stopped' = stopped \cup ({chat.k} \ {0})
                   \cup (IF Blocks /\ st.timer # 0 THEN {origin[st.timer]} ELSE {})
  /\ UNCHANGED <<enabled, fired, actor, lock, sess, timer, fin, wake, interrupt,
                 count>>

\* The turn is interrupted, if it still runs
StopInterrupt ==
  /\ chat.pc = "interrupt"
  /\ interrupt' = interrupt \cup ({chat.k} \ {0})
  /\ chat' = NoChat /\ lock' = "none"
  /\ UNCHANGED <<enabled, tracker, fired, actor, sess, timer, fin, wake, count,
                 stopped>>

\* /new: the check, and after the backend's answer the new thread
FreshCheck ==
  /\ chat.pc = "idle" /\ ~HasActiveWork /\ sess.thread < MaxThreads
  /\ chat' = [NoChat EXCEPT !.pc = "fresh"]
  /\ sess' = [sess EXCEPT !.queue = 0]
  /\ UNCHANGED <<enabled, tracker, fired, actor, lock, timer, fin, wake, interrupt,
                 count, stopped>>

\* bind resets the active operations
FreshBind ==
  /\ chat.pc = "fresh"
  /\ sess' = [sess EXCEPT !.thread = @ + 1, !.active = {}, !.steer = FALSE]
  /\ chat' = NoChat
  /\ UNCHANGED <<enabled, tracker, fired, actor, lock, timer, fin, wake, interrupt,
                 count, stopped>>
-----------------------------------------------------------------------------
RetryNext ==
  \/ Input \/ StartNext \/ Toggle
  \/ \E k \in Turns, status \in {"completed", "failed", "interrupted"} :
       TurnEnds(k, status)
  \/ FinishObserve \/ FinishNext
  \/ \E n \in Timers : TimerFires(n) \/ TimerBegin(n)
  \/ TimerLock \/ TimerCheck \/ TimerSession \/ TimerStart \/ TimerStarted
  \/ TimerFinish
  \/ StopLock \/ StopTarget \/ StopCancel \/ StopInterrupt
  \/ FreshCheck \/ FreshBind

RetrySpec == RetryInit /\ [][RetryNext]_retryVars
-----------------------------------------------------------------------------
\* "A canceled loop must not restart on a late failed completion" and a callback
\* that was dispatched before the /stop cannot start a retry of a later loop: no
\* retry starts for the failure of a turn that a /stop found running or waiting
\* for its retry (CancelAutoRetry, ScheduleAutoRetryAfterFailure, RunAutoRetryTimer).
\* Two things make the tracker forget a stop: switching the setting, and the end of
\* an earlier turn that is observed only after the /stop and takes the mark away
\* (FinishAutoRetryOnTerminal asks for the thread, not for the turn).
StopIsFinal ==
  [][timer.pc = "start" /\ timer'.pc = "started"
       => origin[timer.n] \notin stopped]_retryVars

\* A retry is never a second turn of the session: ordinary input stays queued
\* while the loop lives and the loop gives way to a turn that is running
\* (StateBlocksQueue, RunAutoRetryTimer).
RetryAlone == Cardinality(sess.active) <= 1

\* The session is at rest
Quiet == actor = "none" /\ chat.pc = "idle" /\ sess.active = {} /\ ~sess.steer

\* "The queue is scheduled again when the retry loop has ended": with input in the
\* queue and nothing running, a start or a retry is on its way.
QueueResumes ==
  (Quiet /\ sess.queue > 0 /\ count.turns < MaxTurns)
     => wake \/ (st.on /\ st.timer # 0) \/ fired # {}
=============================================================================
